------------------------- MODULE MCParallelProcessor -------------------------
(***************************************************************************)
(* Calls that depend on one another in every way, on two polynomials of    *)
(* two chains: write then read, read then write, write then write, in      *)
(* place, with no source, and with no task.                                *)
(***************************************************************************)
EXTENDS ParallelProcessor

MCResource == {"x", "y"}

MCChain == MCResource \X (0 .. 1)

(* A kernel's result is a term: nothing but equal inputs gives equal data. *)
MCEval(kernel, arguments) == <<kernel, arguments>>

MCInitialMemory == [c \in MCChain |-> <<c, <<>>>>]

Invoke(method, x, y, count) ==
    [method |-> method, x |-> x, xOffset |-> [k \in DOMAIN x |-> 0],
     y |-> y, yOffset |-> 0, count |-> count]

MCMethodCall == {
    Invoke("ntt", <<"x">>, "x", 2),
    Invoke("mont_add", <<"x", "y">>, "y", 2),
    Invoke("mont_enter_tiled", <<"y">>, "x", 2),
    Invoke("zero_fill", <<>>, "y", 1),
    Invoke("copy", <<"x">>, "y", 0)}

MCStream == 0 .. 1
=============================================================================
