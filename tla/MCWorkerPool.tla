---------------------------- MODULE MCWorkerPool ----------------------------
(***************************************************************************)
(* Two workers and batches of the shapes the processor's methods build, on *)
(* two polynomials of two chains and a single chain r.                     *)
(***************************************************************************)
EXTENDS WorkerPool

MCChain == {"x0", "x1", "y0", "y1", "r"}

MCKernel == {"reduce", "enter", "subtract", "round", "add"}

(* A kernel's result is a term: nothing but equal inputs gives equal data. *)
MCEval(kernel, arguments) == [kernel |-> kernel, arguments |-> arguments]

MCInitialMemory == [c \in MCChain |-> [kernel |-> c, arguments |-> <<>>]]

task(kernel, sources, destination) ==
    [kernel |-> kernel, sources |-> sources, destination |-> destination]

InPlace == <<task("reduce", <<"x0">>, "x0"), task("reduce", <<"x1">>, "x1")>>

Tiled == <<task("enter", <<"x1">>, "y0"), task("enter", <<"x1">>, "y1")>>

(* As mod_down: chain y1 is subtracted from y0 in place. *)
TiledInPlace == <<task("subtract", <<"y0", "y1">>, "y0")>>

ThreeOnTwo == <<task("round", <<"x0">>, "r"), task("add", <<"x0", "y0">>, "y0"),
                task("add", <<"x1", "y1">>, "y1")>>

(* What the balancer provides for: two tasks that write one chain. *)
Rewritten == <<task("enter", <<"x0">>, "r"), task("reduce", <<"x1">>, "r"),
               task("enter", <<"x1">>, "y0")>>

MCBatch == {InPlace, Tiled, TiledInPlace, ThreeOnTwo, Rewritten, <<>>}

=============================================================================
