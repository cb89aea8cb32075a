-------------------------- MODULE MCSingleProcessor --------------------------
(***************************************************************************)
(* Every call of the core, at every level of texts with up to four chains, *)
(* with three special primes, so that a partition has digits to carry.     *)
(***************************************************************************)
EXTENDS SingleProcessor

MCChain == {"x", "y", "z"} \X (0 .. TextChainCount + SpecialPrimeCount + 1)

(* A kernel's result is a term: nothing but equal inputs gives equal data. *)
MCEval(kernel, arguments) == <<kernel, arguments>>

MCInitialMemory == [c \in MCChain |-> <<c, <<>>>>]

MCMethodCall == CoreCall
=============================================================================
