----------------------------- MODULE PbufChain -----------------------------
(***************************************************************************)
(* The chains of buffers in which lwIP delivers what it has received, as   *)
(* the sequence of their lengths (pbuf::len, next and tot_len).            *)
(***************************************************************************)
EXTENDS Integers, Sequences

(* Where each buffer ends, counted from the beginning of the chain.        *)
Ends(chain) ==
    LET upTo[n \in 0..Len(chain)] == IF n = 0 THEN 0 ELSE upTo[n - 1] + chain[n]
    IN  upTo

TotalLength(chain) == Ends(chain)[Len(chain)]
=============================================================================
