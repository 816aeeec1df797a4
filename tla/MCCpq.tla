------------------------------- MODULE MCCpq -------------------------------
(***************************************************************************)
(* Instances of Cpq: an input that is right, edited into another that is   *)
(* right, and into inputs that fail in each of the stages.                 *)
(***************************************************************************)
EXTENDS Cpq

MCVerdict ==
  [old |-> "good", new |-> "good", syntax |-> "syntax", semantic |-> "semantic", ir |-> "ir"]
MCSource == DOMAIN MCVerdict
MCLength == [old |-> 1, new |-> 2, syntax |-> 0, semantic |-> 0, ir |-> 1]

\* Fewer inputs, for more faults
GoodVerdict == [old |-> "good", new |-> "good"]
GoodSource == DOMAIN GoodVerdict
GoodLength == [old |-> 1, new |-> 2]

\* Faults that the code notices
Detected == {"open", "memory", "write", "close", "kill"}
LostFlush == {"flush"}
=============================================================================
