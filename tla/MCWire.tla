-------------------------------- MODULE MCWire --------------------------------
(***************************************************************************)
(* Values for the runs of T2QWire.  A number beyond one word (Base = 256)  *)
(* and a negative one are among the descriptors; a string is null or has   *)
(* one word of content, which is no code, and misread as a length is odd   *)
(* or longer than any message.                                             *)
(***************************************************************************)
EXTENDS T2QWire

LongArgs == {-1, 2}
Descriptors == {-1, 258}
TextArgs == {Null, <<5>>}
Messages == {<<>>, <<240>>}

Reports == {<<0, 3, Null>>, <<3, 0, <<240>>>>}

\* The values are among those the theorems about T2QWire are stated for.
ASSUME RunsAssumption ==
    /\ CodesApart
    /\ Functions = AgreedFunctions => AgreedValues

=============================================================================
