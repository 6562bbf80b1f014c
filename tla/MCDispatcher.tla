---------------------------- MODULE MCDispatcher ----------------------------
(* The DXE dispatcher, for TLC, with a reference semantics of dependency
   expressions: a tree and the postfix code that is generated from it.      *)
EXTENDS DxeDispatcher

CONSTANTS a, b, c, h, f1, f2, p, q

Op(op)      == <<[op |-> op, guid |-> None]>>
Push(guid)  == <<[op |-> "PUSH", guid |-> guid]>>
Before(guid) == <<[op |-> "BEFORE", guid |-> guid]>> \o Op("END")
After(guid)  == <<[op |-> "AFTER", guid |-> guid]>> \o Op("END")

RECURSIVE Code(_), Holds(_, _)
Code(t) ==
  CASE t[1] = "push"  -> Push(t[2])
    [] t[1] = "const" -> Op(IF t[2] THEN "TRUE" ELSE "FALSE")
    [] t[1] = "not"   -> Code(t[2]) \o Op("NOT")
    [] t[1] = "and"   -> Code(t[2]) \o Code(t[3]) \o Op("AND")
    [] t[1] = "or"    -> Code(t[2]) \o Code(t[3]) \o Op("OR")
Holds(t, s) ==
  CASE t[1] = "push"  -> t[2] \in s
    [] t[1] = "const" -> t[2]
    [] t[1] = "not"   -> ~Holds(t[2], s)
    [] t[1] = "and"   -> Holds(t[2], s) /\ Holds(t[3], s)
    [] t[1] = "or"    -> Holds(t[2], s) \/ Holds(t[3], s)

P == <<"push", p>>
Q == <<"push", q>>
AndNot == <<"and", P, <<"not", Q>>>>
OrAnd  == <<"or", <<"and", P, Q>>, <<"const", FALSE>>>>
Trees  == {P, AndNot, OrAnd}

WellFormed == [t \in Trees |-> Code(t) \o Op("END")]
Requested(code) == Op("SOR") \o code

(* END is missing; an operand is missing; SOR is not the first.             *)
IllFormed == {Push(p), Push(p) \o Op("AND") \o Op("END"),
              Push(p) \o Op("SOR") \o Op("END")}

MCMeaning ==
  [code \in {WellFormed[t] : t \in Trees} \cup {Requested(WellFormed[t]) : t \in Trees}
             \cup IllFormed |->
     {s \in SUBSET Protocols : \E t \in Trees :
        code \in {WellFormed[t], Requested(WellFormed[t])} /\ Holds(t, s)}]

(* The third file is a volume with an a priori driver.                      *)
MCFiles    == f1 :> <<a, b, c>> @@ f2 :> <<h>>
MCApriori  == f1 :> <<>> @@ f2 :> <<h>>
MCVolumeIn == [x \in Entries |-> IF x = c THEN f2 ELSE None]
MCLoadStatus == [x \in Entries |-> IF x = b THEN {"success", "violation", "error"}
                                  ELSE {"success"}]
MCDepexes ==
  a :> {WellFormed[AndNot], Requested(WellFormed[OrAnd]), None} \cup IllFormed @@
  b :> {Before(a), After(a)} @@
  c :> {Before(b)} @@
  h :> {WellFormed[P]}
=============================================================================
