------------------------------ MODULE KeyIndex ------------------------------
(***************************************************************************)
(* What an access method promises to the table it belongs to: it is a set  *)
(* of entries, a key and a row each.  An insert adds the entry, a delete   *)
(* removes it, and one that raises changes nothing.  A method that updates *)
(* takes an entry out and puts another in, and may raise between the two.  *)
(***************************************************************************)
VARIABLES entries, unique, updates, raised

Init ==
  /\ entries = {}
  /\ unique \in BOOLEAN
  /\ updates \in BOOLEAN
  /\ raised = "nothing"

NoneOrOne(es) == \A e, f \in es : e = f
NewKeys(gone, new) == unique => \A e \in new, f \in entries \ gone : e[1] # f[1]

Add(gone, new) ==
  /\ gone = {} /\ new # {} /\ NoneOrOne(new)
  /\ NewKeys(gone, new)
  /\ raised' = "nothing"

Remove(gone, new) ==
  /\ new = {} /\ gone # {} /\ NoneOrOne(gone)
  /\ raised' = "nothing"

Replace(gone, new) ==
  /\ updates
  /\ NoneOrOne(gone) /\ NoneOrOne(new)
  /\ NewKeys(gone, new)

Fail(gone, new) ==
  /\ gone = {} /\ new = {}
  /\ raised' # "nothing"

Next ==
  /\ \E gone \in {entries \ entries'}, new \in {entries' \ entries} :
       Add(gone, new) \/ Remove(gone, new) \/ Replace(gone, new) \/ Fail(gone, new)
  /\ UNCHANGED <<unique, updates>>

Spec == Init /\ [][Next]_<<entries, unique, updates, raised>>
=============================================================================
