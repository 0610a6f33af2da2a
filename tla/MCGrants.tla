------------------------------ MODULE MCGrants ------------------------------
(* Instances of CollectionGrants for TLC. *)
EXTENDS GrantsInvariant

CONSTANTS ann, bob, cyd, annSub, bobSub, newSub

SubOf(e) == IF e = ann THEN annSub ELSE bobSub

By(e, kind, target, role) ==
  [kind |-> kind, admin |-> FALSE, email |-> e, sub |-> SubOf(e), target |-> target, role |-> role]
Sysadmin(kind, target, role) ==
  [kind |-> kind, admin |-> TRUE, email |-> cyd, sub |-> bobSub, target |-> target, role |-> role]
Asks(e, kind, sub) ==
  [kind |-> kind, admin |-> FALSE, email |-> e, sub |-> sub, target |-> e, role |-> "viewer"]

Granted(a, b, c) ==
  [e \in Emails |-> IF e = ann THEN a ELSE IF e = bob THEN b ELSE c]
Row(role, sub) == [role |-> role, sub |-> sub]

(* Two owners who have not been seen yet; one who has, with a viewer; a    *)
(* collection nobody has been granted.                                     *)
StartTables ==
  { Granted(Row("owner", NoSubject), Row("owner", NoSubject), NoRow),
    Granted(Row("owner", annSub), Row("viewer", NoSubject), Row("editor", bobSub)),
    Granted(NoRow, NoRow, NoRow) }

(* Owners who revoke or demote each other or themselves, a sysadmin who    *)
(* does and undoes, a role given beyond one's own, first accesses by the   *)
(* right and by another subject.                                           *)
AllJobs ==
  { By(ann, "revoke", bob, "viewer"),
    By(bob, "revoke", ann, "viewer"),
    By(ann, "grant", ann, "viewer"),
    By(ann, "grant", bob, "editor"),
    By(ann, "grant", bob, "owner"),
    By(bob, "grant", cyd, "editor"),
    Sysadmin("grant", bob, "owner"),
    Sysadmin("grant", ann, "editor"),
    Sysadmin("revoke", bob, "viewer"),
    Asks(ann, "mint", annSub),
    Asks(ann, "mint", newSub),
    Asks(bob, "mint", bobSub) }

(* Three requests that wait for each other, undo each other or race for a  *)
(* first access, also one that only reads.                                 *)
RaceJobs ==
  { By(ann, "revoke", bob, "viewer"),
    By(bob, "revoke", ann, "viewer"),
    By(ann, "grant", ann, "viewer"),
    By(ann, "grant", bob, "owner"),
    Sysadmin("grant", bob, "owner"),
    Asks(ann, "mint", annSub),
    Asks(ann, "list", newSub),
    Asks(bob, "read", bobSub) }
=============================================================================
