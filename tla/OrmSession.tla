----------------------------- MODULE OrmSession -----------------------------
(***************************************************************************)
(* What the capability-registry's database session does to a row.          *)
(*                                                                         *)
(* A handler loads a row, decides on the attributes it has loaded, assigns *)
(* some of them and returns; get_session then flushes and commits.  The    *)
(* flush writes the attributes that differ from the loaded ones and leaves *)
(* every other column of the stored row alone.  The SELECT ... FOR UPDATE  *)
(* some handlers issue in between makes them wait for each other, but      *)
(* returns the object that is already in the session: without              *)
(* populate_existing its attributes are those of the first load.  A row    *)
(* that was not there is inserted, and a unique index refuses the insert   *)
(* if somebody else's came first.                                          *)
(*                                                                         *)
(* A row is a record with a field "status"; a row that does not exist has  *)
(* status "none".                                                          *)
(***************************************************************************)

Exists(row) == row.status # "none"

(* The stored row after a flush of new over the loaded copy. *)
Flushed(stored, loaded, new) ==
    IF Exists(loaded)
    THEN [f \in DOMAIN stored |-> IF new[f] # loaded[f] THEN new[f] ELSE stored[f]]
    ELSE new

(* The unique index: an insert needs the row to be absent still. *)
Insertable(stored, loaded) == Exists(loaded) \/ ~Exists(stored)
=============================================================================
