---------------------------- MODULE DoitProtocol ----------------------------
(***************************************************************************)
(* The order in which libbench calls the routines that a doit program      *)
(* supplies, as its authors may rely on it: can_do is asked first, setup   *)
(* comes once and only for a problem that can_do accepted and whose arrays *)
(* exist and are cleared, doit is called only between setup and done, and  *)
(* the arrays outlive the plan.  The process may stop at any moment.       *)
(***************************************************************************)
EXTENDS Naturals

VARIABLES stage,   \* how far the present problem has come
          calls    \* how often doit was called for it

\* "idle"       no problem             "allocated"  the arrays exist
\* "parsed"     a problem, not asked   "cleared"    the arrays hold zeros
\* "refused"    can_do said no         "planned"    setup has been called
\* "accepted"   can_do said yes        "unplanned"  done has been called
\* "exited"     the process is gone

PInit == stage = "idle" /\ calls = 0

Advance(from, to) == stage = from /\ stage' = to /\ UNCHANGED calls

Parse   == Advance("idle", "parsed")
CanDo   == Advance("parsed", "accepted") \/ Advance("parsed", "refused")
Alloc   == Advance("accepted", "allocated")
Zero    == Advance("allocated", "cleared")
Setup   == Advance("cleared", "planned")
Done    == Advance("planned", "unplanned")
Destroy == /\ stage \in {"unplanned", "accepted", "refused"}
           /\ stage' = "idle" /\ calls' = 0

\* One or several calls of doit; the process may exit on what they return.
Doit == /\ stage = "planned"
        /\ stage' \in {"planned", "exited"}
        /\ calls' > calls

Exit == stage # "exited" /\ stage' = "exited" /\ UNCHANGED calls

PNext == Parse \/ CanDo \/ Alloc \/ Zero \/ Setup \/ Doit \/ Done \/ Destroy
         \/ Exit

pvars == <<stage, calls>>

PSpec == PInit /\ [][PNext]_pvars
=============================================================================
