--------------------------- MODULE StandingStore ---------------------------
(***************************************************************************)
(* What the store keeps about one session in one channel: the session's     *)
(* runtime generation and lifecycle epoch (table sessions), its durable     *)
(* route to the channel (table session_channels) and its standing there     *)
(* (table session_standing): the relay membership the daemon believes in,   *)
(* with an epoch that moves on every change and the lifecycle epoch of the  *)
(* runtime that owns it.  One operator per store transaction; one whose     *)
(* WHERE clause matches nothing returns the rows it was given.              *)
(*                                                                         *)
(* A route carries no history cursor and no timestamp here.                 *)
(***************************************************************************)
EXTENDS Naturals

Rows == [gen : Nat, life : Nat, running : BOOLEAN, revoked : BOOLEAN, final : BOOLEAN,
         route : BOOLEAN, state : {"none", "absent", "member"}, epoch : Nat, owner : Nat]

NoRows == [gen |-> 0, life |-> 0, running |-> FALSE, revoked |-> FALSE, final |-> FALSE,
           route |-> FALSE, state |-> "none", epoch |-> 0, owner |-> 0]

Member(d) == d.state = "member"

\* A member row without a route: the relay still owes the removal.
CleanupDue(d) == Member(d) /\ ~d.route

\* The standing row a task holds is the one in the store.
SameStanding(d, epoch, owner) == Member(d) /\ d.epoch = epoch /\ d.owner = owner

\* What public presence shows of the channel.
Projected(d) == d.route /\ Member(d) /\ d.owner = d.life

WithStanding(d, state, owner) == [d EXCEPT !.state = state, !.epoch = d.epoch + 1, !.owner = owner]

----------------------------------------------------------------------------
(* The runtime *)

CanReserve(d) == ~d.running /\ ~d.revoked

\* A launch into this channel (here) grants its route at once.
Reserved(d, here) ==
  LET r == [d EXCEPT !.gen = d.gen + 1, !.life = d.life + 1, !.running = TRUE]
  IN IF ~here THEN r
     ELSE IF r.state = "none" THEN [WithStanding(r, "absent", r.life) EXCEPT !.route = TRUE]
     ELSE [r EXCEPT !.route = TRUE]

Stopped(d) == [d EXCEPT !.running = FALSE, !.life = d.life + 1]

Revoked(d) == [d EXCEPT !.revoked = TRUE]

\* finalize_session_recovery_revocation: memberships stay recorded, and so due.
Finalized(d) ==
  LET r == [d EXCEPT !.running = FALSE, !.life = d.life + 1, !.route = FALSE, !.final = TRUE]
  IN CASE Member(d) -> WithStanding(r, "member", r.life)
       [] d.state = "none" /\ d.route -> WithStanding(r, "absent", r.life)
       [] OTHER -> r

----------------------------------------------------------------------------
(* Admission *)

Owns(d, gen) == d.gen = gen /\ ~d.revoked

\* The member row of another lifecycle is not this admission's to clean up.
Superseded(d, life) == Member(d) /\ d.owner # life

CleanupScheduled(d, life) == IF Superseded(d, life) THEN d ELSE WithStanding(d, "member", life)

Committed(d) == [WithStanding(d, "member", d.life) EXCEPT !.route = TRUE]

\* schedule_confirmed_admission_cleanup finds the admission committed after all.
AlreadyCommitted(d, gen) == Owns(d, gen) /\ Projected(d)

\* Mutant: the row's owner is compared with the current lifecycle.
MarkedAbsentByRuntime(d, epoch, owner) ==
  IF Member(d) /\ d.epoch = epoch /\ d.owner = d.life THEN WithStanding(d, "absent", d.owner) ELSE d

MarkedAbsent(d, epoch, owner) ==
  IF SameStanding(d, epoch, owner) THEN WithStanding(d, "absent", d.owner) ELSE d

----------------------------------------------------------------------------
(* Leave *)

RouteLeft(d) == [d EXCEPT !.route = FALSE]

\* The standing a leave began from: 0 if the session was no member.
LeftStanding(d) == IF Member(d) THEN d.epoch ELSE 0

\* Mutant: a failed leave restores the route of a forgotten session.
RouteRestoredAlways(d, gen, epoch) ==
  IF d.gen = gen /\ LeftStanding(d) = epoch THEN [d EXCEPT !.route = TRUE] ELSE d

RouteRestored(d, gen, epoch) ==
  IF Owns(d, gen) /\ LeftStanding(d) = epoch THEN [d EXCEPT !.route = TRUE] ELSE d

\* revoke_route_and_mark_absent
Left(d) == LET r == [d EXCEPT !.route = FALSE]
           IN WithStanding(r, "absent", IF d.state = "none" THEN d.life ELSE d.owner)
=============================================================================
