------------------------------- MODULE Accounts -------------------------------
(***************************************************************************)
(* Gate invitations, roles and profiles (InvitationsService,               *)
(* OrganizerService, ProfileService, MaintenanceService).                  *)
(*                                                                         *)
(* Invitations are not locked: inviteStaff(), revokeStaff() and            *)
(* acceptStaff() read an invitation, decide, and write without asking      *)
(* again.  acceptStaff() computes the user's roles from the session, which *)
(* is read before that.  activate() locks the User row and is one step.    *)
(*                                                                         *)
(* Everybody's e-mail is verified, since the code refuses the others, and  *)
(* an invitation is sent to a user's own address.  Administrators may also *)
(* set roles through the Better Auth library, which is not modelled.       *)
(***************************************************************************)
EXTENDS Integers

CONSTANTS
  User, Event,   \* rows that exist from the start; a user stands for an e-mail
  Invitation,    \* ids of invitations; whoever has the token knows the id
  Cpf,           \* hashes of tax numbers
  Request,       \* slots of concurrent staff requests
  Null,          \* the database's NULL
  TTL,           \* the 48 hours of an invitation
  Horizon        \* bound: the last clock value

ASSUME AccountsAssumption ==
  /\ Null \notin User \cup Event \cup Invitation \cup Cpf
  /\ TTL \in Nat /\ Horizon \in Nat

VARIABLES
  now,           \* the wall clock
  invitation,    \* StaffInvitation; key says whether dedupKey is set, accepted
                 \*   whether acceptedAt is
  role,          \* User.role
  staff,         \* EventStaff
  profile,       \* UserProfile.cpfHash, Null without a profile
  request        \* Request -> what it has read and where it is

vars == <<now, invitation, role, staff, profile, request>>

Role == {"customer", "organizer", "gate_staff"}

Ended == {"ACCEPTED", "EXPIRED", "REVOKED"}

InvitationRow ==
  [status : {"ABSENT", "PENDING"} \cup Ended, event : Event \cup {Null},
   user : User \cup {Null}, expiresAt : 0..Horizon, key : {"set", "null"},
   accepted : {"yes", "no"}]

RequestState ==
  [pc : {"idle", "create", "revoke", "accept", "expire"}, invitation : Invitation \cup {Null},
   event : Event \cup {Null}, user : User \cup {Null}, seen : SUBSET Role]

Absent == [status |-> "ABSENT", event |-> Null, user |-> Null, expiresAt |-> 0,
           key |-> "null", accepted |-> "no"]

Idle == [pc |-> "idle", invitation |-> Null, event |-> Null, user |-> Null, seen |-> {}]

TypeOK ==
  /\ now \in 0..Horizon
  /\ invitation \in [Invitation -> InvitationRow]
  /\ role \in [User -> SUBSET Role]
  /\ staff \subseteq Event \X User
  /\ profile \in [User -> Cpf \cup {Null}]
  /\ request \in [Request -> RequestState]

\* Registration gives the default role.
Init ==
  /\ now = 0
  /\ invitation = [i \in Invitation |-> Absent]
  /\ role = [u \in User |-> {"customer"}]
  /\ staff = {}
  /\ profile = [u \in User |-> Null]
  /\ request = [r \in Request |-> Idle]

-----------------------------------------------------------------------------
(* What the handlers read and write *)

\* Mutant: the key of a closed invitation stays.
Close_KeepsKey(i, end) == [invitation[i] EXCEPT !.status = end]

Close(i, end) == [invitation[i] EXCEPT !.status = end, !.key = "null"]

Due(i) == invitation[i].status = "PENDING" /\ invitation[i].expiresAt <= now

\* expireStaffInvitations(), and the job's updateMany.
Expired(events) ==
  [i \in Invitation |-> IF Due(i) /\ invitation[i].event \in events
                        THEN Close(i, "EXPIRED") ELSE invitation[i]]

\* The unique dedupKey, made of event and e-mail.
KeyTaken(rows, e, u) ==
  \E i \in Invitation : rows[i].key = "set" /\ rows[i].event = e /\ rows[i].user = u

\* Mutant: the new role takes the place of the others.
AddRole_Replaces(roles, r) == {r}

\* Mutant: the empty part of an empty list stays.
AddRole_Unfiltered(roles, r) == roles \cup {r, ""}

AddRole(roles, r) == roles \cup {r}

Go(r, state) == request' = [request EXCEPT ![r] = state]

Finish(r) == Go(r, Idle)

-----------------------------------------------------------------------------
(* Invitations *)

\* inviteStaff() up to the search for a pending invitation.
InviteRead(r, e, u) ==
  /\ request[r].pc = "idle"
  /\ invitation' = Expired({e})
  /\ \/ KeyTaken(invitation', e, u) /\ UNCHANGED request
     \/ /\ ~KeyTaken(invitation', e, u)
        /\ Go(r, [Idle EXCEPT !.pc = "create", !.event = e, !.user = u])
  /\ UNCHANGED <<now, role, staff, profile>>

\* The insert, which the unique key may refuse after all.
InviteWrite(r, i) ==
  LET e == request[r].event  u == request[r].user
  IN /\ request[r].pc = "create"
     /\ invitation[i].status = "ABSENT"
     /\ ~KeyTaken(invitation, e, u)
     /\ now + TTL <= Horizon
     /\ invitation' = [invitation EXCEPT ![i] =
          [status |-> "PENDING", event |-> e, user |-> u, expiresAt |-> now + TTL,
           key |-> "set", accepted |-> "no"]]
     /\ Finish(r)
     /\ UNCHANGED <<now, role, staff, profile>>

ListStaff(e) ==
  /\ invitation' = Expired({e})
  /\ UNCHANGED <<now, role, staff, profile, request>>

\* revokeStaff() up to the check of the status.
RevokeRead(r, i) ==
  /\ request[r].pc = "idle"
  /\ invitation[i].status # "ABSENT"
  /\ invitation' = Expired({invitation[i].event})
  /\ \/ invitation'[i].status \in Ended /\ UNCHANGED request
     \/ /\ invitation'[i].status = "PENDING"
        /\ Go(r, [Idle EXCEPT !.pc = "revoke", !.invitation = i])
  /\ UNCHANGED <<now, role, staff, profile>>

RevokeWrite(r) ==
  LET i == request[r].invitation
  IN /\ request[r].pc = "revoke"
     /\ invitation' = [invitation EXCEPT ![i] = Close(i, "REVOKED")]
     /\ Finish(r)
     /\ UNCHANGED <<now, role, staff, profile>>

\* The session guard, and acceptStaff() up to the check of the deadline and the
\* address.  The guard reads the roles a little before the handler reads the
\* invitation: an invitation pending at the later moment was pending at the first.
AcceptRead(r, i) ==
  LET u == invitation[i].user
  IN /\ request[r].pc = "idle"
     /\ invitation[i].status = "PENDING"
     /\ Go(r, [Idle EXCEPT !.pc = IF Due(i) THEN "expire" ELSE "accept",
                           !.invitation = i, !.event = invitation[i].event,
                           !.user = u, !.seen = role[u]])
     /\ UNCHANGED <<now, invitation, role, staff, profile>>

\* A late acceptance closes the invitation, whatever it has become.
AcceptExpires(r) ==
  LET i == request[r].invitation
  IN /\ request[r].pc = "expire"
     /\ invitation' = [invitation EXCEPT ![i] = Close(i, "EXPIRED")]
     /\ Finish(r)
     /\ UNCHANGED <<now, role, staff, profile>>

\* Mutant: the staff row is not in the transaction, and is lost.
Staff_NotWritten(e, u) == staff

Staff(e, u) == staff \cup {<<e, u>>}

\* The transaction of three writes.
AcceptWrite(r) ==
  LET i == request[r].invitation  e == request[r].event  u == request[r].user
  IN /\ request[r].pc = "accept"
     /\ role' = [role EXCEPT ![u] = AddRole(request[r].seen, "gate_staff")]
     /\ staff' = Staff(e, u)
     /\ invitation' = [invitation EXCEPT ![i] =
                         [Close(i, "ACCEPTED") EXCEPT !.accepted = "yes"]]
     /\ Finish(r)
     /\ UNCHANGED <<now, profile>>

\* A refusal, a failure or a crash ends a request before it writes.
Refuse(r) ==
  /\ request[r].pc # "idle"
  /\ Finish(r)
  /\ UNCHANGED <<now, invitation, role, staff, profile>>

\* Mutant: the job works off the deadline of the others.
Job_Late == [i \in Invitation |-> IF Due(i) /\ invitation[i].expiresAt + 1 < now
                                  THEN Close(i, "EXPIRED") ELSE invitation[i]]

\* What cleanup() writes every minute.
Job == Expired(Event)

Cleanup ==
  /\ invitation' = Job
  /\ UNCHANGED <<now, role, staff, profile, request>>

-----------------------------------------------------------------------------
(* Accounts *)

\* update(): the unique cpfHash is the last to refuse.
SaveProfile(u, c) ==
  /\ \A v \in User \ {u} : profile[v] # c
  /\ profile' = [profile EXCEPT ![u] = c]
  /\ UNCHANGED <<now, invitation, role, staff, request>>

\* Mutant: the profile is not asked for.
MayActivate_Anybody(u) == TRUE

MayActivate(u) == profile[u] # Null

\* activate(), under the lock of the User row.
Activate(u) ==
  /\ MayActivate(u)
  /\ role' = [role EXCEPT ![u] = AddRole(role[u], "organizer")]
  /\ UNCHANGED <<now, invitation, staff, profile, request>>

Tick ==
  /\ now < Horizon
  /\ now' = now + 1
  /\ UNCHANGED <<invitation, role, staff, profile, request>>

-----------------------------------------------------------------------------
Serve(r) ==
  \/ \E e \in Event, u \in User : InviteRead(r, e, u)
  \/ \E i \in Invitation : InviteWrite(r, i) \/ RevokeRead(r, i) \/ AcceptRead(r, i)
  \/ RevokeWrite(r) \/ AcceptExpires(r) \/ AcceptWrite(r) \/ Refuse(r)

Next ==
  \/ \E r \in Request : Serve(r)
  \/ \E e \in Event : ListStaff(e)
  \/ Cleanup
  \/ \E u \in User, c \in Cpf : SaveProfile(u, c)
  \/ \E u \in User : Activate(u)
  \/ Tick

Spec == Init /\ [][Next]_vars

\* The clock advances and Nest's interval keeps firing the job.
Fairness == WF_vars(Tick) /\ WF_vars(Cleanup)

FairSpec == Spec /\ Fairness

-----------------------------------------------------------------------------
(* Properties *)

\* RN19: one pending invitation at most per e-mail and event, and its key blocks
\* another exactly while it is pending, however requests that read it pending write
\* late (inviteStaff, revokeStaff, acceptStaff, cleanup).
OnePending ==
  /\ \A i, j \in Invitation :
       /\ invitation[i].status = "PENDING" /\ invitation[j].status = "PENDING"
       /\ invitation[i].event = invitation[j].event
       /\ invitation[i].user = invitation[j].user
       => i = j
  /\ \A i \in Invitation : invitation[i].key = "set" <=> invitation[i].status = "PENDING"

\* A gate assignment is there exactly when an invitation for that event and person
\* was accepted, also if a request that read it pending has closed it otherwise
\* since (acceptStaff's transaction, RN16).
StaffIsAccepted ==
  staff = {<<invitation[i].event, invitation[i].user>> :
             i \in {j \in Invitation : invitation[j].accepted = "yes"}}

\* Roles stand on what they are given for: gate_staff on an assignment, in both
\* directions, and organizer on a profile, in spite of roles computed from an old
\* session (acceptStaff, activate, RN21).
RolesAreBacked ==
  \A u \in User :
    /\ "customer" \in role[u]
    /\ "gate_staff" \in role[u] <=> \E e \in Event : <<e, u>> \in staff
    /\ "organizer" \in role[u] => profile[u] # Null

\* Roles accumulate as long as nothing overlaps: the only role that is ever lost is
\* organizer, to an acceptance of the same user whose session was read before the
\* activation.
RolesKept ==
  [][\A u \in User : \A x \in role[u] \ role'[u] :
       /\ x = "organizer"
       /\ \E r \in Request : /\ request[r].pc = "accept" /\ request[r].user = u
                             /\ x \notin request[r].seen]_vars

\* A pending invitation ends: it frees its key for another attempt even if nobody
\* answers it (cleanup).
PendingEnds ==
  \A i \in Invitation :
    invitation[i].status = "PENDING" ~> invitation[i].status \in Ended

-----------------------------------------------------------------------------
(* What the documents say and the code does not do *)

\* docs/01-visao-geral.md: "Os papéis são cumulativos."  acceptStaff() writes roles
\* computed from the session over those that activate() has written since.
RolesAccumulate == [][\A u \in User : role[u] \subseteq role'[u]]_vars
=============================================================================
