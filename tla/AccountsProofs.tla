---------------------------- MODULE AccountsProofs ----------------------------
(***************************************************************************)
(* Invitations, gate assignments and roles for any number of users, events *)
(* and concurrent requests.                                                *)
(***************************************************************************)
EXTENDS Accounts, TLAPS

\* A row that exists is one of an event and a person; one that does not is empty.
RowsMeanSomething ==
  \A i \in Invitation :
    IF invitation[i].status = "ABSENT" THEN invitation[i] = Absent
    ELSE invitation[i].event \in Event /\ invitation[i].user \in User

\* What a request in flight has read stays true of the row, except for its end.
RequestsKnow ==
  \A r \in Request :
    /\ request[r].pc = "create" => request[r].event \in Event /\ request[r].user \in User
    /\ request[r].pc \in {"revoke", "expire", "accept"} =>
         /\ request[r].invitation \in Invitation
         /\ invitation[request[r].invitation].status # "ABSENT"
    /\ request[r].pc = "accept" =>
         /\ request[r].event = invitation[request[r].invitation].event
         /\ request[r].user = invitation[request[r].invitation].user

Typed == TypeOK /\ RowsMeanSomething /\ RequestsKnow

\* Closing an invitation changes neither whose it is nor whether it was accepted.
LEMMA CloseFacts ==
  ASSUME TypeOK, NEW i \in Invitation, NEW end \in Ended
  PROVE  /\ Close(i, end) \in InvitationRow
         /\ Close(i, end).status = end /\ Close(i, end).key = "null"
         /\ Close(i, end).event = invitation[i].event
         /\ Close(i, end).user = invitation[i].user
         /\ Close(i, end).accepted = invitation[i].accepted
BY DEF TypeOK, InvitationRow, Close, Ended

\* The rows an expiry leaves, one by one.
LEMMA ExpiredFacts ==
  ASSUME TypeOK, NEW E, invitation' = Expired(E)
  PROVE  /\ invitation' \in [Invitation -> InvitationRow]
         /\ \A i \in Invitation :
              /\ invitation'[i] = invitation[i] \/
                   (invitation[i].status = "PENDING" /\ invitation'[i] = Close(i, "EXPIRED"))
              /\ invitation'[i].event = invitation[i].event
              /\ invitation'[i].user = invitation[i].user
              /\ invitation'[i].accepted = invitation[i].accepted
              /\ invitation'[i].status = "ABSENT" <=> invitation[i].status = "ABSENT"
<1>1. \A i \in Invitation :
        invitation'[i] = invitation[i] \/
          (invitation[i].status = "PENDING" /\ invitation'[i] = Close(i, "EXPIRED"))
  BY DEF Expired, Due
<1>2. \A i \in Invitation : invitation[i] \in InvitationRow
  BY DEF TypeOK
<1>3. \A i \in Invitation : invitation'[i] \in InvitationRow
  BY <1>1, <1>2, CloseFacts DEF Ended
<1>4. invitation' \in [Invitation -> InvitationRow]
  BY <1>3 DEF Expired
<1>5. \A i \in Invitation :
              /\ invitation'[i].event = invitation[i].event
              /\ invitation'[i].user = invitation[i].user
              /\ invitation'[i].accepted = invitation[i].accepted
              /\ invitation'[i].status = "ABSENT" <=> invitation[i].status = "ABSENT"
  BY <1>1, CloseFacts DEF Ended
<1> QED BY <1>1, <1>4, <1>5

\* A request that ends, or that has read what it now knows.
LEMMA KnowsMore ==
  ASSUME Typed, NEW r \in Request, NEW state \in RequestState, Go(r, state),
         invitation' \in [Invitation -> InvitationRow],
         \A i \in Invitation : /\ invitation'[i].event = invitation[i].event
                               /\ invitation'[i].user = invitation[i].user
                               /\ invitation[i].status # "ABSENT" =>
                                    invitation'[i].status # "ABSENT",
         state.pc = "create" => state.event \in Event /\ state.user \in User,
         state.pc \in {"revoke", "expire", "accept"} =>
           /\ state.invitation \in Invitation
           /\ invitation'[state.invitation].status # "ABSENT",
         state.pc = "accept" => /\ state.event = invitation'[state.invitation].event
                                /\ state.user = invitation'[state.invitation].user
  PROVE  RequestsKnow' /\ request' \in [Request -> RequestState]
<1>1. /\ request' \in [Request -> RequestState]
      /\ \A q \in Request : request'[q] = IF q = r THEN state ELSE request[q]
  BY DEF Typed, TypeOK, Go
<1>2. ASSUME NEW q \in Request
      PROVE /\ request'[q].pc = "create" =>
                 request'[q].event \in Event /\ request'[q].user \in User
            /\ request'[q].pc \in {"revoke", "expire", "accept"} =>
                 /\ request'[q].invitation \in Invitation
                 /\ invitation'[request'[q].invitation].status # "ABSENT"
            /\ request'[q].pc = "accept" =>
                 /\ request'[q].event = invitation'[request'[q].invitation].event
                 /\ request'[q].user = invitation'[request'[q].invitation].user
  <2>1. CASE q = r  BY <2>1, <1>1
  <2>2. CASE q # r  BY <2>2, <1>1 DEF Typed, RequestsKnow
  <2> QED BY <2>1, <2>2
<1> QED BY <1>1, <1>2 DEF RequestsKnow

\* A request that has nothing under way is well typed.
LEMMA IdleFacts == Idle \in RequestState /\ Idle.pc = "idle"
BY DEF Idle, RequestState

\* An expiry, alone or before a request goes on.
LEMMA TypedAfterExpiry ==
  ASSUME Typed, NEW E, invitation' = Expired(E), UNCHANGED <<now, role, staff, profile, request>>
  PROVE  Typed'
<1>1. RowsMeanSomething'
  BY ExpiredFacts DEF Typed, RowsMeanSomething, Close, Ended
<1>2. RequestsKnow'
  BY ExpiredFacts DEF Typed, RequestsKnow
<1> QED BY <1>1, <1>2, ExpiredFacts DEF Typed, TypeOK

\* One row changes, and is still that of its event and person.
LEMMA OneRow ==
  ASSUME Typed, NEW i \in Invitation, NEW row \in InvitationRow,
         invitation' = [invitation EXCEPT ![i] = row],
         row.status # "ABSENT" /\ row.event \in Event /\ row.user \in User,
         invitation[i].status = "ABSENT" \/
           (row.event = invitation[i].event /\ row.user = invitation[i].user),
         NEW r \in Request, Finish(r)
  PROVE  RowsMeanSomething' /\ RequestsKnow' /\ invitation' \in [Invitation -> InvitationRow]
           /\ request' \in [Request -> RequestState]
<1>1. /\ invitation' \in [Invitation -> InvitationRow]
      /\ \A j \in Invitation : invitation'[j] = IF j = i THEN row ELSE invitation[j]
  BY DEF Typed, TypeOK
<1>2. RowsMeanSomething'
  BY <1>1 DEF Typed, RowsMeanSomething
<1>3. /\ request' \in [Request -> RequestState]
      /\ \A q \in Request : request'[q] = IF q = r THEN Idle ELSE request[q]
  BY IdleFacts DEF Typed, TypeOK, Go, Finish
<1>4. RequestsKnow'
  BY <1>1, <1>3, IdleFacts DEF Typed, RequestsKnow
<1> QED BY <1>1, <1>2, <1>3, <1>4

\* Every step keeps users, invitations and requests well typed.
LEMMA TypedStep ==
  ASSUME Typed, [Next]_vars
  PROVE  Typed'
<1> USE AccountsAssumption
<1>1. ASSUME NEW r \in Request, NEW e \in Event, NEW u \in User, InviteRead(r, e, u)
      PROVE  Typed'
  <2>1. CASE UNCHANGED request  BY <1>1, <2>1, TypedAfterExpiry DEF InviteRead
  <2>2. CASE Go(r, [Idle EXCEPT !.pc = "create", !.event = e, !.user = u])
    <3> DEFINE state == [Idle EXCEPT !.pc = "create", !.event = e, !.user = u]
    <3>1. /\ state \in RequestState
          /\ state.pc = "create" /\ state.event \in Event /\ state.user \in User
      BY DEF Idle, RequestState
    <3>0. Go(r, state)  BY <2>2
    <3> HIDE DEF state
    <3>2. RequestsKnow' /\ request' \in [Request -> RequestState]
      BY <1>1, <3>0, <3>1, ExpiredFacts, KnowsMore DEF InviteRead, Typed
    <3>3. RowsMeanSomething'
      BY <1>1, ExpiredFacts DEF InviteRead, Typed, RowsMeanSomething, Close, Ended
    <3> QED BY <1>1, <3>2, <3>3, ExpiredFacts DEF InviteRead, Typed, TypeOK
  <2> QED BY <1>1, <2>1, <2>2 DEF InviteRead
<1>2. ASSUME NEW r \in Request, NEW i \in Invitation, InviteWrite(r, i)
      PROVE  Typed'
  <2> DEFINE row == [status |-> "PENDING", event |-> request[r].event, user |-> request[r].user,
                     expiresAt |-> now + TTL, key |-> "set", accepted |-> "no"]
  <2>1. request[r].event \in Event /\ request[r].user \in User
    BY <1>2 DEF InviteWrite, Typed, RequestsKnow
  <2>2. now + TTL \in 0..Horizon  BY <1>2 DEF InviteWrite, Typed, TypeOK
  <2>3. row \in InvitationRow  BY <2>1, <2>2 DEF InvitationRow
  <2>4. invitation' = [invitation EXCEPT ![i] = row] /\ Finish(r)
          /\ invitation[i].status = "ABSENT"
    BY <1>2 DEF InviteWrite
  <2> HIDE DEF row
  <2>5. row.status # "ABSENT" /\ row.event \in Event /\ row.user \in User
    BY <2>1 DEF row
  <2>6. RowsMeanSomething' /\ RequestsKnow' /\ invitation' \in [Invitation -> InvitationRow]
           /\ request' \in [Request -> RequestState]
    BY <2>3, <2>4, <2>5, OneRow
  <2> QED BY <1>2, <2>6 DEF InviteWrite, Typed, TypeOK
<1>3. ASSUME NEW r \in Request, NEW i \in Invitation, RevokeRead(r, i)
      PROVE  Typed'
  <2> DEFINE E == {invitation[i].event}
  <2>1. invitation' = Expired(E)  BY <1>3 DEF RevokeRead
  <2> HIDE DEF E
  <2>2. CASE UNCHANGED request  BY <1>3, <2>1, <2>2, TypedAfterExpiry DEF RevokeRead
  <2>3. CASE invitation'[i].status = "PENDING"
               /\ Go(r, [Idle EXCEPT !.pc = "revoke", !.invitation = i])
    <3> DEFINE state == [Idle EXCEPT !.pc = "revoke", !.invitation = i]
    <3>1. state \in RequestState /\ state.pc = "revoke" /\ state.invitation = i
      BY DEF Idle, RequestState
    <3>0. Go(r, state) /\ invitation'[i].status # "ABSENT"  BY <2>3
    <3> HIDE DEF state
    <3>2. RequestsKnow' /\ request' \in [Request -> RequestState]
      BY <2>1, <3>0, <3>1, ExpiredFacts, KnowsMore DEF Typed
    <3>3. RowsMeanSomething'
      BY <2>1, ExpiredFacts DEF Typed, RowsMeanSomething, Close, Ended
    <3> QED BY <1>3, <2>1, <3>2, <3>3, ExpiredFacts DEF RevokeRead, Typed, TypeOK
  <2> QED BY <1>3, <2>2, <2>3 DEF RevokeRead
<1>4. ASSUME NEW r \in Request, NEW end \in Ended, NEW row, row = Close(request[r].invitation, end),
             request[r].pc \in {"revoke", "expire"}, Finish(r),
             invitation' = [invitation EXCEPT ![request[r].invitation] = row],
             UNCHANGED <<now, role, staff, profile>>
      PROVE  Typed'
  <2>1. request[r].invitation \in Invitation /\ invitation[request[r].invitation].status # "ABSENT"
    BY <1>4 DEF Typed, RequestsKnow
  <2>2. /\ row \in InvitationRow /\ row.status # "ABSENT"
        /\ row.event = invitation[request[r].invitation].event
        /\ row.user = invitation[request[r].invitation].user
    BY <1>4, <2>1, CloseFacts DEF Typed, Ended
  <2>3. row.event \in Event /\ row.user \in User
    BY <2>1, <2>2 DEF Typed, RowsMeanSomething
  <2>4. RowsMeanSomething' /\ RequestsKnow' /\ invitation' \in [Invitation -> InvitationRow]
           /\ request' \in [Request -> RequestState]
    BY <1>4, <2>1, <2>2, <2>3, OneRow
  <2> QED BY <1>4, <2>4 DEF Typed, TypeOK
<1>5. ASSUME NEW r \in Request, RevokeWrite(r)  PROVE Typed'
  BY <1>4, <1>5 DEF RevokeWrite, Ended
<1>6. ASSUME NEW r \in Request, AcceptExpires(r)  PROVE Typed'
  BY <1>4, <1>6 DEF AcceptExpires, Ended
<1>7. ASSUME NEW r \in Request, NEW i \in Invitation, AcceptRead(r, i)
      PROVE  Typed'
  <2> DEFINE state == [Idle EXCEPT !.pc = IF Due(i) THEN "expire" ELSE "accept",
                          !.invitation = i, !.event = invitation[i].event,
                          !.user = invitation[i].user, !.seen = role[invitation[i].user]]
  <2>1. /\ invitation[i].status = "PENDING" /\ invitation[i].event \in Event
        /\ invitation[i].user \in User
    BY <1>7 DEF AcceptRead, Typed, RowsMeanSomething
  <2>2. role[invitation[i].user] \in SUBSET Role  BY <2>1 DEF Typed, TypeOK
  <2>3. state \in RequestState  BY <2>1, <2>2 DEF Idle, RequestState
  <2>4. /\ state.pc \in {"expire", "accept"} /\ state.invitation = i
        /\ state.event = invitation[i].event /\ state.user = invitation[i].user
    BY DEF Idle
  <2>5. Go(r, state) /\ UNCHANGED <<now, invitation, role, staff, profile>>
    BY <1>7 DEF AcceptRead
  <2> HIDE DEF state
  <2>6. RequestsKnow' /\ request' \in [Request -> RequestState]
    BY <2>1, <2>3, <2>4, <2>5, KnowsMore DEF Typed, TypeOK
  <2> QED BY <2>5, <2>6 DEF Typed, TypeOK, RowsMeanSomething
<1>8. ASSUME NEW r \in Request, AcceptWrite(r)  PROVE Typed'
  <2> DEFINE i == request[r].invitation
             row == [Close(i, "ACCEPTED") EXCEPT !.accepted = "yes"]
  <2>1. /\ i \in Invitation /\ invitation[i].status # "ABSENT"
        /\ request[r].event = invitation[i].event /\ request[r].user = invitation[i].user
    BY <1>8 DEF AcceptWrite, Typed, RequestsKnow
  <2>2. invitation[i].event \in Event /\ invitation[i].user \in User
    BY <2>1 DEF Typed, RowsMeanSomething
  <2>3. /\ row \in InvitationRow /\ row.status # "ABSENT"
        /\ row.event = invitation[i].event /\ row.user = invitation[i].user
    BY <2>1, CloseFacts DEF Typed, Ended, InvitationRow
  <2>4. /\ invitation' = [invitation EXCEPT ![i] = row] /\ Finish(r)
        /\ role' = [role EXCEPT ![request[r].user] = AddRole(request[r].seen, "gate_staff")]
        /\ staff' = staff \cup {<<request[r].event, request[r].user>>}
        /\ UNCHANGED <<now, profile>>
    BY <1>8 DEF AcceptWrite, Staff
  <2> HIDE DEF i, row
  <2>5. RowsMeanSomething' /\ RequestsKnow' /\ invitation' \in [Invitation -> InvitationRow]
           /\ request' \in [Request -> RequestState]
    BY <2>1, <2>2, <2>3, <2>4, OneRow
  <2>6. request[r].seen \subseteq Role  BY DEF Typed, TypeOK, RequestState
  <2>7. role' \in [User -> SUBSET Role] /\ staff' \subseteq Event \X User
    BY <2>1, <2>2, <2>4, <2>6 DEF Typed, TypeOK, AddRole, Role
  <2> QED BY <2>4, <2>5, <2>7 DEF Typed, TypeOK
<1>9. ASSUME NEW r \in Request, Refuse(r)  PROVE Typed'
  <2>1. RequestsKnow' /\ request' \in [Request -> RequestState]
    BY <1>9, KnowsMore, IdleFacts DEF Refuse, Finish, Typed, TypeOK
  <2> QED BY <1>9, <2>1 DEF Refuse, Typed, TypeOK, RowsMeanSomething
<1>10. ASSUME NEW e \in Event, ListStaff(e)  PROVE Typed'
  BY <1>10, TypedAfterExpiry DEF ListStaff
<1>11. CASE Cleanup  BY <1>11, TypedAfterExpiry DEF Cleanup, Job
<1>12. ASSUME NEW u \in User, NEW c \in Cpf, SaveProfile(u, c)  PROVE Typed'
  BY <1>12 DEF SaveProfile, Typed, TypeOK, RowsMeanSomething, RequestsKnow
<1>13. ASSUME NEW u \in User, Activate(u)  PROVE Typed'
  BY <1>13 DEF Activate, AddRole, Role, Typed, TypeOK, RowsMeanSomething, RequestsKnow
<1>14. CASE Tick
  BY <1>14 DEF Tick, Typed, TypeOK, RowsMeanSomething, RequestsKnow
<1>15. CASE UNCHANGED vars
  BY <1>15 DEF vars, Typed, TypeOK, RowsMeanSomething, RequestsKnow
<1> QED BY <1>1, <1>2, <1>3, <1>5, <1>6, <1>7, <1>8, <1>9, <1>10, <1>11, <1>12, <1>13,
           <1>14, <1>15 DEF Next, Serve

\* Every reachable state is well typed, and what a request in flight has read of an
\* invitation is still whose it is (TypeOK; inviteStaff, revokeStaff, acceptStaff).
THEOREM AccountsTyped == Spec => [](TypeOK /\ RowsMeanSomething /\ RequestsKnow)
<1>1. Init => Typed
  BY AccountsAssumption, IdleFacts DEF Init, Typed, TypeOK, RowsMeanSomething, RequestsKnow, Absent,
     InvitationRow, Role, Ended
<1> QED BY <1>1, TypedStep, PTL DEF Spec, Typed

-----------------------------------------------------------------------------
(* One pending invitation *)

\* Every step but the insert leaves each row as it is, or ends it.
Ends(i) ==
  /\ invitation'[i].event = invitation[i].event
  /\ invitation'[i].user = invitation[i].user
  /\ invitation'[i].status \in Ended /\ invitation'[i].key = "null"

\* Only invite() writes a fresh invitation: any other step leaves a row or ends it.
LEMMA RowsEnd ==
  ASSUME Typed, [Next]_vars,
         ~\E r \in Request, i \in Invitation : InviteWrite(r, i)
  PROVE  \A i \in Invitation : invitation'[i] = invitation[i] \/ Ends(i)
<1>1. ASSUME NEW E, invitation' = Expired(E)
      PROVE  \A i \in Invitation : invitation'[i] = invitation[i] \/ Ends(i)
  BY <1>1, CloseFacts DEF Expired, Typed, Ends, Ended
<1>2. ASSUME NEW r \in Request, NEW end \in Ended, RevokeWrite(r) \/ AcceptExpires(r),
             invitation' = [invitation EXCEPT ![request[r].invitation] =
                              Close(request[r].invitation, end)]
      PROVE  \A i \in Invitation : invitation'[i] = invitation[i] \/ Ends(i)
  <2>1. request[r].invitation \in Invitation
    BY <1>2 DEF RevokeWrite, AcceptExpires, Typed, RequestsKnow
  <2> QED BY <1>2, <2>1, CloseFacts DEF Typed, TypeOK, Ends
<1>3. ASSUME NEW r \in Request, AcceptWrite(r)
      PROVE  \A i \in Invitation : invitation'[i] = invitation[i] \/ Ends(i)
  <2> DEFINE j == request[r].invitation
             row == [Close(j, "ACCEPTED") EXCEPT !.accepted = "yes"]
  <2>1. j \in Invitation /\ invitation' = [invitation EXCEPT ![j] = row]
    BY <1>3 DEF AcceptWrite, Typed, RequestsKnow
  <2>2. /\ row.event = invitation[j].event /\ row.user = invitation[j].user
        /\ row.status \in Ended /\ row.key = "null"
    BY <2>1, CloseFacts DEF Typed, Ended, InvitationRow
  <2> HIDE DEF j, row
  <2> QED BY <2>1, <2>2 DEF Typed, TypeOK, Ends
<1>4. CASE UNCHANGED invitation  BY <1>4
<1>5. ASSUME NEW r \in Request, Serve(r)
      PROVE  \A i \in Invitation : invitation'[i] = invitation[i] \/ Ends(i)
  <2>1. CASE \/ \E e \in Event, u \in User : InviteRead(r, e, u)
             \/ \E i \in Invitation : RevokeRead(r, i)
    BY <2>1, <1>1 DEF InviteRead, RevokeRead
  <2>2. CASE \E i \in Invitation : AcceptRead(r, i)
    BY <2>2, <1>4 DEF AcceptRead
  <2>3. CASE Refuse(r)  BY <2>3, <1>4 DEF Refuse
  <2>4. CASE RevokeWrite(r)  BY <2>4, <1>2 DEF RevokeWrite, Ended
  <2>5. CASE AcceptExpires(r)  BY <2>5, <1>2 DEF AcceptExpires, Ended
  <2>6. CASE AcceptWrite(r)  BY <2>6, <1>3
  <2> QED BY <1>5, <2>1, <2>2, <2>3, <2>4, <2>5, <2>6 DEF Serve
<1>6. ASSUME NEW e \in Event, ListStaff(e)
      PROVE  \A i \in Invitation : invitation'[i] = invitation[i] \/ Ends(i)
  BY <1>6, <1>1 DEF ListStaff
<1>7. CASE Cleanup  BY <1>7, <1>1 DEF Cleanup, Job
<1>8. CASE \/ \E u \in User, c \in Cpf : SaveProfile(u, c)
           \/ \E u \in User : Activate(u)
           \/ Tick \/ UNCHANGED vars
  BY <1>8, <1>4 DEF SaveProfile, Activate, Tick, vars
<1> QED BY <1>5, <1>6, <1>7, <1>8 DEF Next

\* The key is unique and set while the invitation is pending: induction on each write.
OneKey ==
  /\ \A i \in Invitation : invitation[i].key = "set" <=> invitation[i].status = "PENDING"
  /\ \A i, j \in Invitation :
       /\ invitation[i].key = "set" /\ invitation[j].key = "set"
       /\ invitation[i].event = invitation[j].event /\ invitation[i].user = invitation[j].user
       => i = j

\* No step gives two pending invitations of one event the same e-mail.
LEMMA OneKeyStep ==
  ASSUME Typed, OneKey, [Next]_vars
  PROVE  OneKey'
<1>1. CASE ~\E r \in Request, i \in Invitation : InviteWrite(r, i)
  BY <1>1, RowsEnd DEF OneKey, Ends, Ended
<1>2. ASSUME NEW r \in Request, NEW i \in Invitation, InviteWrite(r, i)
      PROVE  OneKey'
  <2>1. /\ \A j \in Invitation : j # i => invitation'[j] = invitation[j]
        /\ invitation'[i].key = "set" /\ invitation'[i].status = "PENDING"
        /\ invitation'[i].event = request[r].event /\ invitation'[i].user = request[r].user
    BY <1>2 DEF InviteWrite, Typed, TypeOK
  <2>2. \A j \in Invitation :
          ~(/\ invitation[j].key = "set" /\ invitation[j].event = request[r].event
            /\ invitation[j].user = request[r].user)
    BY <1>2 DEF InviteWrite, KeyTaken
  <2> QED BY <2>1, <2>2 DEF OneKey
<1> QED BY <1>1, <1>2

\* RN19 for any number of requests, people and events.
THEOREM OnlyOnePending == Spec => []OnePending
<1>1. Init => OneKey
  BY DEF Init, OneKey, Absent
<1>2. OneKey => OnePending
  BY DEF OneKey, OnePending
<1> QED BY <1>1, <1>2, OneKeyStep, AccountsTyped, PTL DEF Spec, Typed

-----------------------------------------------------------------------------
(* Assignments *)

\* The staff of the events stay those whose invitation was accepted.
LEMMA StaffStep ==
  ASSUME Typed, StaffIsAccepted, [Next]_vars
  PROVE  StaffIsAccepted'
<1>1. ASSUME \A i \in Invitation : /\ invitation'[i].event = invitation[i].event
                                   /\ invitation'[i].user = invitation[i].user
                                   /\ invitation'[i].accepted = invitation[i].accepted,
             UNCHANGED staff
      PROVE  StaffIsAccepted'
  BY <1>1 DEF StaffIsAccepted
<1>2. ASSUME NEW r \in Request, Serve(r)
      PROVE  StaffIsAccepted'
  <2>1. CASE \/ \E e \in Event, u \in User : InviteRead(r, e, u)
             \/ \E i \in Invitation : RevokeRead(r, i)
    BY <2>1, <1>1, ExpiredFacts DEF InviteRead, RevokeRead, Typed
  <2>2. CASE (\E i \in Invitation : AcceptRead(r, i)) \/ Refuse(r)
    BY <2>2 DEF AcceptRead, Refuse, StaffIsAccepted
  <2>3. ASSUME NEW i \in Invitation, InviteWrite(r, i)  PROVE StaffIsAccepted'
    <3>1. /\ \A j \in Invitation : j # i => invitation'[j] = invitation[j]
          /\ invitation'[i].accepted = "no" /\ invitation[i].accepted = "no"
      BY <2>3 DEF InviteWrite, Typed, TypeOK, RowsMeanSomething, Absent
    <3> QED BY <2>3, <3>1 DEF InviteWrite, StaffIsAccepted
  <2>4. CASE RevokeWrite(r) \/ AcceptExpires(r)
    <3>1. request[r].invitation \in Invitation
      BY <2>4 DEF RevokeWrite, AcceptExpires, Typed, RequestsKnow
    <3>2. \A end \in Ended : LET i == request[r].invitation IN
            /\ Close(i, end).event = invitation[i].event
            /\ Close(i, end).user = invitation[i].user
            /\ Close(i, end).accepted = invitation[i].accepted
      BY <3>1, CloseFacts DEF Typed
    <3> QED BY <2>4, <3>1, <3>2, <1>1 DEF RevokeWrite, AcceptExpires, Typed, TypeOK, Ended
  <2>5. CASE AcceptWrite(r)
    <3> DEFINE j == request[r].invitation
               row == [Close(j, "ACCEPTED") EXCEPT !.accepted = "yes"]
    <3>1. /\ j \in Invitation /\ invitation' = [invitation EXCEPT ![j] = row]
          /\ staff' = staff \cup {<<invitation[j].event, invitation[j].user>>}
      BY <2>5 DEF AcceptWrite, Staff, Typed, RequestsKnow
    <3>2. /\ row.event = invitation[j].event /\ row.user = invitation[j].user
          /\ row.accepted = "yes"
      BY <3>1, CloseFacts DEF Typed, Ended, InvitationRow
    <3> HIDE DEF j, row
    <3>3. /\ \A i \in Invitation : i # j => invitation'[i] = invitation[i]
          /\ invitation'[j].event = invitation[j].event
          /\ invitation'[j].user = invitation[j].user /\ invitation'[j].accepted = "yes"
      BY <3>1, <3>2 DEF Typed, TypeOK
    <3> QED BY <3>1, <3>3 DEF StaffIsAccepted
  <2> QED BY <1>2, <2>1, <2>2, <2>3, <2>4, <2>5 DEF Serve
<1>3. ASSUME NEW e \in Event, ListStaff(e)  PROVE StaffIsAccepted'
  BY <1>3, <1>1, ExpiredFacts DEF ListStaff, Typed
<1>4. CASE Cleanup  BY <1>4, <1>1, ExpiredFacts DEF Cleanup, Job, Typed
<1>5. CASE \/ \E u \in User, c \in Cpf : SaveProfile(u, c)
           \/ \E u \in User : Activate(u)
           \/ Tick \/ UNCHANGED vars
  BY <1>5 DEF SaveProfile, Activate, Tick, vars, StaffIsAccepted
<1> QED BY <1>2, <1>3, <1>4, <1>5 DEF Next

\* Gate assignments are exactly the acceptances, whatever closes an invitation late.
THEOREM StaffIsFromAcceptance == Spec => []StaffIsAccepted
<1>1. Init => StaffIsAccepted
  BY DEF Init, StaffIsAccepted, Absent
<1> QED BY <1>1, StaffStep, AccountsTyped, PTL DEF Spec, Typed

-----------------------------------------------------------------------------
(* Roles *)

\* What the roles R of a user may stand on.
Backed(u, R) ==
  /\ "customer" \in R
  /\ "gate_staff" \in R => \E e \in Event : <<e, u>> \in staff
  /\ "organizer" \in R => profile[u] # Null

\* The roles a session was read with are backed too.
RolesInv ==
  /\ RolesAreBacked
  /\ \A r \in Request : request[r].pc = "accept" => Backed(request[r].user, request[r].seen)

\* What backs a role is never taken away.
LEMMA StaysBacked ==
  ASSUME Typed, [Next]_vars, NEW u \in User, NEW R, Backed(u, R)
  PROVE  Backed(u, R)' 
<1>1. staff \subseteq staff'
  BY DEF Next, Serve, InviteRead, InviteWrite, ListStaff, RevokeRead, RevokeWrite, AcceptRead,
         AcceptExpires, AcceptWrite, Staff, Refuse, Cleanup, SaveProfile, Activate, Tick, vars
<1>2. CASE UNCHANGED profile  BY <1>1, <1>2 DEF Backed
<1>3. ASSUME NEW v \in User, NEW c \in Cpf, SaveProfile(v, c)
      PROVE  Backed(u, R)'
  <2>1. profile'[u] = profile[u] \/ profile'[u] # Null
    BY <1>3, AccountsAssumption DEF SaveProfile, Typed, TypeOK
  <2> QED BY <1>1, <2>1 DEF Backed
<1> QED BY <1>2, <1>3
        DEF Next, Serve, InviteRead, InviteWrite, ListStaff, RevokeRead, RevokeWrite, AcceptRead,
         AcceptExpires, AcceptWrite, Refuse, Cleanup, Activate, Tick, vars

\* The people of the requests that accept.
LEMMA Accepting ==
  ASSUME Typed, NEW r \in Request, request[r].pc = "accept"
  PROVE  request[r].user \in User /\ request[r].event \in Event
BY DEF Typed, RequestsKnow, RowsMeanSomething

\* No step leaves a role without the row that grants it.
LEMMA RolesStep ==
  ASSUME Typed, RolesInv, [Next]_vars
  PROVE  RolesInv'
<1>1. ASSUME NEW u \in User, "gate_staff" \notin role[u], UNCHANGED staff
      PROVE  ~\E e \in Event : <<e, u>> \in staff'
  BY <1>1 DEF RolesInv, RolesAreBacked
<1>2. \A u \in User : Backed(u, role[u])
  BY DEF RolesInv, RolesAreBacked, Backed
<1>3. ASSUME UNCHANGED <<role, staff>>  PROVE RolesAreBacked'
  <2>1. \A u \in User : Backed(u, role[u])'  BY <1>2, <1>3, StaysBacked DEF Backed
  <2> QED BY <1>1, <1>3, <2>1 DEF RolesInv, RolesAreBacked, Backed
<1>4. ASSUME \A r \in Request : request'[r].pc = "accept" => request'[r] = request[r]
      PROVE  \A r \in Request :
               request'[r].pc = "accept" => Backed(request[r].user, request[r].seen)'
  BY <1>4, Accepting, StaysBacked DEF RolesInv, Backed
<1>5. ASSUME NEW r \in Request, NEW state, Go(r, state), state.pc # "accept"
      PROVE  \A q \in Request : request'[q].pc = "accept" => request'[q] = request[q]
  BY <1>5 DEF Go, Typed, TypeOK
<1>6. ASSUME NEW r \in Request, Serve(r)  PROVE RolesInv'
  <2>1. CASE \/ \E e \in Event, u \in User : InviteRead(r, e, u)
             \/ \E i \in Invitation : InviteWrite(r, i) \/ RevokeRead(r, i)
             \/ RevokeWrite(r) \/ AcceptExpires(r) \/ Refuse(r)
    <3>1. UNCHANGED <<role, staff>>
      BY <2>1 DEF InviteRead, InviteWrite, RevokeRead, RevokeWrite, AcceptExpires, Refuse
    <3>2. \A q \in Request : request'[q].pc = "accept" => request'[q] = request[q]
      BY <2>1, <1>5 DEF InviteRead, InviteWrite, RevokeRead, RevokeWrite, AcceptExpires,
         Refuse, Finish, Idle
    <3> QED BY <3>1, <3>2, <1>3, <1>4 DEF RolesInv, Backed
  <2>2. ASSUME NEW i \in Invitation, AcceptRead(r, i)  PROVE RolesInv'
    <3>1. PICK u \in User : u = invitation[i].user
      BY <2>2 DEF AcceptRead, Typed, RowsMeanSomething
    <3>2. UNCHANGED <<role, staff, profile>>  BY <2>2 DEF AcceptRead
    <3>3. \A q \in Request \ {r} : request'[q] = request[q]
      BY <2>2 DEF AcceptRead, Go, Typed, TypeOK
    <3>4. request'[r].user = u /\ request'[r].seen = role[u]
      BY <2>2, <3>1 DEF AcceptRead, Go, Typed, TypeOK, Idle
    <3>5. Backed(u, role[u])'  BY <1>2, <3>1, <3>2 DEF Backed
    <3>6. ASSUME NEW q \in Request, request'[q].pc = "accept"
          PROVE  Backed(request[q].user, request[q].seen)'
      <4>1. CASE q = r  BY <4>1, <3>2, <3>4, <3>5 DEF Backed
      <4>2. CASE q # r  BY <4>2, <3>2, <3>3, <3>6 DEF RolesInv, Backed
      <4> QED BY <4>1, <4>2
    <3> QED BY <3>2, <3>6, <1>3 DEF RolesInv
  <2>3. CASE AcceptWrite(r)
    <3>0. PICK u \in User : u = request[r].user
      BY <2>3, Accepting DEF AcceptWrite
    <3>1. request[r].event \in Event /\ Backed(u, request[r].seen)
      BY <2>3, <3>0, Accepting DEF AcceptWrite, RolesInv
    <3>2. /\ staff' = staff \cup {<<request[r].event, u>>} /\ UNCHANGED profile
          /\ role'[u] = request[r].seen \cup {"gate_staff"}
          /\ \A v \in User \ {u} : role'[v] = role[v]
      BY <2>3, <3>0, <3>1 DEF AcceptWrite, Staff, AddRole, Typed, TypeOK
    <3>3. \A q \in Request : request'[q].pc = "accept" => request'[q] = request[q]
      BY <2>3, <1>5 DEF AcceptWrite, Finish, Idle
    <3>4. \A v \in User \ {u} : \A e \in Event : <<e, v>> \in staff' <=> <<e, v>> \in staff
      BY <3>2
    <3>5. ASSUME NEW v \in User
          PROVE  /\ "customer" \in role'[v]
                 /\ "gate_staff" \in role'[v] <=> \E e \in Event : <<e, v>> \in staff'
                 /\ "organizer" \in role'[v] => profile'[v] # Null
      <4>1. CASE v = u
        <5>1. "customer" \in role'[v] /\ ("organizer" \in role'[v] => profile'[v] # Null)
          BY <4>1, <3>1, <3>2 DEF Backed
        <5>2. "gate_staff" \in role'[v] /\ <<request[r].event, v>> \in staff'
          BY <4>1, <3>2
        <5> QED BY <5>1, <5>2, <3>1
      <4>2. CASE v # u  BY <4>2, <3>2, <3>4 DEF RolesInv, RolesAreBacked
      <4> QED BY <4>1, <4>2
    <3>6. RolesAreBacked'  BY <3>5 DEF RolesAreBacked
    <3> QED BY <3>3, <3>6, <1>4 DEF RolesInv, Backed
  <2> QED BY <1>6, <2>1, <2>2, <2>3 DEF Serve
<1>7. CASE \/ \E e \in Event : ListStaff(e)
           \/ Cleanup
           \/ \E u \in User, c \in Cpf : SaveProfile(u, c)
           \/ Tick \/ UNCHANGED vars
  <2>1. UNCHANGED <<role, staff, request>>
    BY <1>7 DEF ListStaff, Cleanup, SaveProfile, Tick, vars
  <2> QED BY <2>1, <1>3, <1>4 DEF RolesInv, Backed
<1>8. ASSUME NEW u \in User, Activate(u)  PROVE RolesInv'
  <2>1. /\ role'[u] = role[u] \cup {"organizer"} /\ UNCHANGED <<staff, profile, request>>
        /\ \A v \in User \ {u} : role'[v] = role[v]
        /\ profile[u] # Null
    BY <1>8 DEF Activate, MayActivate, AddRole, Typed, TypeOK
  <2>3. ASSUME NEW v \in User
        PROVE  /\ "customer" \in role'[v]
               /\ "gate_staff" \in role'[v] <=> \E e \in Event : <<e, v>> \in staff'
               /\ "organizer" \in role'[v] => profile'[v] # Null
    <3>1. CASE v = u  BY <3>1, <2>1 DEF RolesInv, RolesAreBacked
    <3>2. CASE v # u  BY <3>2, <2>1 DEF RolesInv, RolesAreBacked
    <3> QED BY <3>1, <3>2
  <2>2. RolesAreBacked'  BY <2>3 DEF RolesAreBacked
  <2> QED BY <2>1, <2>2, <1>4 DEF RolesInv, Backed
<1> QED BY <1>6, <1>7, <1>8 DEF Next

\* An old session writes no role that nothing stands for, and removes none but
\* organizer, and that only if it was read before the activation.
LEMMA RolesMove ==
  ASSUME Typed, RolesInv, [Next]_vars
  PROVE  \A u \in User : \A x \in role[u] \ role'[u] :
           /\ x = "organizer"
           /\ \E r \in Request : /\ request[r].pc = "accept" /\ request[r].user = u
                                 /\ x \notin request[r].seen
<1>1. CASE UNCHANGED role  BY <1>1
<1>2. ASSUME NEW v \in User, Activate(v)
      PROVE  \A u \in User : role[u] \subseteq role'[u]
  BY <1>2 DEF Activate, AddRole, Typed, TypeOK
<1>3. ASSUME NEW r \in Request, AcceptWrite(r), NEW u \in User, NEW x \in role[u] \ role'[u]
      PROVE  /\ x = "organizer"
             /\ request[r].pc = "accept" /\ request[r].user = u /\ x \notin request[r].seen
  <2>1. /\ request[r].pc = "accept" /\ request[r].user \in User
        /\ "customer" \in request[r].seen
    BY <1>3, Accepting DEF AcceptWrite, RolesInv, Backed
  <2>2. role' = [role EXCEPT ![request[r].user] = request[r].seen \cup {"gate_staff"}]
    BY <1>3 DEF AcceptWrite, AddRole
  <2>3. request[r].user = u /\ x \notin request[r].seen /\ x # "gate_staff"
    BY <1>3, <2>1, <2>2 DEF Typed, TypeOK
  <2>4. x \in Role  BY <1>3 DEF Typed, TypeOK
  <2> QED BY <2>1, <2>3, <2>4 DEF Role
<1>4. CASE ~(\E v \in User : Activate(v)) /\ ~\E r \in Request : AcceptWrite(r)
  BY <1>4, <1>1 DEF Next, Serve, InviteRead, InviteWrite, ListStaff, RevokeRead, RevokeWrite, AcceptRead,
         AcceptExpires, Refuse, Cleanup, SaveProfile, Tick, vars
<1> QED BY <1>1, <1>2, <1>3, <1>4

\* Whatever overlaps, gate staff keep an accepted assignment of theirs and the
\* organisers a profile: no role outlives, or precedes, what it stands for.
THEOREM RolesStandOnTables == Spec => []RolesAreBacked
<1>1. Init => RolesInv
  BY DEF Init, RolesInv, RolesAreBacked, Idle
<1>2. Typed /\ RolesInv /\ [Next]_vars => RolesInv'
  BY RolesStep
<1>3. RolesInv => RolesAreBacked  BY DEF RolesInv
<1> QED BY <1>1, <1>2, <1>3, AccountsTyped, PTL DEF Spec, Typed

\* Only an acceptance that overlaps an activation takes a role away: the one
\* the acceptance had read before the activation committed.
THEOREM RolesAreKept == Spec => RolesKept
<1>1. Init => RolesInv
  BY DEF Init, RolesInv, RolesAreBacked, Idle
<1>2. Typed /\ RolesInv /\ [Next]_vars =>
        RolesInv' /\ [\A u \in User : \A x \in role[u] \ role'[u] :
                        /\ x = "organizer"
                        /\ \E r \in Request : /\ request[r].pc = "accept" /\ request[r].user = u
                                              /\ x \notin request[r].seen]_vars
  BY RolesStep, RolesMove
<1> QED BY <1>1, <1>2, AccountsTyped, PTL DEF Spec, Typed, RolesKept
=============================================================================
