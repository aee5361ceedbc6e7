--------------------------- MODULE InvitationsProofs ---------------------------
(***************************************************************************)
(* What holds of the invitations to an address however its handlers        *)
(* interleave: the types, the three invariants and the two action          *)
(* properties of Invitations, for any number of vaults, invitations, links *)
(* and requests.                                                           *)
(***************************************************************************)
EXTENDS Invitations, TLAPS

RequestType == [kind : Kinds, vault : Vaults, todo : SUBSET Invites,
                links : SUBSET Links, registering : BOOLEAN]

LEMMA IdleTyped == Idle \in RequestType
  BY AnyoneAssumption DEF Idle, RequestType, Kinds

LEMMA InitTyped == Init => TypeOK
  BY IdleTyped, AnyoneAssumption DEF Init, TypeOK, RequestType, LinkStates, InviteStates, SeatStates

(* A handler that begins is typed when what it has read is. *)
LEMMA BeginTyped ==
    ASSUME TypeOK, NEW r \in Requests, NEW kind \in Kinds, NEW reads \in RequestType,
           Begin(r, kind, reads)
    PROVE  /\ request' \in [Requests -> RequestType]
           /\ request' = [request EXCEPT ![r] = [reads EXCEPT !.kind = kind]]
  BY DEF TypeOK, Begin, RequestType

LEMMA FinishTyped ==
    ASSUME TypeOK, NEW r \in Requests, Finish(r)
    PROVE  request' \in [Requests -> RequestType] /\ late' \subseteq Requests
  BY IdleTyped DEF TypeOK, Finish, RequestType

(* A handler that goes on to its next statement, and one that has written   *)
(* one invitation of those it read.                                         *)
LEMMA KindTyped ==
    ASSUME request \in [Requests -> RequestType], NEW r \in Requests, NEW k \in Kinds
    PROVE  [request EXCEPT ![r].kind = k] \in [Requests -> RequestType]
  BY DEF RequestType

LEMMA TodoTyped ==
    ASSUME request \in [Requests -> RequestType], NEW r \in Requests, NEW i
    PROVE  [request EXCEPT ![r].todo = @ \ {i}] \in [Requests -> RequestType]
  BY DEF RequestType

LEMMA WriteTyped ==
    ASSUME TypeOK, NEW i \in Invites, NEW s \in InviteStates, WriteState(i, s)
    PROVE  invite' \in [Invites -> [state : InviteStates, vault : Vaults]]
  BY DEF TypeOK, WriteState

LEMMA ArriveTyped ==
    ASSUME TypeOK, NEW r \in Requests, Arrive(r)
    PROVE  TypeOK'
  <1>k. {"invite", "seat", "drop", "verify", "complete", "withdraw", "sweep"} \subseteq Kinds
    BY DEF Kinds
  <1>v. \A v \in Vaults : [Idle EXCEPT !.vault = v] \in RequestType
    BY IdleTyped DEF RequestType
  <1>t. \A todo \in SUBSET Invites : [Idle EXCEPT !.todo = todo] \in RequestType
    BY IdleTyped DEF RequestType
  <1>l. \A l \in Links : [Idle EXCEPT !.links = {l}] \in RequestType
    BY IdleTyped DEF RequestType
  <1>g. [Idle EXCEPT !.registering = TRUE] \in RequestType
    BY IdleTyped DEF RequestType
  <1>1. request' \in [Requests -> RequestType]
    <2>1. CASE InviteRead(r)
      BY <2>1, <1>k, <1>v, BeginTyped DEF InviteRead
    <2>2. CASE SeatRead(r)
      BY <2>2, <1>k, <1>v, BeginTyped DEF SeatRead
    <2>3. CASE Register(r)
      BY <2>3, <1>k, <1>g, BeginTyped DEF Register
    <2>4. CASE Resend(r)
      BY <2>4, <1>k, IdleTyped, BeginTyped DEF Resend
    <2>5. CASE VerifyRead(r)
      BY <2>5, <1>k, <1>l, BeginTyped DEF VerifyRead
    <2>6. CASE CompleteRead(r)
      <3> PICK i \in Invites : Begin(r, "complete", [Idle EXCEPT !.todo = {i}])
        BY <2>6 DEF CompleteRead
      <3> {i} \in SUBSET Invites
        OBVIOUS
      <3> QED
        BY <1>k, <1>t, BeginTyped
    <2>7. CASE WithdrawRead(r)
      <3> PICK i \in Invites : Begin(r, "withdraw", [Idle EXCEPT !.todo = {i}])
        BY <2>7 DEF WithdrawRead
      <3> {i} \in SUBSET Invites
        OBVIOUS
      <3> QED
        BY <1>k, <1>t, BeginTyped
    <2>8. CASE SweepRead(r)
      <3> {i \in overdue : Live(i)} \in SUBSET Invites
        BY DEF TypeOK
      <3> QED
        BY <2>8, <1>k, <1>t, BeginTyped DEF SweepRead
    <2> QED
      BY <2>1, <2>2, <2>3, <2>4, <2>5, <2>6, <2>7, <2>8 DEF Arrive
  <1>2. account' \in {"none", "unverified", "verified"}
    BY DEF TypeOK, Arrive, InviteRead, SeatRead, Register, Resend, VerifyRead,
           CompleteRead, WithdrawRead, SweepRead
  <1>3. UNCHANGED <<link, invite, overdue, seat, late>>
    BY DEF Arrive, InviteRead, SeatRead, Register, Resend, VerifyRead,
           CompleteRead, WithdrawRead, SweepRead
  <1> QED
    BY <1>1, <1>2, <1>3 DEF TypeOK, RequestType

LEMMA HandleTyped ==
    ASSUME TypeOK, NEW r \in Requests, Handle(r)
    PROVE  TypeOK'
  <1>q. request \in [Requests -> RequestType] /\ late \subseteq Requests
    BY DEF TypeOK, RequestType
  <1>s. \A R \in SUBSET Requests : (late \cup R) \ {r} \subseteq Requests
    BY <1>q
  <1>h. \A i \in Invites : Holding(i) \subseteq Requests
    BY DEF Holding
  <1>1. CASE InviteCommit(r)
    BY <1>1, FinishTyped DEF InviteCommit, TypeOK, RequestType, InviteStates
  <1>2. CASE SeatCommit(r)
    BY <1>2, FinishTyped DEF SeatCommit, TypeOK, RequestType, SeatStates
  <1>3. CASE DropLinks(r)
    <2>1. request' \in [Requests -> RequestType]
      BY <1>3, <1>q, KindTyped DEF DropLinks, Kinds
    <2>2. link' \in [Links -> LinkStates]
      BY <1>3 DEF DropLinks, TypeOK, LinkStates
    <2> QED
      BY <1>3, <2>1, <2>2 DEF DropLinks, TypeOK, RequestType
  <1>4. CASE CreateLink(r)
    <2>1. link' \in [Links -> LinkStates]
      BY <1>4 DEF CreateLink, TypeOK, LinkStates
    <2>2. request' \in [Requests -> RequestType]
      BY <1>4, IdleTyped DEF CreateLink, TypeOK, RequestType, Kinds
    <2> QED
      BY <1>4, <2>1, <2>2 DEF CreateLink, TypeOK, RequestType
  <1>5. CASE SkipLink(r)
    <2>1. request' \in [Requests -> RequestType]
      BY <1>5, <1>q, KindTyped DEF SkipLink, Kinds
    <2> QED
      BY <1>5, <2>1 DEF SkipLink, TypeOK, RequestType
  <1>6. CASE ListWaiting(r)
    <2> DEFINE waiting == {i \in Invites : invite[i].state = "pending"}
    <2>1. request' = [request EXCEPT ![r] = [@ EXCEPT !.kind = "promote", !.todo = waiting]]
      BY <1>6 DEF ListWaiting
    <2>2. waiting \in SUBSET Invites
      OBVIOUS
    <2>3. request' \in [Requests -> RequestType]
      <3> HIDE DEF waiting
      <3>1. [request[r] EXCEPT !.kind = "promote", !.todo = waiting] \in RequestType
        BY <1>q, <2>2 DEF RequestType, Kinds
      <3> QED
        BY <1>q, <2>1, <3>1
    <2> QED
      BY <1>6, <2>3 DEF ListWaiting, TypeOK, RequestType
  <1>7. CASE Promote(r)
    <2> PICK i \in request[r].todo :
          /\ WriteState(i, "ready")
          /\ request' = [request EXCEPT ![r].todo = @ \ {i}]
      BY <1>7 DEF Promote
    <2>1. invite' \in [Invites -> [state : InviteStates, vault : Vaults]]
      BY WriteTyped DEF TypeOK, InviteStates
    <2>2. request' \in [Requests -> RequestType]
      BY <1>q, TodoTyped
    <2> QED
      BY <1>7, <2>1, <2>2 DEF Promote, TypeOK, RequestType
  <1>8. CASE AllWritten(r)
    BY <1>8, FinishTyped DEF AllWritten, TypeOK, RequestType
  <1>9. CASE VerifyCommit(r)
    BY <1>9, FinishTyped DEF VerifyCommit, TypeOK, RequestType, LinkStates
  <1>10. CASE CompleteCommit(r)
    <2> PICK i \in request[r].todo :
          /\ seat' = [seat EXCEPT ![invite[i].vault] = "invited"]
          /\ WriteState(i, "completed")
          /\ request' = [request EXCEPT ![r] = Idle]
          /\ late' = (late \cup Holding(i)) \ {r}
      BY <1>10 DEF CompleteCommit
    <2>1. i \in Invites
      BY DEF TypeOK
    <2>2. invite' \in [Invites -> [state : InviteStates, vault : Vaults]]
      BY <2>1, WriteTyped DEF InviteStates
    <2>3. late' \subseteq Requests
      BY <2>1, <1>s, <1>h
    <2>4. request' \in [Requests -> RequestType]
      BY IdleTyped DEF TypeOK, RequestType
    <2>5. seat' \in [Vaults -> SeatStates]
      BY DEF TypeOK, SeatStates
    <2> QED
      BY <1>10, <2>2, <2>3, <2>4, <2>5 DEF CompleteCommit, TypeOK, RequestType
  <1>11. CASE WithdrawCommit(r)
    <2> PICK i \in request[r].todo :
          /\ WriteState(i, "withdrawn")
          /\ request' = [request EXCEPT ![r] = Idle]
          /\ late' = (late \cup Holding(i)) \ {r}
      BY <1>11 DEF WithdrawCommit
    <2>1. i \in Invites
      BY DEF TypeOK
    <2>2. invite' \in [Invites -> [state : InviteStates, vault : Vaults]]
      BY <2>1, WriteTyped DEF InviteStates
    <2>3. late' \subseteq Requests
      BY <2>1, <1>s, <1>h
    <2>4. request' \in [Requests -> RequestType]
      BY IdleTyped DEF TypeOK, RequestType
    <2> QED
      BY <1>11, <2>2, <2>3, <2>4 DEF WithdrawCommit, TypeOK, RequestType
  <1>12. CASE SweepOne(r)
    <2> PICK i \in request[r].todo :
          /\ WriteState(i, "expired")
          /\ request' = [request EXCEPT ![r].todo = @ \ {i}]
          /\ late' = late \cup (Holding(i) \ {r})
      BY <1>12 DEF SweepOne
    <2>1. i \in Invites
      BY DEF TypeOK
    <2>2. invite' \in [Invites -> [state : InviteStates, vault : Vaults]]
      BY <2>1, WriteTyped DEF InviteStates
    <2>3. late' \subseteq Requests
      BY <2>1, <1>h, <1>q
    <2>4. request' \in [Requests -> RequestType]
      BY <1>q, TodoTyped
    <2> QED
      BY <1>12, <2>2, <2>3, <2>4 DEF SweepOne, TypeOK, RequestType
  <1> QED
    BY <1>1, <1>2, <1>3, <1>4, <1>5, <1>6, <1>7, <1>8, <1>9, <1>10, <1>11, <1>12 DEF Handle

LEMMA MoveSeatTyped ==
    ASSUME TypeOK, NEW from, NEW to \in SeatStates, MoveSeat(from, to)
    PROVE  TypeOK'
  BY DEF MoveSeat, TypeOK

LEMMA StepTyped == TypeOK /\ [Next]_vars => TypeOK'
  <1> SUFFICES ASSUME TypeOK, [Next]_vars PROVE TypeOK'
    OBVIOUS
  <1>1. CASE \E r \in Requests : Handle(r) \/ Arrive(r)
    BY <1>1, HandleTyped, ArriveTyped
  <1>2. CASE \E r \in Requests : Fail(r)
    BY <1>2, FinishTyped DEF Fail, TypeOK, RequestType
  <1>3. CASE InviteFallsDue
    BY <1>3 DEF InviteFallsDue, TypeOK
  <1>4. CASE LinkExpires
    BY <1>4 DEF LinkExpires, TypeOK, LinkStates
  <1>5. CASE Accept \/ Decline \/ Revoke
    BY <1>5, MoveSeatTyped DEF Accept, Decline, Revoke, SeatStates
  <1>6. CASE UNCHANGED vars
    BY <1>6 DEF vars, TypeOK
  <1> QED
    BY <1>1, <1>2, <1>3, <1>4, <1>5, <1>6 DEF Next, NextUnfailing

(* Every variable keeps its type, in every instance. *)
THEOREM TypeCorrect == Spec => []TypeOK
  BY InitTyped, StepTyped, PTL DEF Spec

-----------------------------------------------------------------------------
(* The invariant *)

(* Links are issued to accounts. *)
LinksNeedAnAccount == \A l \in Links : link[l] # "unborn" => account # "none"

(* What a handler in flight has seen of the account: accounts do not go     *)
(* back, so it is still so when the handler writes.                         *)
ReadersKnowTheAccount ==
    \A r \in Requests :
        /\ request[r].kind \in {"seat", "complete"} => account = "verified"
        /\ request[r].kind \in {"drop", "create", "list", "promote"} => account # "none"
        /\ \A l \in request[r].links : link[l] # "unborn"

(* Whoever holds a decided invitation is late, and nobody holds one that    *)
(* was never written.                                                       *)
HoldersOfDecidedAreLate ==
    \A r \in Requests : \A i \in request[r].todo :
        /\ Decided(i) => r \in late
        /\ invite[i].state # "unborn"

IInv ==
    /\ TypeOK
    /\ SharedOnlyWithVerified
    /\ ReadyMeansRegistered
    /\ AtMostOneLive
    /\ LinksNeedAnAccount
    /\ ReadersKnowTheAccount
    /\ HoldersOfDecidedAreLate

LEMMA InitIInv == Init => IInv
  BY InitTyped DEF Init, IInv, SharedOnlyWithVerified, ReadyMeansRegistered, AtMostOneLive,
     LiveFor, Live, LinksNeedAnAccount, ReadersKnowTheAccount, HoldersOfDecidedAreLate, Idle

(* Accounts and links do not go back. *)
LEMMA NothingGoesBack ==
    ASSUME IInv, Next
    PROVE  /\ account # "none" => account' # "none"
           /\ account = "verified" => account' = "verified"
           /\ \A l \in Links : link[l] # "unborn" => link'[l] # "unborn"
  BY DEF IInv, TypeOK, Next, NextUnfailing, Handle, Arrive, InviteCommit, SeatCommit, DropLinks,
     CreateLink, SkipLink, ListWaiting, Promote, AllWritten, VerifyCommit, CompleteCommit,
     WithdrawCommit, SweepOne, InviteRead, SeatRead, Register, Resend, VerifyRead, CompleteRead,
     WithdrawRead, SweepRead, Fail, InviteFallsDue, LinkExpires, Accept, Decline, Revoke, MoveSeat

LEMMA LinksKeep ==
    ASSUME IInv, Next
    PROVE  LinksNeedAnAccount'
  <1>1. CASE \E r \in Requests : CreateLink(r)
    BY <1>1 DEF CreateLink, IInv, LinksNeedAnAccount, ReadersKnowTheAccount
  <1>2. CASE \E r \in Requests : VerifyCommit(r)
    BY <1>2 DEF VerifyCommit, LinksNeedAnAccount
  <1>3. CASE ~(\E r \in Requests : CreateLink(r) \/ VerifyCommit(r))
    <2>1. \A l \in Links : link'[l] # "unborn" => link[l] # "unborn"
      BY <1>3 DEF IInv, TypeOK, Next, NextUnfailing, Handle, Arrive, InviteCommit, SeatCommit,
         DropLinks, SkipLink, ListWaiting, Promote, AllWritten, CompleteCommit, WithdrawCommit,
         SweepOne, InviteRead, SeatRead, Register, Resend, VerifyRead, CompleteRead, WithdrawRead,
         SweepRead, Fail, InviteFallsDue, LinkExpires, Accept, Decline, Revoke, MoveSeat
    <2> QED
      BY <2>1, NothingGoesBack DEF IInv, LinksNeedAnAccount
  <1> QED
    BY <1>1, <1>2, <1>3

(* A membership row is created by a handler that was served the key.        *)
LEMMA SeatsKeep ==
    ASSUME IInv, Next
    PROVE  SharedOnlyWithVerified'
  <1>1. CASE \E r \in Requests : SeatCommit(r) \/ CompleteCommit(r)
    BY <1>1 DEF SeatCommit, CompleteCommit, IInv, ReadersKnowTheAccount, SharedOnlyWithVerified
  <1>2. CASE ~(\E r \in Requests : SeatCommit(r) \/ CompleteCommit(r))
    <2>1. \A v \in Vaults : seat'[v] # "none" => seat[v] # "none"
      BY <1>2 DEF IInv, TypeOK, Next, NextUnfailing, Handle, Arrive, InviteCommit, DropLinks,
         CreateLink, SkipLink, ListWaiting, Promote, AllWritten, VerifyCommit, WithdrawCommit,
         SweepOne, InviteRead, SeatRead, Register, Resend, VerifyRead, CompleteRead, WithdrawRead,
         SweepRead, Fail, InviteFallsDue, LinkExpires, Accept, Decline, Revoke, MoveSeat
    <2> QED
      BY <2>1, NothingGoesBack DEF IInv, SharedOnlyWithVerified
  <1> QED
    BY <1>1, <1>2

(* The steps that write an invitation, and what they write.                 *)
LEMMA InvitesWritten ==
    ASSUME IInv, Next
    PROVE  \/ UNCHANGED invite
           \/ \E r \in Requests, i \in Invites :
                /\ request[r].kind = "invite"
                /\ invite[i].state = "unborn"
                /\ LiveFor(request[r].vault) = {}
                /\ invite' = [invite EXCEPT ![i] = [state |-> "pending",
                                                    vault |-> request[r].vault]]
           \/ \E r \in Requests : \E i \in request[r].todo, s \in InviteStates :
                /\ WriteState(i, s)
                /\ s = "ready" => request[r].kind = "promote"
                /\ s = "completed" => request[r].kind = "complete"
                /\ s \in {"ready", "completed", "withdrawn", "expired"}
  <1>1. CASE \E r \in Requests : InviteCommit(r)
    BY <1>1 DEF InviteCommit
  <1>2. CASE \E r \in Requests : Promote(r)
    BY <1>2 DEF Promote, InviteStates
  <1>3. CASE \E r \in Requests : CompleteCommit(r)
    BY <1>3 DEF CompleteCommit, InviteStates
  <1>4. CASE \E r \in Requests : WithdrawCommit(r)
    BY <1>4 DEF WithdrawCommit, InviteStates
  <1>5. CASE \E r \in Requests : SweepOne(r)
    BY <1>5 DEF SweepOne, InviteStates
  <1>6. CASE ~(\E r \in Requests : \/ InviteCommit(r) \/ Promote(r) \/ CompleteCommit(r)
                                   \/ WithdrawCommit(r) \/ SweepOne(r))
    BY <1>6 DEF Next, NextUnfailing, Handle, Arrive, SeatCommit, DropLinks, CreateLink, SkipLink,
       ListWaiting, AllWritten, VerifyCommit, InviteRead, SeatRead, Register, Resend, VerifyRead,
       CompleteRead, WithdrawRead, SweepRead, Fail, InviteFallsDue, LinkExpires, Accept, Decline,
       Revoke, MoveSeat
  <1> QED
    BY <1>1, <1>2, <1>3, <1>4, <1>5, <1>6

LEMMA InvitesKeep ==
    ASSUME IInv, Next
    PROVE  ReadyMeansRegistered' /\ AtMostOneLive'
  <1>t. TypeOK
    BY DEF IInv
  <1>1. CASE UNCHANGED invite
    BY <1>1, NothingGoesBack DEF IInv, ReadyMeansRegistered, AtMostOneLive, LiveFor, Live
  <1>2. ASSUME NEW v \in Vaults, NEW i \in Invites, LiveFor(v) = {},
               invite' = [invite EXCEPT ![i] = [state |-> "pending", vault |-> v]]
        PROVE  ReadyMeansRegistered' /\ AtMostOneLive'
    <2>1. \A j \in Invites : invite'[j].state \in {"ready", "completed"} => invite'[j] = invite[j]
      BY <1>2, <1>t DEF TypeOK
    <2>2. /\ LiveFor(v)' \subseteq {i}
          /\ \A w \in Vaults \ {v} : LiveFor(w)' \subseteq LiveFor(w)
      BY <1>2, <1>t DEF TypeOK, LiveFor, Live
    <2> QED
      BY <2>1, <2>2, NothingGoesBack DEF IInv, ReadyMeansRegistered, AtMostOneLive
  <1>3. ASSUME NEW r \in Requests, NEW i \in request[r].todo, NEW s \in InviteStates,
               WriteState(i, s),
               s = "ready" => request[r].kind = "promote",
               s = "completed" => request[r].kind = "complete",
               s \in {"ready", "completed", "withdrawn", "expired"}
        PROVE  ReadyMeansRegistered' /\ AtMostOneLive'
    <2>0. i \in Invites
      BY <1>t DEF TypeOK
    <2>1. /\ \A j \in Invites \ {i} : invite'[j] = invite[j]
          /\ invite'[i].state = s /\ invite'[i].vault = invite[i].vault
          /\ invite[i].vault \in Vaults
      BY <1>3, <1>t, <2>0 DEF TypeOK, WriteState
    <2>2. s \in {"ready", "completed"} => account' # "none"
      BY <1>3, NothingGoesBack DEF IInv, ReadersKnowTheAccount
    <2>3. ReadyMeansRegistered'
      BY <2>1, <2>2, NothingGoesBack DEF IInv, ReadyMeansRegistered
    <2>4. CASE s = "ready"
      <3>1. LiveFor(invite[i].vault) \subseteq {i}
        BY <1>3, <2>4 DEF WriteState
      <3>2. \A w \in Vaults : LiveFor(w)' \subseteq LiveFor(w) \cup {i}
        BY <2>1 DEF LiveFor, Live
      <3>3. \A w \in Vaults \ {invite[i].vault} : LiveFor(w)' \subseteq LiveFor(w)
        BY <2>1 DEF LiveFor, Live
      <3> QED
        BY <2>3, <3>1, <3>2, <3>3 DEF IInv, AtMostOneLive
    <2>5. CASE s # "ready"
      <3>1. \A w \in Vaults : LiveFor(w)' \subseteq LiveFor(w)
        BY <1>3, <2>1, <2>5 DEF LiveFor, Live
      <3> QED
        BY <2>3, <3>1 DEF IInv, AtMostOneLive
    <2> QED
      BY <2>4, <2>5
  <1> QED
    BY <1>1, <1>2, <1>3, <1>t, InvitesWritten DEF TypeOK

(* What the request of a step becomes: it begins, goes on, or ends.         *)
LEMMA RequestsMove ==
    ASSUME IInv, Next, NEW q \in Requests, request'[q] # Idle
    PROVE  \/ /\ request[q] = Idle
              /\ request'[q].kind \in {"seat", "complete"} => account = "verified"
              /\ request'[q].kind \in {"drop", "create", "list", "promote"} => account' # "none"
              /\ \A l \in request'[q].links : link[l] # "unborn"
              /\ \A i \in request'[q].todo : Live(i)
              /\ UNCHANGED <<invite, late>>
           \/ /\ request[q].kind \in {"drop", "create", "list"}
              /\ request'[q].kind \in {"create", "list", "promote"}
              /\ request'[q].links = request[q].links
              /\ \A i \in request'[q].todo : i \in request[q].todo \/ Live(i)
              /\ UNCHANGED <<invite, late>>
           \/ /\ request'[q].kind = request[q].kind
              /\ request'[q].links = request[q].links
              /\ request'[q].todo \subseteq request[q].todo
  <1>t. TypeOK
    BY DEF IInv
  <1> USE DEF Begin, Finish
  <1>1. ASSUME NEW r \in Requests, Arrive(r)
        PROVE  r = q \/ request'[q] = request[q]
    BY <1>1, <1>t DEF TypeOK, Arrive, InviteRead, SeatRead, Register, Resend, VerifyRead,
       CompleteRead, WithdrawRead, SweepRead
  <1>2. CASE Arrive(q)
    <2>1. request[q] = Idle /\ UNCHANGED <<invite, late>>
      BY <1>2 DEF Arrive, InviteRead, SeatRead, Register, Resend, VerifyRead,
         CompleteRead, WithdrawRead, SweepRead
    <2>2. CASE InviteRead(q)
      BY <2>1, <2>2, <1>t DEF InviteRead, TypeOK, Idle
    <2>3. CASE SeatRead(q)
      BY <2>1, <2>3, <1>t DEF SeatRead, TypeOK, Idle, KeyServed
    <2>4. CASE Register(q)
      BY <2>1, <2>4, <1>t DEF Register, TypeOK, Idle
    <2>5. CASE Resend(q)
      BY <2>1, <2>5, <1>t DEF Resend, TypeOK, Idle
    <2>6. CASE VerifyRead(q)
      BY <2>1, <2>6, <1>t DEF VerifyRead, TypeOK, Idle
    <2>7. CASE CompleteRead(q)
      BY <2>1, <2>7, <1>t DEF CompleteRead, TypeOK, Idle, KeyServed, Live
    <2>8. CASE WithdrawRead(q)
      BY <2>1, <2>8, <1>t DEF WithdrawRead, TypeOK, Idle
    <2>9. CASE SweepRead(q)
      BY <2>1, <2>9, <1>t DEF SweepRead, TypeOK, Idle
    <2> QED
      BY <1>2, <2>2, <2>3, <2>4, <2>5, <2>6, <2>7, <2>8, <2>9 DEF Arrive
  <1>3. ASSUME NEW r \in Requests, r # q, Handle(r) \/ Fail(r)
        PROVE  request'[q] = request[q]
    BY <1>3, <1>t DEF TypeOK, Handle, Fail, InviteCommit, SeatCommit, DropLinks, CreateLink,
       SkipLink, ListWaiting, Promote, AllWritten, VerifyCommit, CompleteCommit, WithdrawCommit,
       SweepOne
  <1>4. CASE Handle(q) \/ Fail(q)
    <2>1. CASE \/ InviteCommit(q) \/ SeatCommit(q) \/ AllWritten(q) \/ VerifyCommit(q)
               \/ CompleteCommit(q) \/ WithdrawCommit(q) \/ Fail(q)
      BY <2>1, <1>t DEF TypeOK, InviteCommit, SeatCommit, AllWritten, VerifyCommit,
         CompleteCommit, WithdrawCommit, Fail
    <2>2. CASE DropLinks(q)
      BY <2>2, <1>t DEF TypeOK, DropLinks
    <2>3. CASE CreateLink(q)
      BY <2>3, <1>t DEF TypeOK, CreateLink
    <2>4. CASE SkipLink(q)
      BY <2>4, <1>t DEF TypeOK, SkipLink
    <2>5. CASE ListWaiting(q)
      BY <2>5, <1>t DEF TypeOK, ListWaiting, Live
    <2>6. CASE Promote(q)
      BY <2>6, <1>t DEF TypeOK, Promote
    <2>7. CASE SweepOne(q)
      BY <2>7, <1>t DEF TypeOK, SweepOne
    <2> QED
      BY <1>4, <2>1, <2>2, <2>3, <2>4, <2>5, <2>6, <2>7 DEF Handle
  <1>5. CASE InviteFallsDue \/ LinkExpires \/ Accept \/ Decline \/ Revoke
    BY <1>5 DEF InviteFallsDue, LinkExpires, Accept, Decline, Revoke, MoveSeat
  <1> QED
    BY <1>1, <1>2, <1>3, <1>4, <1>5 DEF Next, NextUnfailing

LEMMA ReadersKeep ==
    ASSUME IInv, Next
    PROVE  ReadersKnowTheAccount'
  <1> SUFFICES ASSUME NEW q \in Requests
               PROVE  /\ request'[q].kind \in {"seat", "complete"} => account' = "verified"
                      /\ request'[q].kind \in {"drop", "create", "list", "promote"}
                            => account' # "none"
                      /\ \A l \in request'[q].links : link'[l] # "unborn"
    BY DEF ReadersKnowTheAccount
  <1>1. CASE request'[q] = Idle
    BY <1>1 DEF Idle
  <1>2. CASE request'[q] # Idle
    <2>1. request'[q].links \subseteq Links
      BY StepTyped DEF IInv, TypeOK
    <2> QED
      BY <1>2, <2>1, RequestsMove, NothingGoesBack DEF IInv, ReadersKnowTheAccount
  <1> QED
    BY <1>1, <1>2

(* Nobody stops being late, except by ending.                               *)
LEMMA LateStays ==
    ASSUME IInv, Next, NEW q \in Requests, q \in late, request'[q] # Idle
    PROVE  q \in late'
  BY DEF IInv, TypeOK, Next, NextUnfailing, Handle, Arrive, InviteCommit, SeatCommit, DropLinks,
     CreateLink, SkipLink, ListWaiting, Promote, AllWritten, VerifyCommit, CompleteCommit,
     WithdrawCommit, SweepOne, InviteRead, SeatRead, Register, Resend, VerifyRead, CompleteRead,
     WithdrawRead, SweepRead, Fail, InviteFallsDue, LinkExpires, Accept, Decline, Revoke, MoveSeat,
     Finish

(* Whoever goes on holding an invitation that is being decided becomes late.*)
LEMMA HoldersBecomeLate ==
    ASSUME IInv, Next, NEW q \in Requests, NEW i \in request[q].todo \cap request'[q].todo,
           ~Decided(i), Decided(i)'
    PROVE  q \in late'
  <1>t. TypeOK /\ i \in Invites
    BY DEF IInv, TypeOK
  <1>1. CASE \E r \in Requests : CompleteCommit(r)
    BY <1>1, <1>t DEF CompleteCommit, WriteState, Holding, TypeOK, Decided, Idle
  <1>2. CASE \E r \in Requests : WithdrawCommit(r)
    BY <1>2, <1>t DEF WithdrawCommit, WriteState, Holding, TypeOK, Decided, Idle
  <1>3. CASE \E r \in Requests : SweepOne(r)
    BY <1>3, <1>t DEF SweepOne, WriteState, Holding, TypeOK, Decided
  <1>4. CASE \E r \in Requests : Promote(r)
    BY <1>4, <1>t DEF Promote, WriteState, TypeOK, Decided
  <1>5. CASE \E r \in Requests : InviteCommit(r)
    BY <1>5, <1>t DEF InviteCommit, TypeOK, Decided
  <1>6. CASE ~(\E r \in Requests : \/ InviteCommit(r) \/ Promote(r) \/ CompleteCommit(r)
                                   \/ WithdrawCommit(r) \/ SweepOne(r))
    BY <1>6 DEF Next, NextUnfailing, Handle, Arrive, SeatCommit, DropLinks, CreateLink, SkipLink,
       ListWaiting, AllWritten, VerifyCommit, InviteRead, SeatRead, Register, Resend, VerifyRead,
       CompleteRead, WithdrawRead, SweepRead, Fail, InviteFallsDue, LinkExpires, Accept, Decline,
       Revoke, MoveSeat, Decided
  <1> QED
    BY <1>1, <1>2, <1>3, <1>4, <1>5, <1>6

LEMMA HoldersKeep ==
    ASSUME IInv, Next
    PROVE  HoldersOfDecidedAreLate'
  <1> SUFFICES ASSUME NEW q \in Requests, NEW i \in request'[q].todo
               PROVE  (Decided(i)' => q \in late') /\ invite'[i].state # "unborn"
    BY DEF HoldersOfDecidedAreLate
  <1>1. request'[q] # Idle
    BY DEF Idle
  <1>2. i \in Invites
    BY StepTyped DEF IInv, TypeOK
  <1>3. CASE Live(i) /\ UNCHANGED invite
    BY <1>3 DEF Live, Decided
  <1>4. CASE i \in request[q].todo
    <2>1. invite[i].state # "unborn"
      BY <1>4 DEF IInv, HoldersOfDecidedAreLate
    <2>2. invite'[i].state # "unborn"
      BY <1>2, <2>1, InvitesWritten DEF IInv, TypeOK, WriteState
    <2>3. CASE Decided(i)
      BY <1>1, <1>4, <2>2, <2>3, LateStays DEF IInv, HoldersOfDecidedAreLate
    <2>4. CASE ~Decided(i)
      BY <1>4, <2>2, <2>4, HoldersBecomeLate
    <2> QED
      BY <2>3, <2>4
  <1> QED
    BY <1>1, <1>3, <1>4, RequestsMove

LEMMA StepIInv == IInv /\ [Next]_vars => IInv'
  <1> SUFFICES ASSUME IInv, [Next]_vars PROVE IInv'
    OBVIOUS
  <1>1. CASE Next
    BY <1>1, StepTyped, SeatsKeep, InvitesKeep, LinksKeep, ReadersKeep, HoldersKeep DEF IInv
  <1>2. CASE UNCHANGED vars
    BY <1>2 DEF vars, IInv, TypeOK, SharedOnlyWithVerified, ReadyMeansRegistered, AtMostOneLive,
       LiveFor, Live, LinksNeedAnAccount, ReadersKnowTheAccount, HoldersOfDecidedAreLate, Decided
  <1> QED
    BY <1>1, <1>2

(* The inductive invariant holds of every behaviour. *)
THEOREM InvariantHolds == Spec => []IInv
  BY InitIInv, StepIInv, PTL DEF Spec

(* Nobody is shared with before the address is verified, whatever overlaps  *)
(* in the invitation, completion and verification handlers.                 *)
THEOREM NeverSharedBeforeVerified == Spec => []SharedOnlyWithVerified
  <1>1. IInv => SharedOnlyWithVerified
    BY DEF IInv
  <1> QED
    BY <1>1, InvariantHolds, PTL

(* Only the invitations to registered addresses are ready or completed.     *)
THEOREM ReadyMeansRegisteredAlways == Spec => []ReadyMeansRegistered
  <1>1. IInv => ReadyMeansRegistered
    BY DEF IInv
  <1> QED
    BY <1>1, InvariantHolds, PTL

(* One live invitation per vault, although both invitation handlers check   *)
(* before they write and a late promotion writes whatever it once listed.   *)
THEOREM AtMostOneLiveAlways == Spec => []AtMostOneLive
  <1>1. IInv => AtMostOneLive
    BY DEF IInv
  <1> QED
    BY <1>1, InvariantHolds, PTL

(* A decided invitation is written again only by a handler that overlapped  *)
(* the decision.                                                            *)
THEOREM OnlyOverlapsReopenAlways == Spec => OnlyOverlapsReopen
  <1>1. IInv /\ [Next]_vars =>
          \A i \in Invites : (Decided(i) /\ invite'[i] # invite[i]) => Holding(i) \cap late # {}
    <2> SUFFICES ASSUME IInv, [Next]_vars, NEW i \in Invites, Decided(i), invite'[i] # invite[i]
                 PROVE  Holding(i) \cap late # {}
      OBVIOUS
    <2>1. \E r \in Requests : i \in request[r].todo
      BY InvitesWritten DEF vars, IInv, TypeOK, WriteState, Decided
    <2> QED
      BY <2>1 DEF IInv, HoldersOfDecidedAreLate, Holding
  <1> QED
    BY <1>1, InvariantHolds, PTL DEF Spec, OnlyOverlapsReopen

(* An address is verified only by using a link that was neither used nor    *)
(* replaced when it was used.                                               *)
THEOREM VerifiedByAnOutstandingLinkAlways == Spec => VerifiedByAnOutstandingLink
  <1>1. IInv /\ [Next]_vars =>
          ((\E l \in Links : link[l] # "used" /\ link'[l] = "used") \/ account' # account =>
             \/ account' = "unverified"
             \/ \E l \in Links : link[l] \in {"live", "expired"} /\ link'[l] = "used")
    <2> SUFFICES ASSUME IInv, [Next]_vars,
                        (\E l \in Links : link[l] # "used" /\ link'[l] = "used")
                          \/ account' # account
                 PROVE  \/ account' = "unverified"
                        \/ \E l \in Links : link[l] \in {"live", "expired"} /\ link'[l] = "used"
      OBVIOUS
    <2>1. CASE \E r \in Requests : VerifyCommit(r)
      BY <2>1 DEF VerifyCommit, IInv, TypeOK
    <2>2. CASE ~\E r \in Requests : VerifyCommit(r)
      BY <2>2 DEF vars, IInv, TypeOK, Next, NextUnfailing, Handle, Arrive, InviteCommit, SeatCommit,
         DropLinks, CreateLink, SkipLink, ListWaiting, Promote, AllWritten, CompleteCommit,
         WithdrawCommit, SweepOne, InviteRead, SeatRead, Register, Resend, VerifyRead, CompleteRead,
         WithdrawRead, SweepRead, Fail, InviteFallsDue, LinkExpires, Accept, Decline, Revoke, MoveSeat
    <2> QED
      BY <2>1, <2>2
  <1> QED
    BY <1>1, InvariantHolds, PTL DEF Spec, VerifiedByAnOutstandingLink
=============================================================================
