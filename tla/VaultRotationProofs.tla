------------------------- MODULE VaultRotationProofs -------------------------
(***************************************************************************)
(* Proofs about VaultRotation for every set of users, items and requests   *)
(* in flight, and every bound on the generations.                          *)
(*                                                                         *)
(* One lemma per action says what the action does to the inductive         *)
(* invariant; the theorems at the end collect them.                        *)
(***************************************************************************)
EXTENDS VaultRotation, TLAPS

-----------------------------------------------------------------------------
(* Types *)

(* A request slot only ever holds a well-typed request. *)
LEMMA RequestsTyped ==
    ASSUME TypeOK, NEW r \in Requests, NEW q \in RequestType,
           request' = [request EXCEPT ![r] = q]
    PROVE  request' \in [Requests -> RequestType]
  BY DEF TypeOK

LEMMA IdleTyped == Idle \in RequestType
  BY CreatorAssumption DEF Idle, RequestType, AllRoles

(* The initial state is well typed. *)
LEMMA InitTyped == Init => TypeOK
  <1> SUFFICES ASSUME Init PROVE TypeOK
    OBVIOUS
  <1>1. rowVersion \in [Items -> Nat \cup {Deleted}]
    BY DEF Init, Unborn, Items
  <1>2. membership \in [Users -> [status : Status, role : AllRoles]]
    BY DEF Init, Status, AllRoles, NoMembership
  <1>3. keyWraps \in [Users -> SUBSET Nat]
    BY DEF Init
  <1>4. request \in [Requests -> RequestType]
    BY IdleTyped DEF Init
  <1> QED
    BY <1>1, <1>2, <1>3, <1>4 DEF Init, TypeOK

(* Every step of the membership handlers keeps the types. *)
LEMMA MembershipTyped ==
    ASSUME TypeOK, NEW r \in Requests PROVE
    /\ InviteRead(r) \/ CompleteRead(r) \/ AcceptRead(r) \/ DeclineRead(r)
         \/ RevokeRead(r) \/ RoleRead(r) => TypeOK'
    /\ InviteCommit(r) \/ CompleteCommit(r) \/ AcceptCommit(r) \/ DeclineCommit(r)
         \/ RevokeCommit(r) \/ RoleCommit(r) => TypeOK'
  <1> USE IdleTyped, InputAssumption DEF tables, history
  <1> request[r] \in RequestType
    BY DEF TypeOK
  <1>1. ASSUME InviteRead(r) PROVE TypeOK'
    <2>1. PICK u \in Users, role \in Roles :
              request' = [request EXCEPT ![r] =
                  [Idle EXCEPT !.kind = "invite", !.subject = u, !.role = role,
                               !.version = keyVersion]]
      BY <1>1 DEF InviteRead, Begin
    <2>2. [Idle EXCEPT !.kind = "invite", !.subject = u, !.role = role,
                       !.version = keyVersion] \in RequestType
      BY DEF Idle, RequestType, TypeOK, Kinds
    <2> QED
      BY <1>1, <2>1, <2>2, RequestsTyped DEF InviteRead, TypeOK
  <1>2. ASSUME AcceptRead(r) PROVE TypeOK'
    <2>1. PICK u \in Users : request' = [request EXCEPT ![r] =
                  [Idle EXCEPT !.kind = "accept", !.subject = u]]
      BY <1>2 DEF AcceptRead, Begin
    <2>2. [Idle EXCEPT !.kind = "accept", !.subject = u] \in RequestType
      BY DEF Idle, RequestType, Kinds
    <2> QED
      BY <1>2, <2>1, <2>2, RequestsTyped DEF AcceptRead, TypeOK
  <1>3. ASSUME DeclineRead(r) PROVE TypeOK'
    <2>1. PICK u \in Users : request' = [request EXCEPT ![r] =
                  [Idle EXCEPT !.kind = "decline", !.subject = u]]
      BY <1>3 DEF DeclineRead, Begin
    <2>2. [Idle EXCEPT !.kind = "decline", !.subject = u] \in RequestType
      BY DEF Idle, RequestType, Kinds
    <2> QED
      BY <1>3, <2>1, <2>2, RequestsTyped DEF DeclineRead, TypeOK
  <1>4. ASSUME RevokeRead(r) PROVE TypeOK'
    <2>1. PICK u \in Users : request' = [request EXCEPT ![r] =
                  [Idle EXCEPT !.kind = "revoke", !.subject = u]]
      BY <1>4 DEF RevokeRead, Begin
    <2>2. [Idle EXCEPT !.kind = "revoke", !.subject = u] \in RequestType
      BY DEF Idle, RequestType, Kinds
    <2> QED
      BY <1>4, <2>1, <2>2, RequestsTyped DEF RevokeRead, TypeOK
  <1>5. ASSUME RoleRead(r) PROVE TypeOK'
    <2>1. PICK u \in Users, role \in Roles : request' = [request EXCEPT ![r] =
                  [Idle EXCEPT !.kind = "role", !.subject = u, !.role = role]]
      BY <1>5 DEF RoleRead, Begin
    <2>2. [Idle EXCEPT !.kind = "role", !.subject = u, !.role = role] \in RequestType
      BY DEF Idle, RequestType, Kinds
    <2> QED
      BY <1>5, <2>1, <2>2, RequestsTyped DEF RoleRead, TypeOK
  <1>6. ASSUME InviteCommit(r) PROVE TypeOK'
    BY <1>6, RequestsTyped DEF InviteCommit, Seat, Finish, TypeOK, RequestType, Status
  <1>7. ASSUME AcceptCommit(r) PROVE TypeOK'
    BY <1>7, RequestsTyped DEF AcceptCommit, Finish, TypeOK, RequestType, Status
  <1>8. ASSUME DeclineCommit(r) PROVE TypeOK'
    BY <1>8, RequestsTyped DEF DeclineCommit, Finish, TypeOK, RequestType, Status,
                               NoMembership, AllRoles
  <1>9. ASSUME RevokeCommit(r) PROVE TypeOK'
    BY <1>9, RequestsTyped DEF RevokeCommit, Finish, TypeOK, RequestType, Status
  <1>10. ASSUME RoleCommit(r) PROVE TypeOK'
    BY <1>10, RequestsTyped DEF RoleCommit, Finish, TypeOK, RequestType, Status
  <1>11. ASSUME CompleteRead(r) PROVE TypeOK'
    <2>1. PICK u \in Users, role \in Roles :
              request' = [request EXCEPT ![r] =
                  [Idle EXCEPT !.kind = "complete", !.subject = u, !.role = role,
                               !.version = keyVersion]]
      BY <1>11 DEF CompleteRead, Begin
    <2>2. [Idle EXCEPT !.kind = "complete", !.subject = u, !.role = role,
                       !.version = keyVersion] \in RequestType
      BY DEF Idle, RequestType, TypeOK, Kinds
    <2> QED
      BY <1>11, <2>1, <2>2, RequestsTyped DEF CompleteRead, TypeOK
  <1>12. ASSUME CompleteCommit(r) PROVE TypeOK'
    BY <1>12, RequestsTyped DEF CompleteCommit, Seat, Finish, TypeOK, RequestType, Status
  <1> QED
    BY <1>1, <1>2, <1>3, <1>4, <1>5, <1>6, <1>7, <1>8, <1>9, <1>10, <1>11, <1>12

(* Every step of the rotation handlers and of the row writers keeps them. *)
LEMMA RotationTyped ==
    ASSUME TypeOK, NEW r \in Requests PROVE
    /\ OpenRead(r) \/ BatchRead(r) \/ CloseRead(r) \/ CreateRead(r) \/ RenameRead(r) => TypeOK'
    /\ OpenCommit(r) \/ BatchCommit(r) \/ CloseCommit(r) \/ CreateCommit(r)
         \/ RenameCommit(r) => TypeOK'
  <1> USE IdleTyped DEF tables, history
  <1> request[r] \in RequestType
    BY DEF TypeOK
  <1>1. ASSUME OpenRead(r) PROVE TypeOK'
    <2>1. request' = [request EXCEPT ![r] =
              [Idle EXCEPT !.kind = "open", !.version = keyVersion, !.members = LiveUsers]]
      BY <1>1 DEF OpenRead, Begin
    <2>2. [Idle EXCEPT !.kind = "open", !.version = keyVersion, !.members = LiveUsers]
             \in RequestType
      BY DEF Idle, RequestType, TypeOK, Kinds, LiveUsers
    <2> QED
      BY <1>1, <2>1, <2>2, RequestsTyped DEF OpenRead, TypeOK
  <1>2. ASSUME BatchRead(r) PROVE TypeOK'
    <2>1. PICK rows \in SUBSET Existing : request' = [request EXCEPT ![r] =
              [Idle EXCEPT !.kind = "batch", !.version = rotation.from + 1, !.items = rows]]
      BY <1>2 DEF BatchRead, Begin
    <2>a. rows \subseteq Items /\ rotation.from + 1 \in Nat
      BY DEF Existing, TypeOK
    <2>2. [Idle EXCEPT !.kind = "batch", !.version = rotation.from + 1, !.items = rows]
             \in RequestType
      BY <2>a DEF Idle, RequestType, Kinds
    <2> QED
      BY <1>2, <2>1, <2>2, RequestsTyped DEF BatchRead, TypeOK
  <1>3. ASSUME CloseRead(r) PROVE TypeOK'
    <2>1. request' = [request EXCEPT ![r] =
              [Idle EXCEPT !.kind = "close", !.version = rotation.from,
                           !.rotationId = rotation.id]]
      BY <1>3 DEF CloseRead, Begin
    <2>2. [Idle EXCEPT !.kind = "close", !.version = rotation.from,
                       !.rotationId = rotation.id] \in RequestType
      BY DEF Idle, RequestType, TypeOK, Kinds
    <2> QED
      BY <1>3, <2>1, <2>2, RequestsTyped DEF CloseRead, TypeOK
  <1>4. ASSUME CreateRead(r) PROVE TypeOK'
    <2>1. PICK i \in Items : request' = [request EXCEPT ![r] =
              [Idle EXCEPT !.kind = "create", !.items = {i}, !.version = keyVersion]]
      BY <1>4 DEF CreateRead, Begin
    <2>2. [Idle EXCEPT !.kind = "create", !.items = {i}, !.version = keyVersion]
             \in RequestType
      BY DEF Idle, RequestType, TypeOK, Kinds
    <2> QED
      BY <1>4, <2>1, <2>2, RequestsTyped DEF CreateRead, TypeOK
  <1>5. ASSUME RenameRead(r) PROVE TypeOK'
    <2>1. PICK i \in Folders \cup {VaultName} : request' = [request EXCEPT ![r] =
              [Idle EXCEPT !.kind = "rename", !.items = {i}, !.version = keyVersion]]
      BY <1>5 DEF RenameRead, Begin
    <2>2. [Idle EXCEPT !.kind = "rename", !.items = {i}, !.version = keyVersion]
             \in RequestType
      BY DEF Idle, RequestType, TypeOK, Kinds, Items
    <2> QED
      BY <1>5, <2>1, <2>2, RequestsTyped DEF RenameRead, TypeOK
  <1>6. ASSUME OpenCommit(r) PROVE TypeOK'
    BY <1>6, RequestsTyped DEF OpenCommit, Finish, TypeOK, RequestType, LiveUsers
  <1>7. ASSUME BatchCommit(r) PROVE TypeOK'
    BY <1>7, RequestsTyped DEF BatchCommit, Finish, TypeOK, RequestType
  <1>8. ASSUME CloseCommit(r) PROVE TypeOK'
    BY <1>8, RequestsTyped DEF CloseCommit, Finish, TypeOK, RequestType
  <1>9. ASSUME CreateCommit(r) PROVE TypeOK'
    BY <1>9, RequestsTyped DEF CreateCommit, Label, Finish, TypeOK, RequestType
  <1>10. ASSUME RenameCommit(r) PROVE TypeOK'
    BY <1>10, RequestsTyped DEF RenameCommit, Label, Finish, TypeOK, RequestType
  <1> QED
    BY <1>1, <1>2, <1>3, <1>4, <1>5, <1>6, <1>7, <1>8, <1>9, <1>10

LEMMA StepTyped == TypeOK /\ [Next]_vars => TypeOK'
  <1> SUFFICES ASSUME TypeOK, [Next]_vars PROVE TypeOK'
    OBVIOUS
  <1>1. CASE MembershipNext
    BY <1>1, MembershipTyped DEF MembershipNext
  <1>2. CASE RotationNext
    BY <1>2, RotationTyped DEF RotationNext
  <1>3. CASE Delete
    BY <1>3 DEF Delete, TypeOK
  <1>4. ASSUME NEW r \in Requests, Fail(r) PROVE TypeOK'
    BY <1>4, IdleTyped, RequestsTyped DEF Fail, tables, history, TypeOK
  <1>5. CASE UNCHANGED vars
    BY <1>5 DEF vars, tables, history, TypeOK
  <1> QED
    BY <1>1, <1>2, <1>3, <1>4, <1>5 DEF Next

(* Whatever requests overlap, every table keeps its shape: generations are *)
(* numbers, wraps belong to membership rows, requests remember what the    *)
(* handlers read.                                                          *)
THEOREM TypeCorrect == Spec => []TypeOK
  <1>1. Init => TypeOK
    BY InitTyped
  <1>2. TypeOK /\ [Next]_vars => TypeOK'
    BY StepTyped
  <1> QED
    BY <1>1, <1>2, PTL DEF Spec

-----------------------------------------------------------------------------
(* The inductive invariant *)

LEMMA InitIInv == Init => IInv
  <1> SUFFICES ASSUME Init PROVE IInv
    OBVIOUS
  <1>1. TypeOK
    BY InitTyped
  <1>2. VersionsAgree
    BY DEF Init, VersionsAgree
  <1>3. ClosesAreSound /\ InvitesAreSound
    BY DEF Init, Idle, ClosesAreSound, InvitesAreSound
  <1>4. RowsStayOpenable
    BY DEF Init, RowsStayOpenable, Existing, Exists, Unborn, LiveVersions
  <1>5. MembersHoldLiveKeys
    BY DEF Init, MembersHoldLiveKeys, LiveUsers, Live, LiveVersions, NoMembership
  <1> QED
    BY <1>1, <1>2, <1>3, <1>4, <1>5 DEF IInv

(* What the request that just started, or ended, must satisfy for the      *)
(* invariant to hold again: a close has found nothing outstanding, and an  *)
(* invitation names somebody who is not a member.                          *)
Harmless(q) ==
    /\ q.kind = "close" => /\ q.version = rotation.from
                           /\ q.rotationId = rotation.id
                           /\ Outstanding(rotation.from) = {}
    /\ q.kind \in {"invite", "complete"} => /\ q.version = keyVersion
                                            /\ ~Live(q.subject)

(* A step that changes no table and leaves one harmless request behind     *)
(* keeps the invariant: every ...Read, and Fail.                           *)
LEMMA ReadKeeps ==
    ASSUME IInv, NEW r \in Requests, NEW q, Harmless(q), TypeOK',
           request' = [request EXCEPT ![r] = q],
           UNCHANGED <<tables, history>>
    PROVE  IInv'
  <1> USE DEF tables, history
  <1>1. VersionsAgree' /\ RowsStayOpenable' /\ MembersHoldLiveKeys'
    BY DEF IInv, VersionsAgree, RowsStayOpenable, MembersHoldLiveKeys, Existing, Exists,
           LiveUsers, Live, LiveVersions
  <1>2. ASSUME NEW s \in Requests PROVE request'[s] = IF s = r THEN q ELSE request[s]
    BY DEF IInv, TypeOK
  <1>3. ClosesAreSound'
    <2> SUFFICES ASSUME NEW s \in Requests, request'[s].kind = "close"
                 PROVE  /\ request'[s].rotationId <= rotation.id
                        /\ request'[s].rotationId = rotation.id =>
                             /\ request'[s].version = rotation.from
                             /\ ~rewound => Outstanding(rotation.from) \subseteq lateRows
                        /\ (request'[s].rotationId < rotation.id /\ ~rewound) =>
                             request'[s].version < rotation.from
      BY DEF ClosesAreSound, Outstanding
    <2>1. CASE s = r
      BY <2>1, <1>2 DEF Harmless, IInv, TypeOK
    <2>2. CASE s # r
      BY <2>2, <1>2 DEF IInv, ClosesAreSound
    <2> QED
      BY <2>1, <2>2
  <1>4. InvitesAreSound'
    <2>1. ASSUME NEW s \in Requests, request'[s].kind \in {"invite", "complete"}, ~rewound
          PROVE  /\ request'[s].version <= keyVersion
                 /\ (/\ request'[s].version = keyVersion
                     /\ rotation.running
                     /\ Live(request'[s].subject)
                     /\ request'[s].subject \notin lateMembers) =>
                       rotation.from \notin keyWraps[request'[s].subject]
      <3>1. CASE s = r
        BY <2>1, <3>1, <1>2 DEF Harmless, IInv, TypeOK
      <3>2. CASE s # r
        BY <2>1, <3>2, <1>2 DEF IInv, InvitesAreSound
      <3> QED
        BY <3>1, <3>2
    <2> QED
      BY <2>1 DEF InvitesAreSound, Live
  <1> QED
    BY <1>1, <1>3, <1>4 DEF IInv

(* Every handler's first half keeps the invariant. *)
LEMMA MembershipReadsKeep ==
    ASSUME IInv, NEW r \in Requests, TypeOK',
           InviteRead(r) \/ CompleteRead(r) \/ AcceptRead(r) \/ DeclineRead(r)
             \/ RevokeRead(r) \/ RoleRead(r)
    PROVE  IInv'
  <1> USE DEF Begin, Harmless, Idle, Live
  <1>1. CASE InviteRead(r)
    BY <1>1, ReadKeeps DEF InviteRead
  <1>2. CASE CompleteRead(r)
    BY <1>2, ReadKeeps DEF CompleteRead
  <1>3. CASE AcceptRead(r)
    BY <1>3, ReadKeeps DEF AcceptRead
  <1>4. CASE DeclineRead(r)
    BY <1>4, ReadKeeps DEF DeclineRead
  <1>5. CASE RevokeRead(r)
    BY <1>5, ReadKeeps DEF RevokeRead
  <1>6. CASE RoleRead(r)
    BY <1>6, ReadKeeps DEF RoleRead
  <1> QED
    BY <1>1, <1>2, <1>3, <1>4, <1>5, <1>6

LEMMA RotationReadsKeep ==
    ASSUME IInv, NEW r \in Requests, TypeOK',
           OpenRead(r) \/ BatchRead(r) \/ CloseRead(r) \/ CreateRead(r) \/ RenameRead(r)
    PROVE  IInv'
  <1> USE DEF Begin, Harmless, Idle
  <1>1. CASE OpenRead(r)
    BY <1>1, ReadKeeps DEF OpenRead
  <1>2. CASE BatchRead(r)
    BY <1>2, ReadKeeps DEF BatchRead
  <1>3. CASE CloseRead(r)
    BY <1>3, ReadKeeps DEF CloseRead
  <1>4. CASE CreateRead(r)
    BY <1>4, ReadKeeps DEF CreateRead
  <1>5. CASE RenameRead(r)
    BY <1>5, ReadKeeps DEF RenameRead
  <1> QED
    BY <1>1, <1>2, <1>3, <1>4, <1>5

-----------------------------------------------------------------------------
(* The commits *)

(* A request that ends is idle; the others are as they were. *)
LEMMA FinishEffect ==
    ASSUME TypeOK, NEW r \in Requests, NEW kind, Finish(r, kind)
    PROVE  \A s \in Requests : request'[s] = IF s = r THEN Idle ELSE request[s]
  BY DEF Finish, TypeOK

(* Membership commits leave the generations and the rows alone, so only    *)
(* the parts about members are in play.                                    *)
LEMMA MemberCommitKeeps ==
    ASSUME IInv, NEW r \in Requests, NEW kind, NEW u \in Users,
           Finish(r, kind), TypeOK',
           UNCHANGED <<keyVersion, rowVersion, rotation, lateRows, rewound>>,
           \A w \in Users \ {u} : /\ membership'[w] = membership[w]
                                  /\ keyWraps'[w] = keyWraps[w]
                                  /\ w \in lateMembers' <=> w \in lateMembers,
           (~rewound /\ Live(u)' /\ u \notin lateMembers') =>
               \/ /\ keyWraps'[u] = {keyVersion}
               \/ /\ Live(u) /\ u \notin lateMembers
                  /\ keyWraps'[u] = keyWraps[u]
    PROVE  IInv'
  <1>1. VersionsAgree' /\ RowsStayOpenable'
    BY DEF IInv, VersionsAgree, RowsStayOpenable, Existing, Exists, LiveVersions
  <1>2. \A s \in Requests : request'[s] = IF s = r THEN Idle ELSE request[s]
    BY FinishEffect DEF IInv
  <1>3. ClosesAreSound'
    BY <1>2 DEF IInv, ClosesAreSound, Outstanding, Idle
  <1>4. MembersHoldLiveKeys'
    <2> SUFFICES ASSUME ~rewound, NEW w \in Users, Live(w)', w \notin lateMembers'
                 PROVE  keyVersion \in keyWraps'[w] /\ keyWraps'[w] \subseteq LiveVersions
      BY DEF MembersHoldLiveKeys, LiveUsers, LiveVersions
    <2>1. CASE w = u
      BY <2>1 DEF IInv, MembersHoldLiveKeys, LiveUsers, LiveVersions
    <2>2. CASE w # u
      BY <2>2 DEF IInv, MembersHoldLiveKeys, LiveUsers, Live
    <2> QED
      BY <2>1, <2>2
  <1>5. InvitesAreSound'
    <2> SUFFICES ASSUME NEW s \in Requests, NEW w \in Users, ~rewound,
                        request'[s].kind \in {"invite", "complete"},
                        w = request'[s].subject
                 PROVE  /\ request'[s].version <= keyVersion
                        /\ (/\ request'[s].version = keyVersion
                            /\ rotation.running
                            /\ Live(w)'
                            /\ w \notin lateMembers') => rotation.from \notin keyWraps'[w]
      <3>1. \A s \in Requests : request'[s].subject \in Users
        BY DEF TypeOK, RequestType
      <3> QED
        BY <3>1 DEF InvitesAreSound, Live
    <2>1. request'[s] = request[s]
      BY <1>2 DEF Idle
    <2>2. rotation.from # keyVersion
      BY DEF IInv, VersionsAgree, TypeOK
    <2>3. CASE w = u
      BY <2>1, <2>2, <2>3 DEF IInv, InvitesAreSound
    <2>4. CASE w # u
      BY <2>1, <2>4 DEF IInv, InvitesAreSound, Live
    <2> QED
      BY <2>3, <2>4
  <1> QED
    BY <1>1, <1>3, <1>4, <1>5 DEF IInv

LEMMA MembershipCommitsKeep ==
    ASSUME IInv, NEW r \in Requests, TypeOK',
           InviteCommit(r) \/ CompleteCommit(r) \/ AcceptCommit(r) \/ DeclineCommit(r)
             \/ RevokeCommit(r) \/ RoleCommit(r)
    PROVE  IInv'
  <1>0. TypeOK
    BY DEF IInv
  <1>s. PICK u \in Users : u = request[r].subject
    BY <1>0 DEF TypeOK, RequestType
  <1>1. ASSUME NEW kind, Seat(r, kind) PROVE IInv'
    <2>1. Finish(r, kind) /\ UNCHANGED <<keyVersion, rowVersion, rotation, lateRows, rewound>>
      BY <1>1 DEF Seat
    <2>2. \A w \in Users \ {u} : /\ membership'[w] = membership[w]
                                 /\ keyWraps'[w] = keyWraps[w]
                                 /\ w \in lateMembers' <=> w \in lateMembers
      BY <1>0, <1>1, <1>s DEF Seat, TypeOK
    <2>3. u \notin lateMembers' => keyWraps'[u] = {keyVersion}
      BY <1>0, <1>1, <1>s DEF Seat, TypeOK
    <2> QED
      BY <2>1, <2>2, <2>3, MemberCommitKeeps
  <1>2. CASE AcceptCommit(r)
    <2>1. Finish(r, "accept") /\ UNCHANGED <<keyVersion, rowVersion, rotation, lateRows, rewound>>
      BY <1>2 DEF AcceptCommit
    <2>2. \A w \in Users \ {u} : /\ membership'[w] = membership[w]
                                 /\ keyWraps'[w] = keyWraps[w]
                                 /\ w \in lateMembers' <=> w \in lateMembers
      BY <1>0, <1>2, <1>s DEF AcceptCommit, TypeOK
    <2>3. u \notin lateMembers' => Live(u) /\ u \notin lateMembers /\ keyWraps'[u] = keyWraps[u]
      BY <1>0, <1>2, <1>s DEF AcceptCommit, HasRow, Live, TypeOK
    <2> QED
      BY <2>1, <2>2, <2>3, MemberCommitKeeps
  <1>3. CASE DeclineCommit(r)
    <2>1. Finish(r, "decline") /\ UNCHANGED <<keyVersion, rowVersion, rotation, lateRows, rewound>>
      BY <1>3 DEF DeclineCommit
    <2>2. \A w \in Users \ {u} : /\ membership'[w] = membership[w]
                                 /\ keyWraps'[w] = keyWraps[w]
                                 /\ w \in lateMembers' <=> w \in lateMembers
      BY <1>0, <1>3, <1>s DEF DeclineCommit, TypeOK
    <2>3. ~Live(u)'
      BY <1>0, <1>3, <1>s DEF DeclineCommit, Live, NoMembership, TypeOK
    <2> QED
      BY <2>1, <2>2, <2>3, MemberCommitKeeps
  <1>4. CASE RevokeCommit(r)
    <2>1. Finish(r, "revoke") /\ UNCHANGED <<keyVersion, rowVersion, rotation, lateRows, rewound>>
      BY <1>4 DEF RevokeCommit
    <2>2. \A w \in Users \ {u} : /\ membership'[w] = membership[w]
                                 /\ keyWraps'[w] = keyWraps[w]
                                 /\ w \in lateMembers' <=> w \in lateMembers
      BY <1>0, <1>4, <1>s DEF RevokeCommit, TypeOK
    <2>3. ~Live(u)'
      <3>1. membership'[u].status = "revoked"
        BY <1>0, <1>4, <1>s DEF RevokeCommit, TypeOK
      <3> QED
        BY <3>1 DEF Live
    <2> QED
      BY <2>1, <2>2, <2>3, MemberCommitKeeps
  <1>5. CASE RoleCommit(r)
    <2>1. /\ Finish(r, "role")
          /\ UNCHANGED <<keyVersion, rowVersion, rotation, lateRows, rewound, keyWraps, lateMembers>>
      BY <1>5 DEF RoleCommit, history
    <2>2. \A w \in Users \ {u} : membership'[w] = membership[w]
      BY <1>0, <1>5, <1>s DEF RoleCommit, TypeOK
    <2>3. membership'[u].status = membership[u].status
      BY <1>0, <1>5, <1>s DEF RoleCommit, TypeOK
    <2>4. Live(u)' => Live(u)
      BY <2>3 DEF Live
    <2> QED
      BY <2>1, <2>2, <2>4, MemberCommitKeeps
  <1> QED
    BY <1>1, <1>2, <1>3, <1>4, <1>5 DEF InviteCommit, CompleteCommit

(* A rotation opens.  Unless it rewinds the vault, the generation that was *)
(* current becomes the one being retired, every member who is not late     *)
(* was in the snapshot and gets the new key, and every request that read   *)
(* the old generation is outdated.                                         *)
LEMMA OpenKeeps ==
    ASSUME IInv, NEW r \in Requests, TypeOK', OpenCommit(r)
    PROVE  IInv'
  <1> DEFINE from == request[r].version
             mine == request[r].members
  <1>0. TypeOK /\ from \in Nat /\ mine \subseteq Users
    BY DEF IInv, TypeOK, RequestType
  <1>1. /\ keyVersion' = from + 1
        /\ rotation' = [id |-> rotation.id + 1, from |-> from, running |-> TRUE]
        /\ ~rotation.running
        /\ rewound' = (rewound \/ from # keyVersion)
        /\ lateMembers' = lateMembers \cup (LiveUsers \ mine)
                                     \cup {u \in mine : membership[u].status = "revoked"}
        /\ \A u \in Users : keyWraps'[u] = IF u \in mine THEN keyWraps[u] \cup {from + 1}
                                                         ELSE keyWraps[u]
        /\ UNCHANGED <<rowVersion, membership, lateRows>>
    BY DEF OpenCommit
  <1>2. \A s \in Requests : request'[s] = IF s = r THEN Idle ELSE request[s]
    BY <1>0, FinishEffect DEF OpenCommit
  <1>3. VersionsAgree'
    BY <1>1 DEF VersionsAgree
  <1>4. ~rewound' => /\ ~rewound /\ from = keyVersion
                     /\ keyVersion = rotation.from + 1
                     /\ LiveVersions = {keyVersion}
                     /\ LiveVersions' = {keyVersion, keyVersion + 1}
    BY <1>0, <1>1 DEF IInv, VersionsAgree, LiveVersions
  <1>5. ClosesAreSound'
    <2> SUFFICES ASSUME NEW s \in Requests, request'[s].kind = "close"
                 PROVE  /\ request'[s].rotationId <= rotation'.id
                        /\ request'[s].rotationId = rotation'.id =>
                             /\ request'[s].version = rotation'.from
                             /\ ~rewound' => Outstanding(rotation.from)' \subseteq lateRows'
                        /\ (request'[s].rotationId < rotation'.id /\ ~rewound') =>
                             request'[s].version < rotation'.from
      BY DEF ClosesAreSound, Outstanding
    <2>1. request'[s] = request[s] /\ request[s] \in RequestType
      BY <1>0, <1>2 DEF Idle, TypeOK
    <2>2. /\ request[s].rotationId \in Nat /\ request[s].version \in Nat
          /\ rotation.id \in Nat /\ rotation.from \in Nat
      BY <1>0, <2>1 DEF TypeOK, RequestType
    <2>3. request[s].rotationId <= rotation.id
      BY <2>1 DEF IInv, ClosesAreSound
    <2>4. ASSUME ~rewound' PROVE request[s].version < keyVersion
      <3>1. request[s].version <= rotation.from
        BY <2>1, <2>2, <2>3, <2>4, <1>4 DEF IInv, ClosesAreSound
      <3> QED
        BY <3>1, <2>2, <2>4, <1>4
    <2> QED
      BY <1>1, <1>4, <2>1, <2>2, <2>3, <2>4
  <1>6. InvitesAreSound'
    <2> SUFFICES ASSUME NEW s \in Requests, ~rewound',
                        request'[s].kind \in {"invite", "complete"}
                 PROVE  request'[s].version < keyVersion'
      <3>1. \A s \in Requests : request'[s].version \in Nat /\ keyVersion' \in Nat
        BY DEF TypeOK, RequestType
      <3> QED
        BY <3>1 DEF InvitesAreSound
    <2>1. request'[s] = request[s] /\ request[s].version \in Nat
      BY <1>0, <1>2 DEF Idle, TypeOK, RequestType
    <2>2. request[s].version <= keyVersion
      BY <2>1, <1>4 DEF IInv, InvitesAreSound
    <2> QED
      BY <1>0, <1>1, <1>4, <2>1, <2>2 DEF TypeOK
  <1>7. RowsStayOpenable'
    BY <1>1, <1>4 DEF IInv, RowsStayOpenable, Existing, Exists
  <1>8. MembersHoldLiveKeys'
    <2> SUFFICES ASSUME ~rewound', NEW u \in Users, Live(u)', u \notin lateMembers'
                 PROVE  keyVersion' \in keyWraps'[u] /\ keyWraps'[u] \subseteq LiveVersions'
      BY DEF MembersHoldLiveKeys, LiveUsers
    <2>1. Live(u) /\ u \notin lateMembers /\ u \in mine
      BY <1>1 DEF Live, LiveUsers
    <2>2. ~rewound /\ keyVersion' = keyVersion + 1
          /\ LiveVersions' = {keyVersion, keyVersion + 1}
      BY <1>1, <1>4
    <2>3. keyWraps[u] \subseteq {keyVersion}
      BY <2>1, <2>2, <1>4 DEF IInv, MembersHoldLiveKeys, LiveUsers
    <2>4. keyWraps'[u] = keyWraps[u] \cup {keyVersion + 1}
      BY <1>1, <1>4, <2>1
    <2> QED
      BY <2>2, <2>3, <2>4
  <1> QED
    BY <1>3, <1>5, <1>6, <1>7, <1>8 DEF IInv

(* Rows are written with one label: by a batch, by a create, by a rename.  *)
(* Either the label is the present generation, or the rows become late.    *)
LEMMA LabelKeeps ==
    ASSUME IInv, NEW r \in Requests, NEW kind, NEW rows \in SUBSET Items, NEW v \in Nat,
           Finish(r, kind), TypeOK',
           rowVersion' = [i \in Items |-> IF i \in rows THEN v ELSE rowVersion[i]],
           lateRows' = (IF v = keyVersion THEN lateRows \ rows ELSE lateRows \cup rows),
           UNCHANGED <<keyVersion, membership, keyWraps, rotation, lateMembers, rewound>>
    PROVE  IInv'
  <1>0. TypeOK /\ keyVersion = rotation.from + 1 /\ rotation.from \in Nat
    BY DEF IInv, VersionsAgree, TypeOK
  <1>1. \A s \in Requests : request'[s] = IF s = r THEN Idle ELSE request[s]
    BY <1>0, FinishEffect
  <1>2. VersionsAgree' /\ MembersHoldLiveKeys'
    BY DEF IInv, VersionsAgree, MembersHoldLiveKeys, LiveUsers, Live, LiveVersions
  <1>3. InvitesAreSound'
    BY <1>1 DEF IInv, InvitesAreSound, Live, Idle
  <1>4. ClosesAreSound'
    <2>1. Outstanding(rotation.from) \subseteq lateRows =>
              Outstanding(rotation.from)' \subseteq lateRows'
      BY <1>0 DEF Outstanding
    <2> QED
      BY <1>1, <2>1 DEF IInv, ClosesAreSound, Idle
  <1>5. RowsStayOpenable'
    BY <1>0 DEF IInv, RowsStayOpenable, Existing, Exists, LiveVersions
  <1> QED
    BY <1>2, <1>3, <1>4, <1>5 DEF IInv

LEMMA RowWritesKeep ==
    ASSUME IInv, NEW r \in Requests, TypeOK',
           BatchCommit(r) \/ CreateCommit(r) \/ RenameCommit(r)
    PROVE  IInv'
  <1>0. TypeOK
    BY DEF IInv
  <1>1. PICK v \in Nat : v = request[r].version
    BY <1>0 DEF TypeOK, RequestType
  <1>2. request[r].items \in SUBSET Items
    BY <1>0 DEF TypeOK, RequestType
  <1>3. CASE BatchCommit(r)
    <2> PICK rows \in SUBSET Items : rows = request[r].items
      BY <1>2
    <2>1. /\ Finish(r, "batch")
          /\ rowVersion' = [i \in Items |-> IF i \in rows THEN v ELSE rowVersion[i]]
          /\ lateRows' = (IF v = keyVersion THEN lateRows \ rows ELSE lateRows \cup rows)
          /\ UNCHANGED <<keyVersion, membership, keyWraps, rotation, lateMembers, rewound>>
      BY <1>1, <1>3 DEF BatchCommit
    <2> QED
      BY <2>1, LabelKeeps
  <1>4. ASSUME NEW kind, NEW i \in Items, Finish(r, kind), Label(r, i) PROVE IInv'
    <2>1. rowVersion' = [j \in Items |-> IF j \in {i} THEN v ELSE rowVersion[j]]
      BY <1>0, <1>1, <1>4 DEF Label, TypeOK
    <2>2. /\ lateRows' = (IF v = keyVersion THEN lateRows \ {i} ELSE lateRows \cup {i})
          /\ UNCHANGED <<keyVersion, membership, keyWraps, rotation, lateMembers, rewound>>
      BY <1>1, <1>4 DEF Label
    <2> QED
      BY <1>4, <2>1, <2>2, LabelKeeps
  <1>5. CASE CreateCommit(r)
    BY <1>2, <1>4, <1>5 DEF CreateCommit
  <1>6. CASE RenameCommit(r)
    BY <1>2, <1>4, <1>6 DEF RenameCommit
  <1> QED
    BY <1>3, <1>5, <1>6

(* Deleting rows makes nothing outstanding and nothing unreadable. *)
LEMMA DeleteKeeps ==
    ASSUME IInv, TypeOK', Delete
    PROVE  IInv'
  <1>0. TypeOK /\ rotation.from \in Nat
    BY DEF IInv, TypeOK
  <1>1. PICK gone \in SUBSET Items :
            /\ rowVersion' = [j \in Items |-> IF j \in gone THEN Deleted ELSE rowVersion[j]]
            /\ lateRows' = lateRows \ gone
            /\ UNCHANGED <<keyVersion, membership, keyWraps, rotation, request,
                           lateMembers, rewound>>
    <2>1. PICK i \in Existing \ {VaultName} :
            \E filed \in SUBSET (IF i \in Folders THEN Existing \cap Secrets ELSE {}) :
              /\ rowVersion' = [j \in Items |-> IF j \in {i} \cup filed THEN Deleted
                                                                        ELSE rowVersion[j]]
              /\ lateRows' = lateRows \ ({i} \cup filed)
              /\ UNCHANGED <<keyVersion, membership, keyWraps, rotation, request,
                             lateMembers, rewound>>
      BY DEF Delete
    <2>2. \A filed \in SUBSET (IF i \in Folders THEN Existing \cap Secrets ELSE {}) :
             {i} \cup filed \in SUBSET Items
      BY DEF Existing
    <2> QED
      BY <2>1, <2>2
  <1>2. VersionsAgree' /\ MembersHoldLiveKeys' /\ InvitesAreSound'
    BY <1>1 DEF IInv, VersionsAgree, MembersHoldLiveKeys, LiveUsers, Live, LiveVersions,
                InvitesAreSound
  <1>3. Outstanding(rotation.from) \subseteq lateRows =>
            Outstanding(rotation.from)' \subseteq lateRows'
    BY <1>0, <1>1 DEF Outstanding, Deleted
  <1>4. ClosesAreSound'
    BY <1>1, <1>3 DEF IInv, ClosesAreSound
  <1>5. RowsStayOpenable'
    BY <1>0, <1>1 DEF IInv, RowsStayOpenable, Existing, Exists, LiveVersions, Deleted
  <1> QED
    BY <1>2, <1>4, <1>5 DEF IInv

(* A rotation closes.  If it is the one this request read, nothing but     *)
(* late rows is left at its old generation; if it is an older one, its old *)
(* generation is long dead and the deletion finds nothing to delete.       *)
LEMMA CloseKeeps ==
    ASSUME IInv, NEW r \in Requests, TypeOK', CloseCommit(r)
    PROVE  IInv'
  <1> DEFINE q == request[r]
  <1>0. /\ TypeOK /\ keyVersion = rotation.from + 1
        /\ rotation.from \in Nat /\ rotation.id \in Nat
        /\ q.version \in Nat /\ q.rotationId \in Nat /\ q.kind = "close"
    BY DEF IInv, VersionsAgree, TypeOK, RequestType, CloseCommit, Finish
  <1>1. PICK v \in Nat, id \in Nat : v = q.version /\ id = q.rotationId
    BY <1>0
  <1>2. /\ \A u \in Users : keyWraps'[u] = keyWraps[u] \ {v}
        /\ rotation'.id = rotation.id /\ rotation'.from = rotation.from
        /\ rotation'.running = (rotation.running /\ rotation.id # id)
        /\ UNCHANGED <<keyVersion, rowVersion, membership, lateRows, lateMembers, rewound>>
    BY <1>0, <1>1 DEF CloseCommit, history, TypeOK
  <1>3. \A s \in Requests : request'[s] = IF s = r THEN Idle ELSE request[s]
    BY <1>0, FinishEffect DEF CloseCommit
  <1>4. /\ id = rotation.id => /\ v = rotation.from
                               /\ ~rewound => Outstanding(rotation.from) \subseteq lateRows
        /\ (id # rotation.id /\ ~rewound) => v < rotation.from
    BY <1>0, <1>1 DEF IInv, ClosesAreSound
  <1>5. VersionsAgree'
    BY <1>0, <1>2 DEF VersionsAgree
  <1>6. ClosesAreSound'
    BY <1>2, <1>3 DEF IInv, ClosesAreSound, Outstanding, Idle
  <1>7. InvitesAreSound'
    <2> SUFFICES ASSUME NEW s \in Requests, request'[s].kind \in {"invite", "complete"}, ~rewound
                 PROVE  /\ request'[s].version <= keyVersion
                        /\ (/\ request'[s].version = keyVersion
                            /\ rotation'.running
                            /\ Live(request'[s].subject)
                            /\ request'[s].subject \notin lateMembers) =>
                              rotation.from \notin keyWraps'[request'[s].subject]
      BY <1>2 DEF InvitesAreSound, Live
    <2>1. request'[s] = request[s] /\ request[s].subject \in Users
      BY <1>0, <1>3 DEF Idle, TypeOK, RequestType
    <2> QED
      BY <1>2, <2>1 DEF IInv, InvitesAreSound
  <1>8. RowsStayOpenable'
    BY <1>2, <1>4 DEF IInv, RowsStayOpenable, Existing, Exists, LiveVersions, Outstanding
  <1>9. MembersHoldLiveKeys'
    <2> SUFFICES ASSUME ~rewound, NEW u \in Users, Live(u), u \notin lateMembers
                 PROVE  keyVersion \in keyWraps'[u] /\ keyWraps'[u] \subseteq LiveVersions'
      BY <1>2 DEF MembersHoldLiveKeys, LiveUsers, Live
    <2>1. keyVersion \in keyWraps[u] /\ keyWraps[u] \subseteq LiveVersions
      BY DEF IInv, MembersHoldLiveKeys, LiveUsers
    <2>2. v # keyVersion
      BY <1>0, <1>4
    <2> QED
      BY <1>2, <1>4, <2>1, <2>2 DEF LiveVersions
  <1> QED
    BY <1>5, <1>6, <1>7, <1>8, <1>9 DEF IInv

LEMMA StepIInv == IInv /\ [Next]_vars => IInv'
  <1> SUFFICES ASSUME IInv, [Next]_vars PROVE IInv'
    OBVIOUS
  <1>0. TypeOK'
    BY StepTyped DEF IInv
  <1>1. CASE MembershipNext
    BY <1>0, <1>1, MembershipReadsKeep, MembershipCommitsKeep DEF MembershipNext
  <1>2. CASE RotationNext
    BY <1>0, <1>2, RotationReadsKeep, OpenKeeps, RowWritesKeep, CloseKeeps DEF RotationNext
  <1>3. CASE Delete
    BY <1>0, <1>3, DeleteKeeps
  <1>4. ASSUME NEW r \in Requests, Fail(r) PROVE IInv'
    <2>1. Harmless(Idle)
      BY DEF Harmless, Idle
    <2> QED
      BY <1>0, <1>4, <2>1, ReadKeeps DEF Fail
  <1>5. CASE UNCHANGED vars
    BY <1>5 DEF vars, tables, history, IInv, TypeOK, VersionsAgree, ClosesAreSound,
                InvitesAreSound, RowsStayOpenable, MembersHoldLiveKeys, Outstanding,
                Existing, Exists, LiveUsers, Live, LiveVersions
  <1> QED
    BY <1>1, <1>2, <1>3, <1>4, <1>5 DEF Next

-----------------------------------------------------------------------------
(* Theorems *)

(* The inductive invariant holds of every behaviour. *)
THEOREM InvariantHolds == Spec => []IInv
  <1>1. Init => IInv
    BY InitIInv
  <1>2. IInv /\ [Next]_vars => IInv'
    BY StepIInv
  <1> QED
    BY <1>1, <1>2, PTL DEF Spec

(* A row is never labelled with a retired generation, unless the request   *)
(* that labelled it had read the vault before a rotation opened            *)
(* (rotation.routes.ts:229-272, secrets.routes.ts:102-140).                *)
THEOREM RowsStayOpenableAlways == Spec => []RowsStayOpenable
  <1>1. IInv => RowsStayOpenable
    BY DEF IInv
  <1> QED
    BY <1>1, InvariantHolds, PTL

(* Every active or invited member holds the key that rows are written      *)
(* with, and no key of a retired generation, unless their membership was   *)
(* written from an outdated read (sharing.routes.ts:54-111,                *)
(* rotation.routes.ts:64-144, vaults.routes.ts:135-152).                   *)
THEOREM MembersHoldLiveKeysAlways == Spec => []MembersHoldLiveKeys
  <1>1. IInv => MembersHoldLiveKeys
    BY DEF IInv
  <1> QED
    BY <1>1, InvariantHolds, PTL

-----------------------------------------------------------------------------
(* Live keys are kept *)

(* No step takes a live generation's wrap from a member whose membership    *)
(* row it leaves as it was, late members apart.                             *)
KeepsLiveKeys ==
    ~rewound' => \A u \in LiveUsers \ (lateMembers \cup lateMembers') :
        \A v \in LiveVersions \cap LiveVersions' :
            v \in keyWraps[u] => \/ v \in keyWraps'[u]
                                 \/ membership'[u] # membership[u]

(* A membership row is written over with one wrap.  If it was a live row,  *)
(* the invariant about invitations in flight says that it did not hold the *)
(* retiring generation.                                                    *)
LEMMA SeatKeepsLiveKeys ==
    ASSUME IInv, NEW r \in Requests, NEW kind \in {"invite", "complete"}, Seat(r, kind)
    PROVE  KeepsLiveKeys
  <1>0. TypeOK
    BY DEF IInv
  <1>s. PICK u \in Users : u = request[r].subject
    BY <1>0 DEF TypeOK, RequestType
  <1>1. /\ request[r].kind = kind
        /\ UNCHANGED <<keyVersion, rotation, rewound>>
        /\ membership'[u].status = "invited"
        /\ keyWraps'[u] = {request[r].version}
        /\ u \notin lateMembers' => request[r].version = keyVersion
        /\ \A w \in Users \ {u} : keyWraps'[w] = keyWraps[w]
    BY <1>0, <1>s DEF Seat, Finish, TypeOK
  <1> SUFFICES ASSUME ~rewound, NEW w \in LiveUsers, w \notin lateMembers, w \notin lateMembers',
                      NEW v \in LiveVersions, v \in keyWraps[w], membership'[w] = membership[w]
               PROVE  v \in keyWraps'[w]
    BY <1>1 DEF KeepsLiveKeys
  <1>2. CASE w # u
    BY <1>1, <1>2 DEF LiveUsers
  <1>3. CASE w = u
    <2>1. Live(u)
      BY <1>3 DEF LiveUsers
    <2>2. ~(rotation.running /\ rotation.from \in keyWraps[u])
      BY <1>1, <1>3, <1>s, <2>1 DEF IInv, InvitesAreSound
    <2> QED
      BY <1>1, <1>3, <2>2 DEF LiveVersions
  <1> QED
    BY <1>2, <1>3

LEMMA StepKeepsLiveKeys == IInv /\ [Next]_vars => KeepsLiveKeys
  <1> SUFFICES ASSUME IInv, [Next]_vars PROVE KeepsLiveKeys
    OBVIOUS
  <1>0. TypeOK
    BY DEF IInv
  <1>1. ASSUME \A u \in LiveUsers : keyWraps[u] \subseteq keyWraps'[u] \/ membership'[u] # membership[u]
        PROVE  KeepsLiveKeys
    BY <1>1 DEF KeepsLiveKeys
  <1>2. ASSUME UNCHANGED keyWraps PROVE KeepsLiveKeys
    BY <1>1, <1>2
  <1>3. ASSUME NEW r \in Requests, InviteCommit(r) \/ CompleteCommit(r) PROVE KeepsLiveKeys
    BY <1>3, SeatKeepsLiveKeys DEF InviteCommit, CompleteCommit
  <1>4. ASSUME NEW r \in Requests, DeclineCommit(r) \/ RevokeCommit(r) PROVE KeepsLiveKeys
    <2> PICK u \in Users : u = request[r].subject
      BY <1>0 DEF TypeOK, RequestType
    <2>1. membership'[u].status \in {"deleted", "revoked"}
      BY <1>0, <1>4 DEF DeclineCommit, RevokeCommit, NoMembership, TypeOK
    <2>2. \A w \in Users \ {u} : keyWraps'[w] = keyWraps[w]
      BY <1>0, <1>4 DEF DeclineCommit, RevokeCommit, TypeOK
    <2>3. ASSUME NEW w \in LiveUsers, w = u PROVE membership'[w] # membership[w]
      BY <2>1, <2>3 DEF LiveUsers, Live
    <2> QED
      BY <1>1, <2>2, <2>3 DEF LiveUsers
  <1>5. ASSUME NEW r \in Requests, OpenCommit(r) PROVE KeepsLiveKeys
    <2>1. \A u \in Users : keyWraps[u] \subseteq keyWraps'[u]
      BY <1>0, <1>5 DEF OpenCommit, TypeOK
    <2> QED
      BY <1>1, <2>1 DEF LiveUsers
  \* The generation a close destroys is retired, either by the close itself
  \* or by the rotations opened since it was read.
  <1>6. ASSUME NEW r \in Requests, CloseCommit(r) PROVE KeepsLiveKeys
    <2>1. /\ request[r].kind = "close"
          /\ UNCHANGED <<keyVersion, rewound>>
          /\ \A u \in Users : keyWraps'[u] = keyWraps[u] \ {request[r].version}
          /\ rotation' = IF rotation.id = request[r].rotationId
                           THEN [rotation EXCEPT !.running = FALSE] ELSE rotation
      BY <1>6 DEF CloseCommit, Finish, history
    <2>t. rotation.id \in Nat /\ rotation.from \in Nat /\ request[r].rotationId \in Nat
      BY <1>0 DEF TypeOK, RequestType
    <2>v. request[r].version \in Nat
      BY <1>0 DEF TypeOK, RequestType
    <2>k. keyVersion = rotation.from + 1
      BY DEF IInv, VersionsAgree
    <2> SUFFICES ASSUME ~rewound PROVE request[r].version \notin LiveVersions \cap LiveVersions'
      BY <2>1 DEF KeepsLiveKeys, LiveUsers
    <2>2. CASE rotation.id = request[r].rotationId
      <3>1. request[r].version = rotation.from /\ rotation'.running = FALSE
        BY <1>0, <2>1, <2>2 DEF IInv, ClosesAreSound, TypeOK
      <3> QED
        BY <3>1, <2>1, <2>t, <2>k DEF LiveVersions
    <2>3. CASE rotation.id # request[r].rotationId
      <3>1. request[r].version < rotation.from
        BY <2>1, <2>3, <2>t DEF IInv, ClosesAreSound
      <3> QED
        BY <3>1, <2>t, <2>v, <2>k DEF LiveVersions
    <2> QED
      BY <2>2, <2>3
  <1>7. ASSUME NEW r \in Requests,
               \/ InviteRead(r) \/ CompleteRead(r) \/ AcceptRead(r) \/ AcceptCommit(r)
               \/ DeclineRead(r) \/ RevokeRead(r) \/ RoleRead(r) \/ RoleCommit(r)
        PROVE  KeepsLiveKeys
    BY <1>2, <1>7 DEF InviteRead, CompleteRead, AcceptRead, AcceptCommit, DeclineRead,
                      RevokeRead, RoleRead, RoleCommit, tables
  <1>8. ASSUME NEW r \in Requests,
               \/ OpenRead(r) \/ BatchRead(r) \/ BatchCommit(r) \/ CloseRead(r)
               \/ CreateRead(r) \/ CreateCommit(r) \/ RenameRead(r) \/ RenameCommit(r)
               \/ Fail(r)
        PROVE  KeepsLiveKeys
    BY <1>2, <1>8 DEF OpenRead, BatchRead, BatchCommit, CloseRead, CreateRead, CreateCommit,
                      RenameRead, RenameCommit, Label, Fail, tables
  <1>9. ASSUME Delete \/ UNCHANGED vars PROVE KeepsLiveKeys
    BY <1>2, <1>9 DEF Delete, vars, tables
  <1> QED
    BY <1>3, <1>4, <1>5, <1>6, <1>7, <1>8, <1>9 DEF Next, MembershipNext, RotationNext

(* While a generation is live no member loses its key except by being       *)
(* revoked, deleted or invited anew: the action property of the run, for    *)
(* any number of users, rows, requests and rotations.                       *)
THEOREM LiveKeysAreAlwaysKept == Spec => LiveKeysAreKept
  <1>1. IInv /\ [Next]_vars => KeepsLiveKeys
    BY StepKeepsLiveKeys
  <1>2. Spec => []IInv
    BY InvariantHolds
  <1> QED
    BY <1>1, <1>2, PTL DEF Spec, LiveKeysAreKept, KeepsLiveKeys

-----------------------------------------------------------------------------
(* Requests that overlap, but whose reads are not outdated when they write: *)
(* their steps are steps of TwoGenerations.                                 *)

NothingIsLate == lateRows = {} /\ ~rewound

RetiringIsAGeneration == ~rewound /\ rotation.running => rotation.from > 0

OnTimeStep == NothingIsLate /\ NothingIsLate' => [TwoGen!AbsNext]_(TwoGen!absVars)

LEMMA InitRetiring == Init => RetiringIsAGeneration
  BY DEF Init, RetiringIsAGeneration

(* Only an open starts to retire a generation: the vault's, unless the      *)
(* vault is wound back.                                                     *)
LEMMA StepRetiring ==
    IInv /\ RetiringIsAGeneration /\ [Next]_vars => RetiringIsAGeneration'
  <1> SUFFICES ASSUME IInv, RetiringIsAGeneration, [Next]_vars
               PROVE  RetiringIsAGeneration'
    OBVIOUS
  <1>t. TypeOK
    BY DEF IInv
  <1>1. ASSUME NEW r \in Requests, OpenCommit(r) PROVE RetiringIsAGeneration'
    <2>1. request[r].version \in Nat /\ keyVersion = rotation.from + 1 /\ rotation.from \in Nat
      BY <1>t DEF IInv, VersionsAgree, TypeOK, RequestType
    <2>2. rotation'.from = request[r].version /\ (~rewound' => request[r].version = keyVersion)
      BY <1>1 DEF OpenCommit
    <2> QED
      BY <2>1, <2>2 DEF RetiringIsAGeneration
  <1>2. ASSUME NEW r \in Requests, CloseCommit(r) PROVE RetiringIsAGeneration'
    <2>1. /\ rotation'.running => rotation.running /\ rotation'.from = rotation.from
          /\ rewound' = rewound
      BY <1>2, <1>t DEF CloseCommit, TypeOK, history
    <2> QED
      BY <2>1 DEF RetiringIsAGeneration
  <1>3. CASE UNCHANGED <<rotation, rewound>>
    BY <1>3 DEF RetiringIsAGeneration
  <1>4. CASE MembershipNext
    BY <1>3, <1>4
       DEF MembershipNext, InviteRead, InviteCommit, CompleteRead, CompleteCommit, Seat,
           AcceptRead, AcceptCommit, DeclineRead, DeclineCommit, RevokeRead, RevokeCommit,
           RoleRead, RoleCommit, tables, history
  <1>5. ASSUME NEW r \in Requests,
               \/ OpenRead(r) \/ BatchRead(r) \/ CloseRead(r) \/ CreateRead(r)
               \/ RenameRead(r) \/ BatchCommit(r) \/ CreateCommit(r) \/ RenameCommit(r)
               \/ Fail(r)
        PROVE  RetiringIsAGeneration'
    BY <1>3, <1>5
       DEF OpenRead, BatchRead, CloseRead, CreateRead, RenameRead, BatchCommit,
           CreateCommit, RenameCommit, Label, Fail, tables, history
  <1>6. CASE Delete \/ UNCHANGED vars
    BY <1>3, <1>6 DEF Delete, vars, tables, history
  <1> QED
    BY <1>1, <1>2, <1>4, <1>5, <1>6 DEF Next, RotationNext

-----------------------------------------------------------------------------
(* The refinement *)

LEMMA InitImplements == Init => TwoGen!AbsInit
  <1> SUFFICES ASSUME Init PROVE TwoGen!AbsInit
    OBVIOUS
  <1> QED
    BY DEF Init, Unborn, TwoGen!AbsInit, TwoGen!None

(* A step that leaves the vault's tables of generations alone is invisible. *)
LEMMA StutterImplements ==
    ASSUME UNCHANGED <<keyVersion, rowVersion, rotation>>
    PROVE  [TwoGen!AbsNext]_(TwoGen!absVars)
  BY DEF TwoGen!absVars

LEMMA OpenImplements ==
    ASSUME NEW r \in Requests, OpenCommit(r), ~rewound'
    PROVE  TwoGen!Introduce
  <1>1. request[r].version = keyVersion
    BY DEF OpenCommit
  <1> QED
    BY <1>1 DEF OpenCommit, TwoGen!Introduce, TwoGen!None

(* Rows written at the present generation, by whichever handler. *)
LEMMA WriteImplements ==
    ASSUME NEW rows \in SUBSET {i \in Items : rowVersion[i] # Deleted},
           rowVersion' = [i \in Items |-> IF i \in rows THEN keyVersion ELSE rowVersion[i]],
           UNCHANGED <<keyVersion, rotation>>
    PROVE  TwoGen!Write
  BY DEF TwoGen!Write, Deleted

LEMMA LabelImplements ==
    ASSUME TypeOK, NEW r \in Requests, CreateCommit(r) \/ RenameCommit(r), lateRows' = {}
    PROVE  TwoGen!Write
  <1>1. PICK i \in request[r].items :
          /\ \E kind \in {"create", "rename"} : Finish(r, kind)
          /\ Label(r, i)
          /\ rowVersion[i] = Unborn \/ Exists(i)
    BY DEF CreateCommit, RenameCommit
  <1>2. i \in Items /\ rowVersion[i] # Deleted
    BY <1>1 DEF TypeOK, RequestType, Exists, Unborn, Deleted
  <1>3. request[r].version = keyVersion
    BY <1>1 DEF Label
  <1>4. rowVersion' = [j \in Items |-> IF j \in {i} THEN keyVersion ELSE rowVersion[j]]
    BY <1>1, <1>3 DEF Label, TypeOK
  <1> QED
    BY <1>1, <1>2, <1>4, WriteImplements DEF Label

LEMMA BatchImplements ==
    ASSUME NEW r \in Requests, BatchCommit(r), lateRows' = {}
    PROVE  TwoGen!Write
  <1>1. request[r].items = {} \/ request[r].version = keyVersion
    BY DEF BatchCommit
  <1>2. request[r].items \in SUBSET {i \in Items : rowVersion[i] # Deleted}
    BY DEF BatchCommit, Existing, Exists, Deleted
  <1> QED
    BY <1>1, <1>2, WriteImplements DEF BatchCommit

LEMMA DeleteImplements ==
    ASSUME Delete
    PROVE  TwoGen!Remove
  <1>1. PICK i \in Existing, filed \in SUBSET Existing :
          rowVersion' = [j \in Items |-> IF j \in {i} \cup filed THEN Deleted
                                                                 ELSE rowVersion[j]]
    BY DEF Delete
  <1>2. {i} \cup filed \in SUBSET {j \in Items : rowVersion[j] \notin {0, -1}}
    BY DEF Existing, Exists
  <1>3. UNCHANGED <<keyVersion, rotation>>
    BY DEF Delete
  <1> QED
    BY <1>1, <1>2, <1>3 DEF TwoGen!Remove, TwoGen!Absent, Deleted

(* The close finds its rotation running, with nothing outstanding, or       *)
(* changes nothing.                                                         *)
LEMMA CloseImplements ==
    ASSUME IInv, RetiringIsAGeneration, NothingIsLate, NEW r \in Requests, CloseCommit(r)
    PROVE  [TwoGen!AbsNext]_(TwoGen!absVars)
  <1>t. TypeOK
    BY DEF IInv
  <1>1. CASE rotation.running /\ rotation.id = request[r].rotationId
    <2>1. Outstanding(rotation.from) = {}
      BY <1>1 DEF CloseCommit, Finish, IInv, ClosesAreSound, NothingIsLate
    <2>2. ~rotation'.running
      BY <1>1, <1>t DEF CloseCommit, TypeOK
    <2>3. rotation.from # 0
      BY <1>1 DEF RetiringIsAGeneration, NothingIsLate
    <2>4. \A i \in Items : rowVersion[i] # rotation.from
      BY <2>1 DEF Outstanding
    <2> QED
      BY <1>1, <2>2, <2>3, <2>4 DEF CloseCommit, TwoGen!AbsNext, TwoGen!Retire, TwoGen!None
  <1>2. CASE rotation.id # request[r].rotationId
    BY <1>2, StutterImplements DEF CloseCommit
  <1>3. CASE ~rotation.running
    <2>1. ~rotation'.running
      BY <1>3, <1>t DEF CloseCommit, TypeOK
    <2> QED
      BY <1>3, <2>1 DEF CloseCommit, TwoGen!absVars
  <1> QED
    BY <1>1, <1>2, <1>3

LEMMA StepImplements == IInv /\ RetiringIsAGeneration /\ [Next]_vars => OnTimeStep
  <1> SUFFICES ASSUME IInv, RetiringIsAGeneration, [Next]_vars, NothingIsLate, NothingIsLate'
               PROVE  [TwoGen!AbsNext]_(TwoGen!absVars)
    BY DEF OnTimeStep
  <1>0. TypeOK /\ lateRows' = {} /\ ~rewound'
    BY DEF IInv, NothingIsLate
  <1>1. CASE MembershipNext
    BY <1>1, StutterImplements
       DEF MembershipNext, InviteRead, InviteCommit, CompleteRead, CompleteCommit, Seat,
           AcceptRead, AcceptCommit, DeclineRead, DeclineCommit, RevokeRead, RevokeCommit,
           RoleRead, RoleCommit, tables
  <1>2. ASSUME NEW r \in Requests,
               \/ OpenRead(r) \/ BatchRead(r) \/ CloseRead(r) \/ CreateRead(r)
               \/ RenameRead(r) \/ Fail(r)
        PROVE  [TwoGen!AbsNext]_(TwoGen!absVars)
    BY <1>2, StutterImplements
       DEF OpenRead, BatchRead, CloseRead, CreateRead, RenameRead, Fail, tables
  <1>3. ASSUME NEW r \in Requests,
               \/ OpenCommit(r) \/ BatchCommit(r) \/ CreateCommit(r) \/ RenameCommit(r)
        PROVE  [TwoGen!AbsNext]_(TwoGen!absVars)
    BY <1>0, <1>3, OpenImplements, BatchImplements, LabelImplements DEF TwoGen!AbsNext
  <1>4. ASSUME NEW r \in Requests, CloseCommit(r)
        PROVE  [TwoGen!AbsNext]_(TwoGen!absVars)
    BY <1>4, CloseImplements
  <1>5. CASE Delete
    BY <1>5, DeleteImplements DEF TwoGen!AbsNext
  <1>6. CASE UNCHANGED vars
    BY <1>6, StutterImplements DEF vars, tables
  <1> QED
    BY <1>1, <1>2, <1>3, <1>4, <1>5, <1>6 DEF Next, RotationNext

(* Whatever overlaps: as long as no row is labelled, and no rotation opened, *)
(* from an outdated read, the rotation, the row writers and the membership   *)
(* handlers together keep the promise of TwoGenerations.  At most one        *)
(* generation is being retired, and it is destroyed only once no row needs   *)
(* it (rotation.routes.ts:64-272).                                           *)
THEOREM OnTimeRequestsImplement == Spec /\ []NothingIsLate => ImplementsTwoGenerations
  <1>1. Init => TwoGen!AbsInit /\ RetiringIsAGeneration
    BY InitImplements, InitRetiring
  <1>2. IInv /\ RetiringIsAGeneration /\ [Next]_vars => RetiringIsAGeneration'
    BY StepRetiring
  <1>3. IInv /\ RetiringIsAGeneration /\ [Next]_vars /\ NothingIsLate /\ NothingIsLate'
          => [TwoGen!AbsNext]_(TwoGen!absVars)
    BY StepImplements DEF OnTimeStep
  <1>4. Spec => []IInv
    BY InvariantHolds
  <1> QED
    BY <1>1, <1>2, <1>3, <1>4, PTL DEF Spec, ImplementsTwoGenerations, TwoGen!AbsSpec

-----------------------------------------------------------------------------
(* Every row opens for every member.  Rows are labelled with the present   *)
(* generation or with the one that is being retired, and what a member is  *)
(* missing of the two is the older: whoever is seated while a rotation     *)
(* runs is given the newer only, and nothing else takes the older away.    *)

NobodyIsLate == NothingIsLate /\ lateMembers = {}

Joins == \E r \in Requests : InviteCommit(r) \/ CompleteCommit(r)

JoinsBetweenRotations == [][Joins => ~rotation.running]_vars

RetiringKeyIsHeld == rotation.running => \A u \in LiveUsers : rotation.from \in keyWraps[u]

(* The comment of secrets.routes.ts:126-127, of requests that are on time. *)
LEMMA OnTimeRowsAreLive == IInv /\ NothingIsLate => NoRowIsWrittenBehind
  BY DEF IInv, RowsStayOpenable, NothingIsLate, NoRowIsWrittenBehind

LEMMA HeldKeysOpenRows ==
    IInv /\ NobodyIsLate /\ RetiringKeyIsHeld => EveryRowOpensForEveryMember
  <1> SUFFICES ASSUME IInv, NobodyIsLate, RetiringKeyIsHeld,
                      NEW u \in Users, membership[u].status = "active", NEW i \in Existing
               PROVE  rowVersion[i] \in keyWraps[u]
    BY DEF EveryRowOpensForEveryMember
  <1>1. rowVersion[i] \in LiveVersions
    BY OnTimeRowsAreLive DEF NobodyIsLate, NoRowIsWrittenBehind
  <1>2. u \in LiveUsers
    BY DEF LiveUsers, Live
  <1>3. keyVersion \in keyWraps[u]
    BY <1>2 DEF IInv, MembersHoldLiveKeys, NobodyIsLate, NothingIsLate
  <1> QED
    BY <1>1, <1>2, <1>3 DEF LiveVersions, RetiringKeyIsHeld

(* An open retires the generation that every member in its snapshot holds. *)
LEMMA OpenHoldsRetiringKey ==
    ASSUME IInv, NobodyIsLate, NobodyIsLate', NEW r \in Requests, OpenCommit(r)
    PROVE  RetiringKeyIsHeld'
  <1>1. /\ rotation'.from = keyVersion /\ LiveUsers' = LiveUsers
        /\ \A u \in Users : keyWraps[u] \subseteq keyWraps'[u]
    BY DEF OpenCommit, NobodyIsLate, NothingIsLate, IInv, TypeOK, LiveUsers, Live
  <1>2. \A u \in LiveUsers : keyVersion \in keyWraps[u]
    BY DEF IInv, MembersHoldLiveKeys, NobodyIsLate, NothingIsLate
  <1> QED
    BY <1>1, <1>2 DEF RetiringKeyIsHeld, LiveUsers

(* Where the rotation that runs has been running, the key stays with all    *)
(* who stay, and nobody has come.                                           *)
LEMMA SameMembersHoldRetiringKey ==
    ASSUME IInv, NobodyIsLate, NobodyIsLate', RetiringKeyIsHeld, [Next]_vars,
           rotation'.running => rotation' = rotation /\ keyVersion' = keyVersion,
           \A u \in Users : Live(u)' => Live(u) /\ (\/ keyWraps'[u] = keyWraps[u]
                                                   \/ membership'[u] = membership[u])
    PROVE  RetiringKeyIsHeld'
  <1> SUFFICES ASSUME rotation'.running, NEW u \in Users, Live(u)'
               PROVE  rotation'.from \in keyWraps'[u]
    BY DEF RetiringKeyIsHeld, LiveUsers
  <1>1. rotation' = rotation /\ rotation.running /\ u \in LiveUsers
    BY DEF LiveUsers
  <1>2. rotation.from \in keyWraps[u]
    BY <1>1 DEF RetiringKeyIsHeld
  <1>3. CASE keyWraps'[u] = keyWraps[u]
    BY <1>1, <1>2, <1>3
  <1>4. CASE membership'[u] = membership[u]
    <2>1. rotation.from \in LiveVersions \cap LiveVersions'
      BY <1>1 DEF LiveVersions
    <2> QED
      BY <1>1, <1>2, <1>4, <2>1, StepKeepsLiveKeys
      DEF KeepsLiveKeys, NobodyIsLate, NothingIsLate
  <1> QED
    BY <1>3, <1>4

LEMMA StepHoldsRetiringKey ==
    ASSUME IInv, NobodyIsLate, NobodyIsLate', RetiringKeyIsHeld, [Next]_vars,
           Joins => ~rotation.running
    PROVE  RetiringKeyIsHeld'
  <1>t. TypeOK
    BY DEF IInv
  <1>1. ASSUME NEW r \in Requests, OpenCommit(r) PROVE RetiringKeyIsHeld'
    BY <1>1, OpenHoldsRetiringKey
  <1>2. ASSUME Joins PROVE RetiringKeyIsHeld'
    BY <1>2 DEF Joins, InviteCommit, CompleteCommit, Seat, RetiringKeyIsHeld
  <1>3. ASSUME UNCHANGED <<rotation, keyVersion, membership, keyWraps>>
        PROVE  RetiringKeyIsHeld'
    BY <1>3 DEF RetiringKeyIsHeld, LiveUsers, Live
  <1>4. ASSUME NEW r \in Requests, CloseCommit(r) PROVE RetiringKeyIsHeld'
    <2>1. UNCHANGED <<keyVersion, membership>>
      BY <1>4 DEF CloseCommit
    <2>2. rotation'.running => rotation' = rotation
      BY <1>t, <1>4 DEF CloseCommit, TypeOK
    <2> QED
      BY <2>1, <2>2, SameMembersHoldRetiringKey DEF Live
  <1>5. ASSUME NEW r \in Requests, AcceptCommit(r) \/ RoleCommit(r) PROVE RetiringKeyIsHeld'
    <2>1. UNCHANGED <<keyVersion, rotation, keyWraps>>
      BY <1>5 DEF AcceptCommit, RoleCommit
    <2>2. ASSUME NEW u \in Users, Live(u)' PROVE Live(u)
      <3>1. CASE AcceptCommit(r)
        BY <1>t, <2>2, <3>1 DEF AcceptCommit, HasRow, Live, TypeOK, NobodyIsLate
      <3>2. CASE RoleCommit(r)
        BY <1>t, <2>2, <3>2 DEF RoleCommit, Live, TypeOK
      <3> QED
        BY <1>5, <3>1, <3>2
    <2> QED
      BY <2>1, <2>2, SameMembersHoldRetiringKey
  <1>6. ASSUME NEW r \in Requests, DeclineCommit(r) \/ RevokeCommit(r) PROVE RetiringKeyIsHeld'
    <2> PICK u \in Users : u = request[r].subject
      BY <1>t DEF TypeOK, RequestType
    <2>1. membership'[u].status \in {"deleted", "revoked"}
      BY <1>t, <1>6 DEF DeclineCommit, RevokeCommit, NoMembership, TypeOK
    <2>2. UNCHANGED <<keyVersion, rotation>>
      BY <1>6 DEF DeclineCommit, RevokeCommit
    <2>3. \A w \in Users \ {u} : membership'[w] = membership[w]
      BY <1>t, <1>6 DEF DeclineCommit, RevokeCommit, TypeOK
    <2>4. \A w \in Users : Live(w)' => Live(w) /\ membership'[w] = membership[w]
      BY <2>1, <2>3 DEF Live
    <2> QED
      BY <2>2, <2>4, SameMembersHoldRetiringKey
  <1>7. ASSUME NEW r \in Requests,
               \/ InviteRead(r) \/ CompleteRead(r) \/ AcceptRead(r) \/ DeclineRead(r)
               \/ RevokeRead(r) \/ RoleRead(r) \/ Fail(r)
        PROVE  RetiringKeyIsHeld'
    BY <1>3, <1>7 DEF InviteRead, CompleteRead, AcceptRead, DeclineRead, RevokeRead, RoleRead,
                      Fail, tables
  <1>8. ASSUME NEW r \in Requests,
               \/ OpenRead(r) \/ BatchRead(r) \/ BatchCommit(r) \/ CloseRead(r)
               \/ CreateRead(r) \/ CreateCommit(r) \/ RenameRead(r) \/ RenameCommit(r)
        PROVE  RetiringKeyIsHeld'
    BY <1>3, <1>8 DEF OpenRead, BatchRead, BatchCommit, CloseRead, CreateRead, CreateCommit,
                      RenameRead, RenameCommit, Label, tables
  <1>9. ASSUME Delete \/ UNCHANGED vars PROVE RetiringKeyIsHeld'
    BY <1>3, <1>9 DEF Delete, vars, tables
  <1> QED
    BY <1>1, <1>2, <1>4, <1>5, <1>6, <1>7, <1>8, <1>9
    DEF Next, MembershipNext, RotationNext, Joins

(* Where nothing is written from an outdated read and nobody is seated      *)
(* while a rotation runs, every active member can open every row, also in   *)
(* the middle of a rotation: what data-model.md:327-331 promises of all     *)
(* members, for those who came before the rotation or after it.             *)
THEOREM EarlierMembersOpenEveryRow ==
    Spec /\ []NobodyIsLate /\ JoinsBetweenRotations => []EveryRowOpensForEveryMember
  <1>1. Init => RetiringKeyIsHeld
    BY DEF Init, RetiringKeyIsHeld
  <1>2. /\ IInv /\ NobodyIsLate /\ NobodyIsLate' /\ RetiringKeyIsHeld
        /\ [Next]_vars /\ [Joins => ~rotation.running]_vars
        => RetiringKeyIsHeld'
    <2> SUFFICES ASSUME IInv, NobodyIsLate, NobodyIsLate', RetiringKeyIsHeld, [Next]_vars,
                        [Joins => ~rotation.running]_vars
                 PROVE  RetiringKeyIsHeld'
      OBVIOUS
    <2>1. CASE Joins => ~rotation.running
      BY <2>1, StepHoldsRetiringKey
    <2>2. CASE UNCHANGED vars
      BY <2>2 DEF vars, tables, RetiringKeyIsHeld, LiveUsers, Live
    <2> QED
      BY <2>1, <2>2
  <1>3. IInv /\ NobodyIsLate /\ RetiringKeyIsHeld => EveryRowOpensForEveryMember
    BY HeldKeysOpenRows
  <1>4. Spec => []IInv
    BY InvariantHolds
  <1> QED
    BY <1>1, <1>2, <1>3, <1>4, PTL DEF Spec, JoinsBetweenRotations

-----------------------------------------------------------------------------
(* The last owner.  Of the twelve handlers four can take an owner away: an  *)
(* invite that seats a user anew, a decline, a revoke, a change of role.    *)
(* Where no two of these overlap the vault keeps an owner, whatever else is *)
(* in flight: what each of them has read may be outdated, but not so as to  *)
(* count an owner who has gone.                                             *)

OwnerKinds == {"invite", "decline", "revoke", "role"}

OneOwnerChange ==
    \A q, r \in Requests :
        request[q].kind \in OwnerKinds /\ request[r].kind \in OwnerKinds => q = r

(* What request q, if it is of such a kind, can rely on when it commits. *)
Spares(q) ==
    LET u == q.subject
    IN /\ q.kind \in {"invite", "decline"} => OtherOwners(u) # {}
       /\ q.kind \in {"revoke", "role"} => membership[u].status # "none"
       /\ q.kind = "revoke" \/ (q.kind = "role" /\ q.role # "owner") => MayLoseOwner(u)

Spared(r) == Spares(request[r])

OwnersAreSpared == \A r \in Requests : Spared(r)

OwnerInv == TypeOK /\ AnActiveOwnerRemains /\ OwnersAreSpared

LEMMA InitOwner == Init => OwnerInv
  <1> SUFFICES ASSUME Init PROVE OwnerInv
    OBVIOUS
  <1>1. TypeOK
    BY InitTyped
  <1>2. AnActiveOwnerRemains
    BY CreatorAssumption DEF Init, AnActiveOwnerRemains, SomeOwner, IsOwner
  <1>3. OwnersAreSpared
    BY DEF Init, Idle, OwnersAreSpared, Spared, Spares
  <1> QED
    BY <1>1, <1>2, <1>3 DEF OwnerInv

(* Owners stay, and rows keep their roles: what was relied on still holds. *)
LEMMA GrowKeeps ==
    ASSUME OwnerInv,
           \A w \in Users : IsOwner(w) => IsOwner(w)',
           \A w \in Users : membership[w].status # "none" =>
               /\ membership'[w].status # "none"
               /\ membership'[w].role = membership[w].role
    PROVE  /\ AnActiveOwnerRemains'
           /\ \A q \in RequestType : Spares(q) => Spares(q)'
  <1>1. AnActiveOwnerRemains'
    BY DEF OwnerInv, AnActiveOwnerRemains, SomeOwner
  <1>2. ASSUME NEW q \in RequestType, Spares(q) PROVE Spares(q)'
    <2>1. q.subject \in Users
      BY DEF RequestType
    <2>2. OtherOwners(q.subject) \subseteq OtherOwners(q.subject)'
      BY DEF OtherOwners
    <2> QED
      BY <1>2, <2>1, <2>2 DEF Spares, MayLoseOwner
  <1> QED
    BY <1>1, <1>2

(* A request starts, ends or stays while the memberships grow. *)
LEMMA GrowKeepsAll ==
    ASSUME OwnerInv,
           \A w \in Users : IsOwner(w) => IsOwner(w)',
           \A w \in Users : membership[w].status # "none" =>
               /\ membership'[w].status # "none"
               /\ membership'[w].role = membership[w].role,
           NEW r \in Requests,
           \A s \in Requests \ {r} : request'[s] = request[s],
           request'[r] = request[r] \/ Spared(r)'
    PROVE  AnActiveOwnerRemains' /\ OwnersAreSpared'
  <1>1. \A s \in Requests : request[s] \in RequestType /\ Spares(request[s])
    BY DEF OwnerInv, OwnersAreSpared, Spared, TypeOK
  <1>2. AnActiveOwnerRemains' /\ \A q \in RequestType : Spares(q) => Spares(q)'
    BY GrowKeeps
  <1>3. ASSUME NEW s \in Requests, request'[s] = request[s] PROVE Spared(s)'
    <2> DEFINE q == request[s]
    <2>1. q \in RequestType /\ Spares(q)
      BY <1>1
    <2>2. PICK p \in RequestType : p = request[s]
      BY <2>1
    <2>3. p = request[s]' /\ Spares(p)'
      BY <1>1, <1>2, <1>3, <2>2
    <2> QED
      BY <2>3 DEF Spared, Spares
  <1> QED
    BY <1>2, <1>3 DEF OwnersAreSpared

(* The memberships are as they were.                                        *)
LEMMA SameMembership ==
    ASSUME OwnerInv, UNCHANGED membership,
           NEW r \in Requests,
           \A s \in Requests \ {r} : request'[s] = request[s],
           request'[r] = request[r] \/ Spares(request'[r])
    PROVE  AnActiveOwnerRemains' /\ OwnersAreSpared'
  <1>1. \A w \in Users : IsOwner(w)' = IsOwner(w)
    BY DEF IsOwner
  <1>2. Spares(request'[r]) => Spared(r)'
    BY DEF Spared, Spares, MayLoseOwner, OtherOwners, IsOwner
  <1> QED
    BY <1>1, <1>2, GrowKeepsAll

(* Request r, the only one of its kinds, ends and changes u's membership:   *)
(* an owner remains if u was not an owner, stays one, or there is another.  *)
LEMMA OneMembership ==
    ASSUME OwnerInv, OneOwnerChange, NEW r \in Requests, NEW kind \in OwnerKinds,
           Finish(r, kind), NEW u \in Users,
           \A w \in Users \ {u} : membership'[w] = membership[w],
           \/ ~IsOwner(u)
           \/ IsOwner(u)'
           \/ OtherOwners(u) # {}
    PROVE  AnActiveOwnerRemains' /\ OwnersAreSpared'
  <1>1. AnActiveOwnerRemains'
    <2>1. CASE IsOwner(u)'
      BY <2>1 DEF AnActiveOwnerRemains, SomeOwner
    <2>2. CASE ~IsOwner(u) \/ OtherOwners(u) # {}
      <3>1. PICK v \in Users \ {u} : IsOwner(v)
        BY <2>2 DEF OwnerInv, AnActiveOwnerRemains, SomeOwner, OtherOwners
      <3> QED
        BY <3>1 DEF AnActiveOwnerRemains, SomeOwner, IsOwner
    <2> QED
      BY <2>1, <2>2
  <1>2. \A s \in Requests : request'[s] = IF s = r THEN Idle ELSE request[s]
    BY FinishEffect DEF OwnerInv
  <1>3. \A s \in Requests \ {r} : request[s].kind \notin OwnerKinds
    BY DEF Finish, OneOwnerChange
  <1>4. Idle.kind \notin OwnerKinds
    BY DEF Idle, OwnerKinds
  <1>5. \A s \in Requests : request'[s].kind \notin OwnerKinds
    BY <1>2, <1>3, <1>4
  <1>6. OwnersAreSpared'
    BY <1>5 DEF OwnersAreSpared, Spared, Spares, OwnerKinds
  <1> QED
    BY <1>1, <1>6

LEMMA BeginEffect ==
    ASSUME TypeOK, NEW r \in Requests, NEW kind, NEW reads, Begin(r, kind, reads)
    PROVE  /\ request'[r] = reads
           /\ \A s \in Requests \ {r} : request'[s] = request[s]
  BY DEF TypeOK, Begin

(* A handler of the four reads: an owner is spared when it starts.          *)
LEMMA OwnerReadsKeep ==
    ASSUME OwnerInv, NEW r \in Requests,
           InviteRead(r) \/ DeclineRead(r) \/ RevokeRead(r) \/ RoleRead(r)
    PROVE  AnActiveOwnerRemains' /\ OwnersAreSpared'
  <1>t. TypeOK
    BY DEF OwnerInv
  <1>m. UNCHANGED membership
    BY DEF InviteRead, DeclineRead, RevokeRead, RoleRead, tables
  <1>o. \A u \in Users : ~IsOwner(u) => OtherOwners(u) # {}
    BY DEF OwnerInv, AnActiveOwnerRemains, SomeOwner, OtherOwners
  <1>1. CASE InviteRead(r)
    <2>1. PICK u \in Users, role \in Roles :
            /\ membership[u].status \in {"none", "revoked"}
            /\ Begin(r, "invite", [Idle EXCEPT !.kind = "invite", !.subject = u,
                                               !.role = role, !.version = keyVersion])
      BY <1>1 DEF InviteRead
    <2>2. /\ request'[r] = [Idle EXCEPT !.kind = "invite", !.subject = u, !.role = role,
                                    !.version = keyVersion]
          /\ \A s \in Requests \ {r} : request'[s] = request[s]
      BY <1>t, <2>1, BeginEffect
    <2>3. request'[r].kind = "invite" /\ request'[r].subject = u
      BY <2>2 DEF Idle
    <2>4. OtherOwners(u) # {}
      BY <1>o, <2>1 DEF IsOwner
    <2>5. Spares(request'[r])
      BY <2>3, <2>4 DEF Spares
    <2> QED
      BY <1>m, <2>2, <2>5, SameMembership
  <1>2. CASE DeclineRead(r)
    <2>1. PICK u \in Users :
            /\ membership[u].status = "invited"
            /\ Begin(r, "decline", [Idle EXCEPT !.kind = "decline", !.subject = u])
      BY <1>2 DEF DeclineRead
    <2>2. /\ request'[r] = [Idle EXCEPT !.kind = "decline", !.subject = u]
          /\ \A s \in Requests \ {r} : request'[s] = request[s]
      BY <1>t, <2>1, BeginEffect
    <2>3. request'[r].kind = "decline" /\ request'[r].subject = u
      BY <2>2 DEF Idle
    <2>4. OtherOwners(u) # {}
      BY <1>o, <2>1 DEF IsOwner
    <2>5. Spares(request'[r])
      BY <2>3, <2>4 DEF Spares
    <2> QED
      BY <1>m, <2>2, <2>5, SameMembership
  <1>3. CASE RevokeRead(r)
    <2>1. PICK u \in Users :
            /\ Live(u) /\ MayLoseOwner(u)
            /\ Begin(r, "revoke", [Idle EXCEPT !.kind = "revoke", !.subject = u])
      BY <1>3 DEF RevokeRead
    <2>2. /\ request'[r] = [Idle EXCEPT !.kind = "revoke", !.subject = u]
          /\ \A s \in Requests \ {r} : request'[s] = request[s]
      BY <1>t, <2>1, BeginEffect
    <2>3. request'[r].kind = "revoke" /\ request'[r].subject = u
      BY <2>2 DEF Idle
    <2>4. membership[u].status # "none"
      BY <2>1 DEF Live
    <2>5. Spares(request'[r])
      BY <2>1, <2>3, <2>4 DEF Spares
    <2> QED
      BY <1>m, <2>2, <2>5, SameMembership
  <1>4. CASE RoleRead(r)
    <2>1. PICK u \in Users, role \in Roles :
            /\ HasRow(u) /\ (role # "owner" => MayLoseOwner(u))
            /\ Begin(r, "role", [Idle EXCEPT !.kind = "role", !.subject = u, !.role = role])
      BY <1>4 DEF RoleRead
    <2>2. /\ request'[r] = [Idle EXCEPT !.kind = "role", !.subject = u, !.role = role]
          /\ \A s \in Requests \ {r} : request'[s] = request[s]
      BY <1>t, <2>1, BeginEffect
    <2>3. request'[r].kind = "role" /\ request'[r].subject = u /\ request'[r].role = role
      BY <2>2 DEF Idle
    <2>4. membership[u].status # "none"
      BY <2>1 DEF HasRow
    <2>5. Spares(request'[r])
      BY <2>1, <2>3, <2>4 DEF Spares
    <2> QED
      BY <1>m, <2>2, <2>5, SameMembership
  <1> QED
    BY <1>1, <1>2, <1>3, <1>4

(* A handler of the four commits: the owner it may take away is not the last. *)
LEMMA OwnerCommitsKeep ==
    ASSUME OwnerInv, OneOwnerChange, NEW r \in Requests,
           InviteCommit(r) \/ DeclineCommit(r) \/ RevokeCommit(r) \/ RoleCommit(r)
    PROVE  AnActiveOwnerRemains' /\ OwnersAreSpared'
  <1>t. TypeOK /\ Spares(request[r])
    BY DEF OwnerInv, OwnersAreSpared, Spared
  <1> PICK u \in Users : u = request[r].subject
    BY <1>t DEF TypeOK, RequestType
  <1>1. CASE InviteCommit(r)
    <2>1. Finish(r, "invite") /\ request[r].kind = "invite"
      BY <1>1 DEF InviteCommit, Seat, Finish
    <2>2. \A w \in Users \ {u} : membership'[w] = membership[w]
      BY <1>1, <1>t DEF InviteCommit, Seat, TypeOK
    <2> QED
      BY <1>t, <2>1, <2>2, OneMembership DEF Spares, OwnerKinds
  <1>2. CASE DeclineCommit(r)
    <2>1. Finish(r, "decline") /\ request[r].kind = "decline"
      BY <1>2 DEF DeclineCommit, Finish
    <2>2. \A w \in Users \ {u} : membership'[w] = membership[w]
      BY <1>2, <1>t DEF DeclineCommit, TypeOK
    <2> QED
      BY <1>t, <2>1, <2>2, OneMembership DEF Spares, OwnerKinds
  <1>3. CASE RevokeCommit(r)
    <2>1. Finish(r, "revoke") /\ request[r].kind = "revoke"
      BY <1>3 DEF RevokeCommit, Finish
    <2>2. \A w \in Users \ {u} : membership'[w] = membership[w]
      BY <1>3, <1>t DEF RevokeCommit, TypeOK
    <2> QED
      BY <1>t, <2>1, <2>2, OneMembership DEF Spares, MayLoseOwner, IsOwner, OwnerKinds
  <1>4. CASE RoleCommit(r)
    <2>1. Finish(r, "role") /\ request[r].kind = "role"
      BY <1>4 DEF RoleCommit, Finish
    <2>2. /\ \A w \in Users \ {u} : membership'[w] = membership[w]
          /\ membership'[u].status = membership[u].status
          /\ membership'[u].role = request[r].role
      BY <1>4, <1>t DEF RoleCommit, TypeOK
    <2>3. CASE request[r].role = "owner"
      BY <2>1, <2>2, <2>3, OneMembership DEF IsOwner, OwnerKinds
    <2>4. CASE request[r].role # "owner"
      BY <1>t, <2>1, <2>2, <2>4, OneMembership DEF Spares, MayLoseOwner, IsOwner, OwnerKinds
    <2> QED
      BY <2>3, <2>4
  <1> QED
    BY <1>1, <1>2, <1>3, <1>4

(* The handlers that overlap freely: they take no owner away.               *)
LEMMA AcceptKeepsOwner ==
    ASSUME OwnerInv, NEW r \in Requests, AcceptCommit(r) \/ CompleteCommit(r)
    PROVE  AnActiveOwnerRemains' /\ OwnersAreSpared'
  <1>t. TypeOK
    BY DEF OwnerInv
  <1> PICK u \in Users : u = request[r].subject
    BY <1>t DEF TypeOK, RequestType
  <1>1. CASE AcceptCommit(r)
    <2>1. /\ \A w \in Users \ {u} : membership'[w] = membership[w]
          /\ membership'[u].status = "active" /\ membership'[u].role = membership[u].role
          /\ \A s \in Requests : request'[s] = IF s = r THEN Idle ELSE request[s]
      BY <1>1, <1>t, FinishEffect DEF AcceptCommit, TypeOK
    <2>2. Spared(r)'
      BY <2>1 DEF Spared, Spares, Idle
    <2>3. \A w \in Users : IsOwner(w) => IsOwner(w)'
      BY <2>1 DEF IsOwner
    <2> QED
      BY <2>1, <2>2, <2>3, GrowKeepsAll
  <1>2. CASE CompleteCommit(r)
    <2>1. /\ \A w \in Users \ {u} : membership'[w] = membership[w]
          /\ membership[u].status = "none"
          /\ \A s \in Requests : request'[s] = IF s = r THEN Idle ELSE request[s]
      BY <1>2, <1>t, FinishEffect DEF CompleteCommit, Seat, TypeOK
    <2>2. Spared(r)'
      BY <2>1 DEF Spared, Spares, Idle
    <2>3. \A w \in Users : IsOwner(w) => IsOwner(w)'
      BY <2>1 DEF IsOwner
    <2> QED
      BY <2>1, <2>2, <2>3, GrowKeepsAll
  <1> QED
    BY <1>1, <1>2

LEMMA OthersKeepOwner ==
    ASSUME OwnerInv, NEW r \in Requests,
           \/ CompleteRead(r) \/ AcceptRead(r) \/ OpenRead(r) \/ BatchRead(r) \/ CloseRead(r)
           \/ CreateRead(r) \/ RenameRead(r) \/ OpenCommit(r) \/ BatchCommit(r)
           \/ CloseCommit(r) \/ CreateCommit(r) \/ RenameCommit(r) \/ Fail(r)
    PROVE  AnActiveOwnerRemains' /\ OwnersAreSpared'
  <1>t. TypeOK
    BY DEF OwnerInv
  <1>m. UNCHANGED membership
    BY DEF CompleteRead, AcceptRead, OpenRead, BatchRead, CloseRead, CreateRead, RenameRead,
           OpenCommit, BatchCommit, CloseCommit, CreateCommit, RenameCommit, Label, Fail, tables
  <1>1. ASSUME NEW kind, NEW reads, Begin(r, kind, reads), reads.kind \notin OwnerKinds
        PROVE  AnActiveOwnerRemains' /\ OwnersAreSpared'
    BY <1>t, <1>m, <1>1, BeginEffect, SameMembership DEF Spares, OwnerKinds
  <1>2. ASSUME NEW kind, Finish(r, kind)
        PROVE  AnActiveOwnerRemains' /\ OwnersAreSpared'
    BY <1>t, <1>m, <1>2, FinishEffect, SameMembership DEF Spares, Idle
  <1>3. CASE CompleteRead(r) \/ AcceptRead(r)
    BY <1>1, <1>3 DEF CompleteRead, AcceptRead, Idle, OwnerKinds
  <1>4. CASE OpenRead(r) \/ CloseRead(r)
    BY <1>1, <1>4 DEF OpenRead, CloseRead, Idle, OwnerKinds
  <1>5. CASE BatchRead(r)
    BY <1>1, <1>5 DEF BatchRead, Idle, OwnerKinds
  <1>6. CASE CreateRead(r) \/ RenameRead(r)
    BY <1>1, <1>6 DEF CreateRead, RenameRead, Idle, OwnerKinds
  <1>7. CASE OpenCommit(r) \/ BatchCommit(r) \/ CloseCommit(r)
    BY <1>2, <1>7 DEF OpenCommit, BatchCommit, CloseCommit
  <1>8. CASE CreateCommit(r) \/ RenameCommit(r)
    BY <1>2, <1>8 DEF CreateCommit, RenameCommit
  <1>9. CASE Fail(r)
    <2>1. \A s \in Requests : request'[s] = IF s = r THEN Idle ELSE request[s]
      BY <1>t, <1>9 DEF Fail, TypeOK
    <2> QED
      BY <1>m, <2>1, SameMembership DEF Spares, Idle
  <1> QED
    BY <1>3, <1>4, <1>5, <1>6, <1>7, <1>8, <1>9

LEMMA StepOwner == OwnerInv /\ OneOwnerChange /\ [Next]_vars => OwnerInv'
  <1> SUFFICES ASSUME OwnerInv, OneOwnerChange, [Next]_vars PROVE OwnerInv'
    OBVIOUS
  <1>0. TypeOK'
    BY StepTyped DEF OwnerInv
  <1>1. CASE MembershipNext
    BY <1>0, <1>1, OwnerReadsKeep, OwnerCommitsKeep, AcceptKeepsOwner, OthersKeepOwner
       DEF MembershipNext, OwnerInv
  <1>2. CASE RotationNext
    BY <1>0, <1>2, OthersKeepOwner DEF RotationNext, OwnerInv
  <1>3. ASSUME NEW r \in Requests, Fail(r) PROVE OwnerInv'
    BY <1>0, <1>3, OthersKeepOwner DEF OwnerInv
  <1>4. CASE Delete \/ UNCHANGED vars
    <2>1. UNCHANGED <<membership, request>>
      BY <1>4 DEF Delete, vars, tables
    <2>2. AnActiveOwnerRemains' /\ OwnersAreSpared'
      BY <2>1 DEF OwnerInv, AnActiveOwnerRemains, SomeOwner, IsOwner, OwnersAreSpared, Spared,
                  Spares, MayLoseOwner, OtherOwners
    <2> QED
      BY <1>0, <2>2 DEF OwnerInv
  <1> QED
    BY <1>1, <1>2, <1>3, <1>4 DEF Next

(* Where no two of invite, decline, revoke and change of role overlap, the   *)
(* vault keeps an active owner, whatever else is in flight and however many  *)
(* requests there are (vaults.routes.ts:29-40, revoke.ts:22-61).             *)
THEOREM SeparateChangesKeepAnOwner == Spec /\ []OneOwnerChange => []AnActiveOwnerRemains
  <1>1. Init => OwnerInv
    BY InitOwner
  <1>2. OwnerInv /\ OneOwnerChange /\ [Next]_vars => OwnerInv'
    BY StepOwner
  <1>3. OwnerInv => AnActiveOwnerRemains
    BY DEF OwnerInv
  <1> QED
    BY <1>1, <1>2, <1>3, PTL DEF Spec

-----------------------------------------------------------------------------
(* The keys of the revoked.  Only an open gives a key to a membership that  *)
(* is there already: a revoked member it gives one was in its snapshot, and *)
(* becomes late.  Everything else seats, strips or takes keys away.         *)

LEMMA ReadsGiveNoKey ==
    ASSUME NEW r \in Requests,
           \/ InviteRead(r) \/ CompleteRead(r) \/ AcceptRead(r) \/ DeclineRead(r)
           \/ RevokeRead(r) \/ RoleRead(r) \/ OpenRead(r) \/ BatchRead(r)
           \/ CloseRead(r) \/ CreateRead(r) \/ RenameRead(r) \/ Fail(r)
    PROVE  UNCHANGED <<membership, keyWraps, lateMembers>>
  BY DEF InviteRead, CompleteRead, AcceptRead, DeclineRead, RevokeRead, RoleRead, OpenRead,
         BatchRead, CloseRead, CreateRead, RenameRead, Fail, tables, history

LEMMA CommitsStripOrDisclose ==
    ASSUME TypeOK, RevokedHoldNoKey, NEW r \in Requests,
           \/ InviteCommit(r) \/ CompleteCommit(r) \/ AcceptCommit(r) \/ DeclineCommit(r)
           \/ RevokeCommit(r) \/ RoleCommit(r) \/ OpenCommit(r) \/ BatchCommit(r)
           \/ CloseCommit(r) \/ CreateCommit(r) \/ RenameCommit(r)
    PROVE  RevokedHoldNoKey'
  <1> SUFFICES ASSUME NEW u \in Users, u \notin lateMembers', membership'[u].status = "revoked"
               PROVE  keyWraps'[u] = {}
    BY DEF RevokedHoldNoKey
  <1>0. ASSUME u \notin lateMembers, membership[u].status = "revoked",
               keyWraps'[u] \subseteq keyWraps[u]
        PROVE  keyWraps'[u] = {}
    BY <1>0 DEF RevokedHoldNoKey
  <1> PICK m \in Users : m = request[r].subject
    BY DEF TypeOK, RequestType
  <1>1. CASE InviteCommit(r) \/ CompleteCommit(r)
    <2>1. PICK kind : Seat(r, kind)
      BY <1>1 DEF InviteCommit, CompleteCommit
    <2> QED
      BY <1>0, <2>1 DEF Seat, TypeOK
  <1>2. CASE AcceptCommit(r)
    BY <1>0, <1>2 DEF AcceptCommit, TypeOK
  <1>3. CASE DeclineCommit(r)
    BY <1>0, <1>3 DEF DeclineCommit, TypeOK, NoMembership
  <1>4. CASE RevokeCommit(r)
    <2>1. CASE u = m
      BY <1>4, <2>1 DEF RevokeCommit, TypeOK
    <2>2. CASE u # m
      BY <1>0, <1>4, <2>2 DEF RevokeCommit, TypeOK
    <2> QED
      BY <2>1, <2>2
  <1>5. CASE RoleCommit(r)
    BY <1>0, <1>5 DEF RoleCommit, TypeOK, history
  <1>6. CASE OpenCommit(r)
    <2>1. u \notin request[r].members /\ u \notin lateMembers
      BY <1>6 DEF OpenCommit
    <2> QED
      BY <1>0, <1>6, <2>1 DEF OpenCommit
  <1>7. CASE CloseCommit(r)
    BY <1>0, <1>7 DEF CloseCommit, history
  <1>8. CASE BatchCommit(r) \/ CreateCommit(r) \/ RenameCommit(r)
    BY <1>0, <1>8 DEF BatchCommit, CreateCommit, RenameCommit, Label
  <1> QED
    BY <1>1, <1>2, <1>3, <1>4, <1>5, <1>6, <1>7, <1>8

LEMMA StepStripOrDisclose == TypeOK /\ RevokedHoldNoKey /\ [Next]_vars => RevokedHoldNoKey'
  <1> SUFFICES ASSUME TypeOK, RevokedHoldNoKey, [Next]_vars PROVE RevokedHoldNoKey'
    OBVIOUS
  <1>0. UNCHANGED <<membership, keyWraps, lateMembers>> => RevokedHoldNoKey'
    BY DEF RevokedHoldNoKey
  <1>1. CASE MembershipNext
    BY <1>0, <1>1, ReadsGiveNoKey, CommitsStripOrDisclose DEF MembershipNext
  <1>2. CASE RotationNext
    BY <1>0, <1>2, ReadsGiveNoKey, CommitsStripOrDisclose DEF RotationNext
  <1>3. ASSUME NEW r \in Requests, Fail(r) PROVE RevokedHoldNoKey'
    BY <1>0, <1>3, ReadsGiveNoKey
  <1>4. CASE Delete \/ UNCHANGED vars
    BY <1>0, <1>4 DEF Delete, vars, tables, history
  <1> QED
    BY <1>1, <1>2, <1>3, <1>4 DEF Next

(* Whatever requests overlap, a revoked member holds no wrap, except one     *)
(* whom an open that had read the members before the revoke then gave a     *)
(* wrap (revoke.ts:22-61, rotation.routes.ts:91-141).                       *)
THEOREM RevokedAreStripped == Spec => []RevokedHoldNoKey
  <1>1. Init => RevokedHoldNoKey
    BY DEF Init, RevokedHoldNoKey, NoMembership
  <1>2. TypeOK /\ RevokedHoldNoKey /\ [Next]_vars => RevokedHoldNoKey'
    BY StepStripOrDisclose
  <1> QED
    BY <1>1, <1>2, TypeCorrect, PTL DEF Spec

-----------------------------------------------------------------------------
(* Without the exception: where no revoke overlaps the opening of a         *)
(* rotation no member of a snapshot is revoked when it commits.             *)

OpensApartFromRevokes ==
    \A q, r \in Requests : ~(request[q].kind = "open" /\ request[r].kind = "revoke")

Revoked(u) == membership[u].status = "revoked"

OpensPassOver(q) == q.kind = "open" => \A u \in q.members : ~Revoked(u)

OpensPassOverRevoked == \A r \in Requests : OpensPassOver(request[r])

StripInv == TypeOK /\ RevokedHoldNothing /\ OpensPassOverRevoked

LEMMA InitStrip == Init => StripInv
  <1> SUFFICES ASSUME Init PROVE StripInv
    OBVIOUS
  <1>1. TypeOK
    BY InitTyped
  <1>2. RevokedHoldNothing
    BY DEF Init, RevokedHoldNothing, NoMembership
  <1>3. OpensPassOverRevoked
    BY DEF Init, Idle, OpensPassOverRevoked, OpensPassOver
  <1> QED
    BY <1>1, <1>2, <1>3 DEF StripInv

(* Nobody is revoked, and no open starts but for who is not revoked.        *)
LEMMA NobodyRevoked ==
    ASSUME StripInv, \A u \in Users : Revoked(u)' => Revoked(u),
           \A u \in Users : Revoked(u)' => keyWraps'[u] \subseteq keyWraps[u],
           NEW r \in Requests,
           \A s \in Requests \ {r} : request'[s] = request[s],
           \/ request'[r] = request[r]
           \/ request'[r].kind # "open"
           \/ \A u \in request'[r].members : ~Revoked(u)'
    PROVE  RevokedHoldNothing' /\ OpensPassOverRevoked'
  <1>1. RevokedHoldNothing'
    BY DEF StripInv, RevokedHoldNothing, Revoked
  <1>2. \A s \in Requests : request[s].members \subseteq Users
    BY DEF StripInv, TypeOK, RequestType
  <1>3. OpensPassOverRevoked'
    BY <1>2 DEF StripInv, OpensPassOverRevoked, OpensPassOver
  <1> QED
    BY <1>1, <1>3

LEMMA ReadsStrip ==
    ASSUME StripInv, NEW r \in Requests,
           \/ InviteRead(r) \/ CompleteRead(r) \/ AcceptRead(r) \/ DeclineRead(r)
           \/ RevokeRead(r) \/ RoleRead(r) \/ OpenRead(r) \/ BatchRead(r)
           \/ CloseRead(r) \/ CreateRead(r) \/ RenameRead(r) \/ Fail(r)
    PROVE  RevokedHoldNothing' /\ OpensPassOverRevoked'
  <1>t. TypeOK
    BY DEF StripInv
  <1>m. UNCHANGED <<membership, keyWraps>>
    BY DEF InviteRead, CompleteRead, AcceptRead, DeclineRead, RevokeRead, RoleRead, OpenRead,
           BatchRead, CloseRead, CreateRead, RenameRead, Fail, tables
  <1>1. ASSUME NEW kind, NEW reads, Begin(r, kind, reads),
               \/ reads.kind # "open"
               \/ \A u \in reads.members : ~Revoked(u)
        PROVE  RevokedHoldNothing' /\ OpensPassOverRevoked'
    BY <1>t, <1>m, <1>1, BeginEffect, NobodyRevoked DEF Revoked
  <1>2. CASE InviteRead(r) \/ CompleteRead(r)
    BY <1>1, <1>2 DEF InviteRead, CompleteRead, Idle
  <1>3. CASE AcceptRead(r) \/ DeclineRead(r)
    BY <1>1, <1>3 DEF AcceptRead, DeclineRead, Idle
  <1>4. CASE RevokeRead(r) \/ RoleRead(r)
    BY <1>1, <1>4 DEF RevokeRead, RoleRead, Idle
  <1>5. CASE OpenRead(r)
    <2> DEFINE reads == [Idle EXCEPT !.kind = "open", !.version = keyVersion,
                                     !.members = LiveUsers]
    <2>1. Begin(r, "open", reads)
      BY <1>5 DEF OpenRead
    <2>2. \A u \in reads.members : ~Revoked(u)
      BY DEF Idle, LiveUsers, Live, Revoked
    <2> HIDE DEF reads
    <2> QED
      BY <1>1, <2>1, <2>2
  <1>6. CASE BatchRead(r)
    BY <1>1, <1>6 DEF BatchRead, Idle
  <1>7. CASE CloseRead(r)
    BY <1>1, <1>7 DEF CloseRead, Idle
  <1>8. CASE CreateRead(r) \/ RenameRead(r)
    BY <1>1, <1>8 DEF CreateRead, RenameRead, Idle
  <1>9. CASE Fail(r)
    <2>1. \A s \in Requests : request'[s] = IF s = r THEN Idle ELSE request[s]
      BY <1>t, <1>9 DEF Fail, TypeOK
    <2>2. Idle.kind # "open"
      BY DEF Idle
    <2> QED
      BY <1>m, <2>1, <2>2, NobodyRevoked DEF Revoked
  <1> QED
    BY <1>2, <1>3, <1>4, <1>5, <1>6, <1>7, <1>8, <1>9

LEMMA CommitsStrip ==
    ASSUME StripInv, OpensApartFromRevokes, NEW r \in Requests,
           \/ InviteCommit(r) \/ CompleteCommit(r) \/ AcceptCommit(r) \/ DeclineCommit(r)
           \/ RevokeCommit(r) \/ RoleCommit(r) \/ OpenCommit(r) \/ BatchCommit(r)
           \/ CloseCommit(r) \/ CreateCommit(r) \/ RenameCommit(r)
    PROVE  RevokedHoldNothing' /\ OpensPassOverRevoked'
  <1>t. TypeOK
    BY DEF StripInv
  <1>i. Idle.kind # "open"
    BY DEF Idle
  <1>0. ASSUME NEW kind, Finish(r, kind),
               \A u \in Users : Revoked(u)' => Revoked(u) /\ keyWraps'[u] \subseteq keyWraps[u]
        PROVE  RevokedHoldNothing' /\ OpensPassOverRevoked'
    BY <1>t, <1>i, <1>0, FinishEffect, NobodyRevoked
  <1> PICK m \in Users : m = request[r].subject
    BY <1>t DEF TypeOK, RequestType
  <1>1. CASE InviteCommit(r) \/ CompleteCommit(r)
    <2>1. PICK kind : Seat(r, kind)
      BY <1>1 DEF InviteCommit, CompleteCommit
    <2>2. \A u \in Users : Revoked(u)' => Revoked(u) /\ keyWraps'[u] \subseteq keyWraps[u]
      BY <1>t, <2>1 DEF Seat, TypeOK, Revoked
    <2> QED
      BY <1>0, <2>1, <2>2 DEF Seat
  <1>2. CASE AcceptCommit(r)
    <2>1. \A u \in Users : Revoked(u)' => Revoked(u) /\ keyWraps'[u] \subseteq keyWraps[u]
      BY <1>t, <1>2 DEF AcceptCommit, TypeOK, Revoked
    <2> QED
      BY <1>0, <1>2, <2>1 DEF AcceptCommit
  <1>3. CASE DeclineCommit(r)
    <2>1. \A u \in Users : Revoked(u)' => Revoked(u) /\ keyWraps'[u] \subseteq keyWraps[u]
      BY <1>t, <1>3 DEF DeclineCommit, TypeOK, Revoked, NoMembership
    <2> QED
      BY <1>0, <1>3, <2>1 DEF DeclineCommit
  <1>4. CASE RevokeCommit(r)
    <2>1. /\ \A u \in Users \ {m} : /\ membership'[u] = membership[u]
                                    /\ keyWraps'[u] = keyWraps[u]
          /\ keyWraps'[m] = {}
      BY <1>t, <1>4 DEF RevokeCommit, TypeOK
    <2>2. RevokedHoldNothing'
      BY <2>1 DEF StripInv, RevokedHoldNothing
    <2>3. \A s \in Requests : request'[s] = IF s = r THEN Idle ELSE request[s]
      BY <1>t, <1>4, FinishEffect DEF RevokeCommit
    <2>4. \A s \in Requests : request[s].kind # "open"
      BY <1>4 DEF RevokeCommit, Finish, OpensApartFromRevokes
    <2> QED
      BY <1>i, <2>2, <2>3, <2>4 DEF OpensPassOverRevoked, OpensPassOver
  <1>5. CASE RoleCommit(r)
    <2>1. \A u \in Users : Revoked(u)' => Revoked(u) /\ keyWraps'[u] \subseteq keyWraps[u]
      BY <1>t, <1>5 DEF RoleCommit, TypeOK, Revoked
    <2> QED
      BY <1>0, <1>5, <2>1 DEF RoleCommit
  <1>6. CASE OpenCommit(r)
    <2>1. \A u \in request[r].members : ~Revoked(u)
      BY <1>6 DEF OpenCommit, Finish, StripInv, OpensPassOverRevoked, OpensPassOver
    <2>2. \A u \in Users : Revoked(u)' => Revoked(u) /\ keyWraps'[u] \subseteq keyWraps[u]
      BY <1>t, <1>6, <2>1 DEF OpenCommit, TypeOK, Revoked
    <2> QED
      BY <1>0, <1>6, <2>2 DEF OpenCommit
  <1>7. CASE BatchCommit(r)
    BY <1>0, <1>7 DEF BatchCommit, Revoked
  <1>8. CASE CloseCommit(r)
    <2>1. \A u \in Users : Revoked(u)' => Revoked(u) /\ keyWraps'[u] \subseteq keyWraps[u]
      BY <1>8 DEF CloseCommit, Revoked
    <2> QED
      BY <1>0, <1>8, <2>1 DEF CloseCommit
  <1>9. CASE CreateCommit(r) \/ RenameCommit(r)
    BY <1>0, <1>9 DEF CreateCommit, RenameCommit, Label, Revoked
  <1> QED
    BY <1>1, <1>2, <1>3, <1>4, <1>5, <1>6, <1>7, <1>8, <1>9

LEMMA StepStrip == StripInv /\ OpensApartFromRevokes /\ [Next]_vars => StripInv'
  <1> SUFFICES ASSUME StripInv, OpensApartFromRevokes, [Next]_vars PROVE StripInv'
    OBVIOUS
  <1>0. TypeOK'
    BY StepTyped DEF StripInv
  <1>1. CASE MembershipNext
    BY <1>0, <1>1, ReadsStrip, CommitsStrip DEF MembershipNext, StripInv
  <1>2. CASE RotationNext
    BY <1>0, <1>2, ReadsStrip, CommitsStrip DEF RotationNext, StripInv
  <1>3. ASSUME NEW r \in Requests, Fail(r) PROVE StripInv'
    BY <1>0, <1>3, ReadsStrip DEF StripInv
  <1>4. CASE Delete \/ UNCHANGED vars
    <2>1. UNCHANGED <<membership, keyWraps, request>>
      BY <1>4 DEF Delete, vars, tables
    <2>2. RevokedHoldNothing' /\ OpensPassOverRevoked'
      BY <2>1 DEF StripInv, RevokedHoldNothing, OpensPassOverRevoked, OpensPassOver, Revoked
    <2> QED
      BY <1>0, <2>2 DEF StripInv
  <1> QED
    BY <1>1, <1>2, <1>3, <1>4 DEF Next

(* Where no revoke overlaps the opening of a rotation, a revoked member      *)
(* never holds a wrap again, whatever invitations, acceptances, opens and    *)
(* closes are in flight (revoke.ts:22-61, rotation.routes.ts:109-141).       *)
THEOREM SeparateOpensStripRevoked == Spec /\ []OpensApartFromRevokes => []RevokedHoldNothing
  <1>1. Init => StripInv
    BY InitStrip
  <1>2. StripInv /\ OpensApartFromRevokes /\ [Next]_vars => StripInv'
    BY StepStrip
  <1>3. StripInv => RevokedHoldNothing
    BY DEF StripInv
  <1> QED
    BY <1>1, <1>2, <1>3, PTL DEF Spec

-----------------------------------------------------------------------------
(* The vault that serves one request at a time: nothing a handler has read  *)
(* is outdated when it commits, and the three conditions above hold.        *)

OneAtATime == \A q, r \in Requests : q = r

(* The generation that the request in flight has read is still the vault's. *)
VersionsAreCurrent ==
    \A r \in Requests :
        request[r].kind \in {"open", "batch", "create", "rename"}
            => request[r].version = keyVersion

SoloInv == TypeOK /\ VersionsAgree /\ VersionsAreCurrent /\ NothingIsLate

LEMMA InitSolo == Init => SoloInv
  <1> SUFFICES ASSUME Init PROVE SoloInv
    OBVIOUS
  <1>1. TypeOK /\ VersionsAgree
    BY InitIInv DEF IInv
  <1>2. VersionsAreCurrent
    BY DEF Init, Idle, VersionsAreCurrent
  <1>3. NothingIsLate
    BY DEF Init, NothingIsLate
  <1> QED
    BY <1>1, <1>2, <1>3 DEF SoloInv

(* The only request there is has ended. *)
LEMMA NobodyReads ==
    ASSUME OneAtATime, TypeOK, NEW r \in Requests, NEW kind, Finish(r, kind)
    PROVE  VersionsAreCurrent'
  <1>1. \A q \in Requests : request'[q] = Idle
    BY FinishEffect DEF OneAtATime
  <1> QED
    BY <1>1 DEF VersionsAreCurrent, Idle

LEMMA SoloReadsKeep ==
    ASSUME OneAtATime, SoloInv, NEW r \in Requests,
           \/ InviteRead(r) \/ CompleteRead(r) \/ AcceptRead(r) \/ DeclineRead(r)
           \/ RevokeRead(r) \/ RoleRead(r) \/ OpenRead(r) \/ BatchRead(r)
           \/ CloseRead(r) \/ CreateRead(r) \/ RenameRead(r) \/ Fail(r)
    PROVE  VersionsAreCurrent' /\ NothingIsLate'
  <1>0. UNCHANGED <<keyVersion, lateRows, rewound>> /\ \A q \in Requests : q = r
    BY DEF InviteRead, CompleteRead, AcceptRead, DeclineRead, RevokeRead, RoleRead, OpenRead,
           BatchRead, CloseRead, CreateRead, RenameRead, Fail, tables, history, OneAtATime
  <1>t. TypeOK
    BY DEF SoloInv
  <1>1. NothingIsLate'
    BY <1>0 DEF SoloInv, NothingIsLate
  <1>2. ASSUME NEW kind, NEW reads, Begin(r, kind, reads),
               \/ reads.kind \notin {"open", "batch", "create", "rename"}
               \/ reads.version = keyVersion
        PROVE  VersionsAreCurrent'
    BY <1>0, <1>t, <1>2, BeginEffect DEF VersionsAreCurrent
  <1>3. CASE InviteRead(r) \/ CompleteRead(r)
    BY <1>1, <1>2, <1>3 DEF InviteRead, CompleteRead, Idle
  <1>4. CASE AcceptRead(r) \/ DeclineRead(r)
    BY <1>1, <1>2, <1>4 DEF AcceptRead, DeclineRead, Idle
  <1>5. CASE RevokeRead(r) \/ RoleRead(r)
    BY <1>1, <1>2, <1>5 DEF RevokeRead, RoleRead, Idle
  <1>6. CASE OpenRead(r)
    BY <1>1, <1>2, <1>6 DEF OpenRead, Idle
  <1>7. CASE BatchRead(r)
    BY <1>1, <1>2, <1>7 DEF BatchRead, Idle, SoloInv, VersionsAgree
  <1>8. CASE CloseRead(r)
    BY <1>1, <1>2, <1>8 DEF CloseRead, Idle
  <1>9. CASE CreateRead(r) \/ RenameRead(r)
    BY <1>1, <1>2, <1>9 DEF CreateRead, RenameRead, Idle
  <1>10. CASE Fail(r)
    <2>1. request'[r].kind = "idle"
      BY <1>t, <1>10 DEF Fail, TypeOK, Idle
    <2> QED
      BY <1>0, <1>1, <2>1 DEF VersionsAreCurrent
  <1> QED
    BY <1>3, <1>4, <1>5, <1>6, <1>7, <1>8, <1>9, <1>10

LEMMA SoloCommitsKeep ==
    ASSUME OneAtATime, SoloInv, NEW r \in Requests,
           \/ InviteCommit(r) \/ CompleteCommit(r) \/ AcceptCommit(r) \/ DeclineCommit(r)
           \/ RevokeCommit(r) \/ RoleCommit(r) \/ OpenCommit(r) \/ BatchCommit(r)
           \/ CloseCommit(r) \/ CreateCommit(r) \/ RenameCommit(r)
    PROVE  VersionsAreCurrent' /\ NothingIsLate'
  <1>t. TypeOK
    BY DEF SoloInv
  <1>1. CASE \/ InviteCommit(r) \/ CompleteCommit(r) \/ AcceptCommit(r) \/ DeclineCommit(r)
             \/ RevokeCommit(r) \/ RoleCommit(r) \/ CloseCommit(r)
    <2>1. UNCHANGED <<lateRows, rewound>> /\ \E kind : Finish(r, kind)
      BY <1>1 DEF InviteCommit, CompleteCommit, Seat, AcceptCommit, DeclineCommit, RevokeCommit,
                  RoleCommit, CloseCommit, history
    <2> QED
      BY <1>t, <2>1, NobodyReads DEF SoloInv, NothingIsLate
  <1>2. CASE OpenCommit(r)
    <2>1. request[r].version = keyVersion /\ Finish(r, "open")
      BY <1>2 DEF OpenCommit, Finish, SoloInv, VersionsAreCurrent
    <2>2. NothingIsLate'
      BY <1>2, <2>1 DEF SoloInv, OpenCommit, NothingIsLate
    <2> QED
      BY <1>t, <2>1, <2>2, NobodyReads
  <1>3. CASE BatchCommit(r)
    <2>1. request[r].version = keyVersion /\ Finish(r, "batch")
      BY <1>3 DEF BatchCommit, Finish, SoloInv, VersionsAreCurrent
    <2>2. NothingIsLate'
      BY <1>3, <2>1 DEF SoloInv, BatchCommit, NothingIsLate
    <2> QED
      BY <1>t, <2>1, <2>2, NobodyReads
  <1>4. CASE CreateCommit(r) \/ RenameCommit(r)
    <2>1. PICK i \in request[r].items :
            /\ Label(r, i)
            /\ Finish(r, "create") \/ Finish(r, "rename")
      BY <1>4 DEF CreateCommit, RenameCommit
    <2>2. request[r].version = keyVersion
      BY <2>1 DEF Finish, SoloInv, VersionsAreCurrent
    <2>3. NothingIsLate'
      BY <2>1, <2>2 DEF SoloInv, Label, NothingIsLate
    <2> QED
      BY <1>t, <2>1, <2>3, NobodyReads
  <1> QED
    BY <1>1, <1>2, <1>3, <1>4

LEMMA StepSolo == OneAtATime /\ IInv' /\ SoloInv /\ [Next]_vars => SoloInv'
  <1> SUFFICES ASSUME OneAtATime, IInv', SoloInv, [Next]_vars PROVE SoloInv'
    OBVIOUS
  <1>0. TypeOK' /\ VersionsAgree'
    BY DEF IInv
  <1>1. CASE MembershipNext
    BY <1>0, <1>1, SoloReadsKeep, SoloCommitsKeep DEF MembershipNext, SoloInv
  <1>2. CASE RotationNext
    BY <1>0, <1>2, SoloReadsKeep, SoloCommitsKeep DEF RotationNext, SoloInv
  <1>3. ASSUME NEW r \in Requests, Fail(r) PROVE SoloInv'
    BY <1>0, <1>3, SoloReadsKeep DEF SoloInv
  <1>4. CASE Delete \/ UNCHANGED vars
    <2>1. UNCHANGED <<keyVersion, request, rewound>> /\ lateRows' \subseteq lateRows
      BY <1>4 DEF Delete, vars, tables, history
    <2> QED
      BY <1>0, <2>1 DEF SoloInv, VersionsAreCurrent, NothingIsLate
  <1> QED
    BY <1>1, <1>2, <1>3, <1>4 DEF Next

(* When requests are served one at a time the vault's handlers implement    *)
(* TwoGenerations (rotation.routes.ts:64-272).                              *)
THEOREM ServedOneAtATimeImplements == ASSUME OneAtATime PROVE Spec => ImplementsTwoGenerations
  <1>1. Init => SoloInv
    BY InitSolo
  <1>2. IInv' /\ SoloInv /\ [Next]_vars => SoloInv'
    BY StepSolo
  <1>3. SoloInv => NothingIsLate
    BY DEF SoloInv
  <1>4. Spec => []IInv
    BY InvariantHolds
  <1>5. Spec => []NothingIsLate
    BY <1>1, <1>2, <1>3, <1>4, PTL DEF Spec
  <1>6. Spec /\ []NothingIsLate => ImplementsTwoGenerations
    BY OnTimeRequestsImplement
  <1> QED
    BY <1>5, <1>6

(* When requests are served one at a time a vault never loses its last      *)
(* active owner (vaults.routes.ts:29-40; revoke.ts:22-61).                  *)
THEOREM ServedOneAtATimeKeepsAnOwner == ASSUME OneAtATime PROVE Spec => []AnActiveOwnerRemains
  <1>1. OneOwnerChange
    BY DEF OneAtATime, OneOwnerChange
  <1>2. []OneOwnerChange
    BY <1>1, PTL
  <1>3. Spec /\ []OneOwnerChange => []AnActiveOwnerRemains
    BY SeparateChangesKeepAnOwner
  <1> QED
    BY <1>2, <1>3
=============================================================================
