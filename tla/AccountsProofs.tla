---------------------------- MODULE AccountsProofs ----------------------------
(***************************************************************************)
(* What holds of an account, its sessions and its second factor, however   *)
(* its handlers interleave and whichever of them fail: the types, and the  *)
(* four invariants of Accounts, for any number of sessions, codes and      *)
(* requests and without the bounds.  And what holds of its keys, for any   *)
(* number of accounts, pages and passwords: the second half.               *)
(***************************************************************************)
EXTENDS MCAccounts, TLAPS

SessionType == [state : SessionStates, pending : BOOLEAN, reauth : BOOLEAN,
                knows : Nat, proof : Proof]

RequestType == [kind : Kinds, session : SessionIds, knows : Nat, pending : BOOLEAN, proof : Proof]

EnrolmentType == [on : BOOLEAN, seed : Nat, last : Nat]

CodeType == [state : CodeStates, deletion : BOOLEAN, seed : Nat]

LEMMA ProofFacts ==
    /\ NoProof \in Proof
    /\ NoProof.seed = 0 /\ NoProof.step = 0 /\ NoProof.code = NoCode
  BY DEF NoProof, Proof

LEMMA IdleFacts ==
    /\ Idle \in RequestType
    /\ Idle.kind = "idle" /\ Idle.knows = 0 /\ Idle.proof = NoProof
  BY AccountAssumption, ProofFacts DEF Idle, RequestType, Kinds

LEMMA RowFacts ==
    /\ Unborn \in SessionType /\ Unborn.state = "unborn" /\ Unborn.proof = NoProof
    /\ NoRow \in CodeType /\ NoRow.state = "unborn"
    /\ NoFactor \in EnrolmentType /\ NoFactor.on = FALSE /\ NoFactor.seed = 0
  BY ProofFacts DEF Unborn, SessionType, SessionStates, NoRow, CodeType, CodeStates, NoFactor, EnrolmentType

LEMMA BeginFacts ==
    ASSUME TypeOK, NEW r \in Requests, NEW reads \in RequestType, Begin(r, reads)
    PROVE  /\ request' \in [Requests -> RequestType]
           /\ request[r] = Idle /\ request'[r] = reads
           /\ \A q \in Requests \ {r} : request'[q] = request[q]
  BY DEF TypeOK, Begin, RequestType

LEMMA FinishFacts ==
    ASSUME TypeOK, NEW r \in Requests, Finish(r)
    PROVE  /\ request' \in [Requests -> RequestType]
           /\ request'[r] = Idle /\ late' = late \ {r}
           /\ \A q \in Requests \ {r} : request'[q] = request[q]
  BY IdleFacts DEF TypeOK, Finish, RequestType

LEMMA RequestFacts ==
    ASSUME TypeOK, NEW r \in Requests
    PROVE  /\ request[r].session \in SessionIds /\ request[r].knows \in Nat
           /\ request[r].pending \in BOOLEAN /\ request[r].proof \in Proof
           /\ session[request[r].session] \in SessionType
  BY DEF TypeOK, SessionType

-----------------------------------------------------------------------------
(* The steps, by what they do *)

(* A handler arrives: what it has read, and that it has written nothing but *)
(* perhaps a new enrolment.                                                 *)
LEMMA ArriveFacts ==
    ASSUME TypeOK, NEW r \in Requests, Arrive(r)
    PROVE  /\ request' \in [Requests -> RequestType] /\ request[r] = Idle
           /\ \A q \in Requests \ {r} : request'[q] = request[q]
           /\ request'[r].kind \in {"login", "change", "reauth", "codes", "step", "redeem", "remove", "delete"}
           /\ request'[r].knows = IF request'[r].kind \in {"login", "change", "reauth"} THEN password ELSE 0
           /\ request'[r].kind = "codes" => enrolment'.on
           /\ request'[r].kind = "step" =>
                /\ enrolment.on /\ request'[r].proof.seed = enrolment.seed
                /\ request'[r].proof.step > 0 /\ request'[r].proof.step > enrolment.last
                /\ request'[r].proof.code = NoCode
           /\ request'[r].kind = "redeem" =>
                /\ request'[r].proof.seed = 0 /\ request'[r].proof.step = 0
                /\ request'[r].proof.code \in Codes
           /\ request'[r].kind \notin {"step", "redeem"} => request'[r].proof = NoProof
           /\ enrolment' \in EnrolmentType
           /\ \/ UNCHANGED enrolment
              \/ /\ enrolment'.on /\ enrolment'.seed = enrolment.seed + 1 /\ enrolment'.last = 0
                 /\ request'[r].kind = "codes"
           /\ UNCHANGED <<password, session, code, now, late, stale, loose, orphans, cutOff>>
  <1>e. enrolment \in EnrolmentType /\ password \in Nat
    BY DEF TypeOK, EnrolmentType
  <1>1. CASE LoginRead(r)
    <2> DEFINE R == [Idle EXCEPT !.kind = "login", !.knows = password]
    <2>1. R \in RequestType /\ R.kind = "login" /\ R.knows = password /\ R.proof = NoProof
      BY <1>e, AccountAssumption, ProofFacts DEF Idle, RequestType, Kinds
    <2>2. Begin(r, R) /\ UNCHANGED <<tables, now, late, history>>
      BY <1>1 DEF LoginRead
    <2> HIDE DEF R
    <2> QED
      BY <1>e, <2>1, <2>2, BeginFacts DEF tables, history
  <1>2. CASE ChangeRead(r)
    <2> PICK s \in SessionIds :
          Begin(r, [Idle EXCEPT !.kind = "change", !.session = s, !.knows = password])
      BY <1>2 DEF ChangeRead
    <2> DEFINE R == [Idle EXCEPT !.kind = "change", !.session = s, !.knows = password]
    <2>1. R \in RequestType /\ R.kind = "change" /\ R.knows = password /\ R.proof = NoProof
      BY <1>e, AccountAssumption, ProofFacts DEF Idle, RequestType, Kinds
    <2>2. Begin(r, R) /\ UNCHANGED <<tables, now, late, history>>
      BY <1>2 DEF ChangeRead
    <2> HIDE DEF R
    <2> QED
      BY <1>e, <2>1, <2>2, BeginFacts DEF tables, history
  <1>3. CASE ReauthRead(r)
    <2> PICK s \in SessionIds :
          Begin(r, [Idle EXCEPT !.kind = "reauth", !.session = s, !.knows = password])
      BY <1>3 DEF ReauthRead
    <2> DEFINE R == [Idle EXCEPT !.kind = "reauth", !.session = s, !.knows = password]
    <2>1. R \in RequestType /\ R.kind = "reauth" /\ R.knows = password /\ R.proof = NoProof
      BY <1>e, AccountAssumption, ProofFacts DEF Idle, RequestType, Kinds
    <2>2. Begin(r, R) /\ UNCHANGED <<tables, now, late, history>>
      BY <1>3 DEF ReauthRead
    <2> HIDE DEF R
    <2> QED
      BY <1>e, <2>1, <2>2, BeginFacts DEF tables, history
  <1>4. CASE EnrolCommit(r) \/ RenewRead(r)
    <2> DEFINE R == [Idle EXCEPT !.kind = "codes"]
    <2>1. R \in RequestType /\ R.kind = "codes" /\ R.knows = 0 /\ R.proof = NoProof
      BY AccountAssumption, ProofFacts DEF Idle, RequestType, Kinds
    <2>2. Begin(r, R) /\ UNCHANGED <<password, session, code, now, late, history>>
      BY <1>4 DEF EnrolCommit, RenewRead, tables
    <2>3. /\ enrolment' \in EnrolmentType /\ enrolment'.on
          /\ \/ UNCHANGED enrolment
             \/ enrolment'.seed = enrolment.seed + 1 /\ enrolment'.last = 0
      <3>1. CASE EnrolCommit(r)
        BY <3>1, <1>e DEF EnrolCommit, EnrolmentType
      <3>2. CASE RenewRead(r)
        BY <3>2, <1>e DEF RenewRead, tables
      <3> QED
        BY <1>4, <3>1, <3>2
    <2> HIDE DEF R
    <2>4. /\ request' \in [Requests -> RequestType] /\ request[r] = Idle /\ request'[r] = R
          /\ \A q \in Requests \ {r} : request'[q] = request[q]
      BY <2>1, <2>2, BeginFacts
    <2>5. UNCHANGED <<password, session, code, now, late, stale, loose, orphans, cutOff>>
      BY <2>2 DEF history
    <2> QED
      BY <2>1, <2>3, <2>4, <2>5
  <1>5. CASE StepRead(r)
    <2> PICK s \in SessionIds, step \in 1 .. MaxStep :
          /\ enrolment.on /\ FreshStep(step)
          /\ Begin(r, [Idle EXCEPT !.kind = "step", !.session = s,
                         !.proof = [seed |-> enrolment.seed, step |-> step, code |-> NoCode]])
      BY <1>5 DEF StepRead
    <2> DEFINE R == [Idle EXCEPT !.kind = "step", !.session = s,
                       !.proof = [seed |-> enrolment.seed, step |-> step, code |-> NoCode]]
    <2>1. [seed |-> enrolment.seed, step |-> step, code |-> NoCode] \in Proof
      BY <1>e, AccountAssumption DEF Proof, EnrolmentType
    <2>2. /\ R \in RequestType /\ R.kind = "step" /\ R.knows = 0
          /\ R.proof.seed = enrolment.seed /\ R.proof.step = step /\ R.proof.code = NoCode
      BY <2>1, AccountAssumption DEF Idle, RequestType, Kinds
    <2>3. step > 0 /\ step > enrolment.last /\ UNCHANGED <<tables, now, late, history>>
      BY <1>5 DEF FreshStep, StepRead
    <2> HIDE DEF R
    <2>4. Begin(r, R)
      BY DEF R
    <2> QED
      BY <1>e, <2>2, <2>3, <2>4, BeginFacts DEF tables, history
  <1>6. CASE RedeemRead(r)
    <2> PICK s \in SessionIds, c \in Codes :
          Begin(r, [Idle EXCEPT !.kind = "redeem", !.session = s, !.proof = [NoProof EXCEPT !.code = c]])
      BY <1>6 DEF RedeemRead
    <2> DEFINE R == [Idle EXCEPT !.kind = "redeem", !.session = s, !.proof = [NoProof EXCEPT !.code = c]]
    <2>1. LET n == [NoProof EXCEPT !.code = c]
          IN  n \in Proof /\ n.seed = 0 /\ n.step = 0 /\ n.code = c
      BY DEF Proof, NoProof
    <2>2. /\ R \in RequestType /\ R.kind = "redeem" /\ R.knows = 0
          /\ R.proof = [NoProof EXCEPT !.code = c]
      BY <2>1, AccountAssumption DEF Idle, RequestType, Kinds
    <2>3. UNCHANGED <<tables, now, late, history>>
      BY <1>6 DEF RedeemRead
    <2> HIDE DEF R
    <2>4. Begin(r, R)
      BY DEF R
    <2> QED
      BY <1>e, <2>1, <2>2, <2>3, <2>4, BeginFacts DEF tables, history
  <1>7. CASE RemoveRead(r) \/ ConfirmRead(r)
    <2> PICK kind \in {"remove", "delete"} : Begin(r, [Idle EXCEPT !.kind = kind])
      BY <1>7 DEF RemoveRead, ConfirmRead
    <2> DEFINE R == [Idle EXCEPT !.kind = kind]
    <2>1. R \in RequestType /\ R.kind = kind /\ R.knows = 0 /\ R.proof = NoProof
      BY AccountAssumption, ProofFacts DEF Idle, RequestType, Kinds
    <2>2. UNCHANGED <<tables, now, late, history>>
      BY <1>7 DEF RemoveRead, ConfirmRead
    <2> HIDE DEF R
    <2>3. Begin(r, R)
      BY DEF R
    <2> QED
      BY <1>e, <2>1, <2>2, <2>3, BeginFacts DEF tables, history
  <1> QED
    BY <1>1, <1>2, <1>3, <1>4, <1>5, <1>6, <1>7 DEF Arrive

LEMMA IssueFacts ==
    ASSUME TypeOK, NEW r \in Requests, issueSession(r)
    PROVE  \E s \in SessionIds :
             /\ session' \in [SessionIds -> SessionType]
             /\ \A t \in SessionIds \ {s} : session'[t] = session[t]
             /\ session'[s].knows = request[r].knows /\ session'[s].proof = NoProof
             /\ stale' = IF r \in late THEN stale \cup {s} ELSE stale
  <1> PICK s \in SessionIds :
        /\ session' = [session EXCEPT ![s] =
                          [state |-> "live", pending |-> request[r].pending, reauth |-> FALSE,
                           knows |-> request[r].knows, proof |-> NoProof]]
        /\ stale' = IF r \in late THEN stale \cup {s} ELSE stale
    BY DEF issueSession
  <1> DEFINE n == [state |-> "live", pending |-> request[r].pending, reauth |-> FALSE,
                   knows |-> request[r].knows, proof |-> NoProof]
  <1>1. n \in SessionType /\ n.knows = request[r].knows /\ n.proof = NoProof
    BY RequestFacts, ProofFacts DEF SessionType, SessionStates
  <1> HIDE DEF n
  <1>2. /\ session' \in [SessionIds -> SessionType] /\ session'[s] = n
        /\ \A t \in SessionIds \ {s} : session'[t] = session[t]
    BY <1>1 DEF TypeOK, SessionType, n
  <1> QED
    BY <1>1, <1>2

(* A row of session of which one thing is changed.                          *)
LEMMA FlaggedRow ==
    ASSUME NEW row \in SessionType, NEW n, n = [row EXCEPT !.reauth = TRUE]
    PROVE  /\ n \in SessionType /\ n.reauth = TRUE /\ n.state = row.state
           /\ n.knows = row.knows /\ n.proof = row.proof /\ n.pending = row.pending
  BY DEF SessionType

LEMMA OverRow ==
    ASSUME NEW row \in SessionType, NEW n, n = [row EXCEPT !.state = "over"]
    PROVE  n \in SessionType /\ n.state = "over" /\ n.proof = row.proof
  BY DEF SessionType, SessionStates

LEMMA ChangedRow ==
    ASSUME NEW row \in SessionType, NEW k \in Nat, NEW n, n = [row EXCEPT !.knows = k]
    PROVE  /\ n \in SessionType /\ n.knows = k /\ n.state = row.state
           /\ n.reauth = row.reauth /\ n.proof = row.proof
  BY DEF SessionType

LEMMA ChangeFacts ==
    ASSUME TypeOK, NEW r \in Requests, ChangeCommit(r)
    PROVE  LET mine == request[r].session
           IN  /\ mine \in SessionIds /\ session' \in [SessionIds -> SessionType]
               /\ session'[mine].knows = password' /\ session'[mine].proof = session[mine].proof
               /\ \A s \in SessionIds \ {mine} :
                    /\ session'[s].proof = session[s].proof
                    /\ session'[s].state = session[s].state /\ session'[s].knows = session[s].knows
                    /\ session[s].state = "live" => session'[s].reauth
  <1> DEFINE mine == request[r].session
             marked == markSiblingsForReauth(mine)
  <1>0. mine \in SessionIds /\ password + 1 \in Nat /\ password' = password + 1
    BY RequestFacts DEF ChangeCommit, TypeOK
  <1>1. ASSUME NEW s \in SessionIds
        PROVE  /\ marked[s] \in SessionType
               /\ marked[s].proof = session[s].proof
               /\ marked[s].state = session[s].state /\ marked[s].knows = session[s].knows
               /\ s # mine /\ session[s].state = "live" => marked[s].reauth
    <2>1. session[s] \in SessionType
      BY DEF TypeOK, SessionType
    <2>2. marked[s] = IF s = mine \/ session[s].state # "live"
                      THEN session[s] ELSE [session[s] EXCEPT !.reauth = TRUE]
      BY DEF markSiblingsForReauth
    <2> HIDE DEF marked, mine
    <2>3. CASE s = mine \/ session[s].state # "live"
      BY <2>1, <2>2, <2>3
    <2>4. CASE ~(s = mine \/ session[s].state # "live")
      <3>1. marked[s] = [session[s] EXCEPT !.reauth = TRUE]
        BY <2>2, <2>4
      <3> QED
        BY <2>1, <3>1, FlaggedRow
    <2> QED
      BY <2>3, <2>4
  <1>2. marked \in [SessionIds -> SessionType]
    BY <1>1 DEF markSiblingsForReauth
  <1>3. session' = [marked EXCEPT ![mine].knows = password + 1]
    BY DEF ChangeCommit
  <1> HIDE DEF marked, mine
  <1> DEFINE n == [marked[mine] EXCEPT !.knows = password + 1]
  <1>4. n \in SessionType /\ n.knows = password + 1 /\ n.proof = session[mine].proof
    <2>1. marked[mine] \in SessionType /\ marked[mine].proof = session[mine].proof
      BY <1>0, <1>1
    <2> QED
      BY <1>0, <2>1, ChangedRow
  <1>5. session' = [marked EXCEPT ![mine] = n]
    BY <1>3
  <1> HIDE DEF n
  <1>6. /\ session' \in [SessionIds -> SessionType] /\ session'[mine] = n
        /\ \A s \in SessionIds \ {mine} : session'[s] = marked[s]
    BY <1>0, <1>2, <1>4, <1>5
  <1> QED
    BY <1>0, <1>1, <1>4, <1>6 DEF mine

LEMMA ReauthFacts ==
    ASSUME TypeOK, NEW r \in Requests, ReauthCommit(r)
    PROVE  LET s == request[r].session
           IN  /\ s \in SessionIds /\ session' \in [SessionIds -> SessionType]
               /\ session'[s].knows = request[r].knows /\ session'[s].proof = session[s].proof
               /\ \A t \in SessionIds \ {s} : session'[t] = session[t]
  <1> DEFINE s == request[r].session
             n == [session[s] EXCEPT !.reauth = FALSE, !.knows = request[r].knows]
  <1>1. s \in SessionIds /\ request[r].knows \in Nat /\ session[s] \in SessionType
    BY RequestFacts
  <1>2. session' = [session EXCEPT ![s] = n]
    BY DEF ReauthCommit
  <1>3. n \in SessionType /\ n.knows = request[r].knows /\ n.proof = session[s].proof
    <2> DEFINE row == session[s]
               k   == request[r].knows
    <2>1. row \in SessionType /\ k \in Nat /\ n = [row EXCEPT !.reauth = FALSE, !.knows = k]
      BY <1>1
    <2> HIDE DEF row, k, n
    <2>2. n \in SessionType /\ n.knows = k /\ n.proof = row.proof
      BY <2>1 DEF SessionType
    <2> QED
      BY <2>2 DEF row, k
  <1> HIDE DEF n
  <1>4. /\ session' \in [SessionIds -> SessionType] /\ session'[s] = n
        /\ \A t \in SessionIds \ {s} : session'[t] = session[t]
    BY <1>1, <1>2, <1>3 DEF TypeOK, SessionType
  <1> QED
    BY <1>1, <1>3, <1>4

LEMMA ClearFacts ==
    ASSUME TypeOK, NEW r \in Requests, ClearPending(r)
    PROVE  LET s == request[r].session
           IN  /\ s \in SessionIds /\ session' \in [SessionIds -> SessionType]
               /\ session'[s].knows = session[s].knows /\ session'[s].state = session[s].state
               /\ session'[s].reauth = session[s].reauth
               /\ session'[s].proof \in {session[s].proof, request[r].proof}
               /\ \A t \in SessionIds \ {s} : session'[t] = session[t]
  <1> DEFINE s == request[r].session
             p == IF session[s].pending THEN request[r].proof ELSE session[s].proof
             n == [session[s] EXCEPT !.pending = FALSE, !.proof = p]
  <1>1. s \in SessionIds /\ request[r].proof \in Proof /\ session[s] \in SessionType
    BY RequestFacts
  <1>2. p \in Proof /\ p \in {session[s].proof, request[r].proof}
    BY <1>1 DEF SessionType
  <1>3. session' = [session EXCEPT ![s] = n]
    BY DEF ClearPending
  <1> HIDE DEF p
  <1>4. /\ n \in SessionType /\ n.proof = p /\ n.knows = session[s].knows
        /\ n.state = session[s].state /\ n.reauth = session[s].reauth
    <2> DEFINE row == session[s]
    <2>1. row \in SessionType /\ n = [row EXCEPT !.pending = FALSE, !.proof = p]
      BY <1>1
    <2> HIDE DEF row, n
    <2>2. /\ n \in SessionType /\ n.proof = p /\ n.knows = row.knows
          /\ n.state = row.state /\ n.reauth = row.reauth
      BY <1>2, <2>1 DEF SessionType
    <2> QED
      BY <2>2 DEF row
  <1> HIDE DEF n
  <1>5. /\ session' \in [SessionIds -> SessionType] /\ session'[s] = n
        /\ \A t \in SessionIds \ {s} : session'[t] = session[t]
    BY <1>1, <1>3, <1>4 DEF TypeOK, SessionType
  <1> QED
    BY <1>1, <1>2, <1>4, <1>5

(* Sessions end, one or all but one.                                        *)
LEMMA EndFacts ==
    ASSUME TypeOK, revokeAllExcept \/ SessionExpires
    PROVE  /\ session' \in [SessionIds -> SessionType]
           /\ \A s \in SessionIds :
                \/ session'[s] = session[s]
                \/ session'[s].state = "over" /\ session'[s].proof = session[s].proof
           /\ UNCHANGED <<password, enrolment, code, now, request, late, stale, loose, orphans, cutOff>>
  <1>1. ASSUME NEW s \in SessionIds
        PROVE  session'[s] = session[s] \/ session'[s] = [session[s] EXCEPT !.state = "over"]
    BY DEF TypeOK, revokeAllExcept, SessionExpires
  <1>2. DOMAIN session' = SessionIds /\ session' = [s \in SessionIds |-> session'[s]]
    BY DEF TypeOK, revokeAllExcept, SessionExpires
  <1>3. ASSUME NEW s \in SessionIds
        PROVE  /\ session'[s] \in SessionType
               /\ \/ session'[s] = session[s]
                  \/ session'[s].state = "over" /\ session'[s].proof = session[s].proof
    <2>1. session[s] \in SessionType
      BY DEF TypeOK, SessionType
    <2>2. CASE session'[s] = [session[s] EXCEPT !.state = "over"]
      BY <2>1, <2>2, OverRow
    <2> QED
      BY <1>1, <2>1, <2>2
  <1> QED
    BY <1>2, <1>3 DEF revokeAllExcept, SessionExpires, history

(* A request goes on: only what it is at changes.                           *)
LEMMA GoesOnFacts ==
    ASSUME TypeOK, NEW r \in Requests, NEW k \in Kinds, request' = [request EXCEPT ![r].kind = k]
    PROVE  /\ request' \in [Requests -> RequestType]
           /\ request'[r].kind = k /\ request'[r].proof = request[r].proof
           /\ request'[r].knows = request[r].knows
           /\ \A q \in Requests \ {r} : request'[q] = request[q]
  BY DEF TypeOK, RequestType

LEMMA LoginFacts ==
    ASSUME TypeOK, NEW r \in Requests, LoginFactor(r)
    PROVE  /\ request' \in [Requests -> RequestType]
           /\ request[r].kind = "login" /\ request'[r].kind = "issue"
           /\ request'[r].knows = request[r].knows
           /\ \A q \in Requests \ {r} : request'[q] = request[q]
  <1>1. /\ request \in [Requests -> RequestType] /\ request[r] \in RequestType
        /\ enrolment.on \in BOOLEAN
    <2>1. request \in [Requests -> RequestType] /\ enrolment \in EnrolmentType
      BY DEF TypeOK, RequestType, EnrolmentType
    <2> QED
      BY <2>1 DEF EnrolmentType
  <1>2. /\ request[r].kind = "login"
        /\ request' = [request EXCEPT ![r].kind = "issue", ![r].pending = enrolment.on]
    BY DEF LoginFactor
  <1>3. request' = [request EXCEPT ![r] = [@ EXCEPT !.kind = "issue", !.pending = enrolment.on]]
    BY <1>1, <1>2
  <1>4. "issue" \in Kinds
    BY DEF Kinds
  <1>5. [request[r] EXCEPT !.kind = "issue", !.pending = enrolment.on] \in RequestType
    BY <1>1, <1>4 DEF RequestType
  <1>6. /\ request'[r] = [request[r] EXCEPT !.kind = "issue", !.pending = enrolment.on]
        /\ request' \in [Requests -> RequestType]
        /\ \A q \in Requests \ {r} : request'[q] = request[q]
    BY <1>1, <1>3, <1>5
  <1> QED
    BY <1>1, <1>2, <1>6 DEF RequestType

(* Every code that there is goes.                                           *)
LEMMA NoCodesFacts ==
    ASSUME TypeOK
    PROVE  /\ NoCodesLeft \in [Codes -> CodeType]
           /\ \A c \in Codes :
                /\ NoCodesLeft[c].state \in {"unborn", "deleted"}
                /\ code[c].state # "unborn" => NoCodesLeft[c].state = "deleted"
  <1>1. ASSUME NEW c \in Codes
        PROVE  LET n == IF code[c].state = "unborn" THEN code[c]
                                                    ELSE [code[c] EXCEPT !.state = "deleted"]
               IN  /\ n \in CodeType /\ n.state \in {"unborn", "deleted"}
                   /\ code[c].state # "unborn" => n.state = "deleted"
    <2>1. code[c] \in CodeType
      BY DEF TypeOK, CodeType
    <2> QED
      BY <2>1 DEF CodeType, CodeStates
  <1> QED
    BY <1>1 DEF NoCodesLeft

LEMMA IssueCodesFacts ==
    ASSUME TypeOK, NEW r \in Requests, issueBackupCodes(r)
    PROVE  \E c \in Codes :
             /\ code' \in [Codes -> CodeType]
             /\ code[c].state = "unborn" /\ code'[c].seed = enrolment.seed
             /\ \A d \in Codes \ {c} :
                  /\ code'[d].state \in {"unborn", "deleted"}
                  /\ code[d].state # "unborn" => code'[d].state = "deleted"
             /\ orphans' = IF r \in late THEN orphans \cup {c} ELSE orphans
  <1> PICK c \in Codes :
        /\ code[c].state = "unborn"
        /\ code' = [NoCodesLeft EXCEPT ![c] = [state |-> "live", deletion |-> FALSE,
                                               seed |-> enrolment.seed]]
        /\ orphans' = IF r \in late THEN orphans \cup {c} ELSE orphans
    BY DEF issueBackupCodes
  <1> DEFINE n == [state |-> "live", deletion |-> FALSE, seed |-> enrolment.seed]
  <1>1. n \in CodeType /\ n.seed = enrolment.seed
    BY DEF TypeOK, CodeType, CodeStates
  <1> HIDE DEF n
  <1>2. /\ code' \in [Codes -> CodeType] /\ code'[c] = n
        /\ \A d \in Codes \ {c} : code'[d] = NoCodesLeft[d]
    BY <1>1, NoCodesFacts DEF n
  <1> QED
    BY <1>1, <1>2, NoCodesFacts

(* A deletion token is issued.                                              *)
LEMMA TokenFacts ==
    ASSUME TypeOK, RequestDeletion
    PROVE  \E c \in Codes :
             /\ code' \in [Codes -> CodeType]
             /\ code[c].state = "unborn" /\ code'[c].deletion
             /\ \A d \in Codes \ {c} : code'[d] = code[d]
  <1> PICK c \in Codes :
        /\ code[c].state = "unborn"
        /\ code' = [code EXCEPT ![c] = [state |-> "live", deletion |-> TRUE, seed |-> 0]]
    BY DEF RequestDeletion
  <1> DEFINE n == [state |-> "live", deletion |-> TRUE, seed |-> 0]
  <1>1. n \in CodeType /\ n.deletion
    BY DEF CodeType, CodeStates
  <1> HIDE DEF n
  <1>2. /\ code' \in [Codes -> CodeType] /\ code'[c] = n
        /\ \A d \in Codes \ {c} : code'[d] = code[d]
    BY <1>1 DEF TypeOK, CodeType, n
  <1> QED
    BY <1>1, <1>2

(* A code is marked used.                                                   *)
LEMMA RedeemFacts ==
    ASSUME TypeOK, NEW r \in Requests, redeemBackupCode(r)
    PROVE  LET c == request[r].proof.code
           IN  /\ code' \in [Codes -> CodeType]
               /\ c \in Codes => code[c].state = "live" /\ code'[c].state = "used"
               /\ \A d \in Codes \ {c} : code'[d] = code[d]
  <1> DEFINE c == request[r].proof.code
  <1>1. code \in [Codes -> CodeType]
    BY DEF TypeOK, CodeType
  <1>2. code[c].state = "live" /\ code' = [code EXCEPT ![c].state = "used"]
    BY DEF redeemBackupCode
  <1> HIDE DEF c
  <1>3. CASE c \in Codes
    <2> DEFINE n == [code[c] EXCEPT !.state = "used"]
    <2>1. code[c] \in CodeType /\ code' = [code EXCEPT ![c] = n]
      BY <1>1, <1>2, <1>3
    <2>2. n \in CodeType /\ n.state = "used"
      BY <2>1 DEF CodeType, CodeStates
    <2> HIDE DEF n
    <2>3. /\ code' \in [Codes -> CodeType] /\ code'[c] = n
          /\ \A d \in Codes \ {c} : code'[d] = code[d]
      BY <1>1, <1>3, <2>1, <2>2
    <2> QED
      BY <1>2, <2>2, <2>3 DEF c
  <1>4. CASE c \notin Codes
    BY <1>1, <1>2, <1>4 DEF c
  <1> QED
    BY <1>3, <1>4

(* The factor is removed.                                                   *)
LEMMA EnrolmentFacts ==
    ASSUME TypeOK, NEW r \in Requests
    PROVE  /\ StepSpend(r) =>
                /\ enrolment' \in EnrolmentType /\ enrolment'.on /\ enrolment.on
                /\ enrolment'.seed = enrolment.seed /\ enrolment'.last = request[r].proof.step
           /\ RemoveCommit(r) =>
                /\ enrolment' \in EnrolmentType /\ ~enrolment'.on
                /\ enrolment'.seed = enrolment.seed /\ enrolment'.last = 0
           /\ StepSpend(r) => FreedBy(request[r].proof) \subseteq Nat \X Nat
  <1>1. request[r].proof.step \in Nat /\ request[r].proof.seed \in Nat /\ enrolment \in EnrolmentType
    BY RequestFacts DEF Proof, TypeOK, EnrolmentType
  <1>2. StepSpend(r) =>
          /\ enrolment' \in EnrolmentType /\ enrolment'.on /\ enrolment.on
          /\ enrolment'.seed = enrolment.seed /\ enrolment'.last = request[r].proof.step
    BY <1>1 DEF StepSpend, EnrolmentType
  <1>3. RemoveCommit(r) =>
          /\ enrolment' \in EnrolmentType /\ ~enrolment'.on
          /\ enrolment'.seed = enrolment.seed /\ enrolment'.last = 0
    <2> DEFINE n == [enrolment EXCEPT !.on = FALSE, !.last = 0]
    <2>1. n \in EnrolmentType /\ ~n.on /\ n.seed = enrolment.seed /\ n.last = 0
      BY <1>1, Zenon DEF EnrolmentType
    <2>2. RemoveCommit(r) => enrolment' = n
      BY DEF RemoveCommit
    <2> QED
      BY <2>1, <2>2
  <1>4. FreedBy(request[r].proof) \subseteq Nat \X Nat
    BY <1>1 DEF FreedBy, EnrolmentType
  <1> QED
    BY <1>2, <1>3, <1>4

-----------------------------------------------------------------------------
(* The types *)

LEMMA TypesNamed ==
    TypeOK <=>
      /\ password \in Nat /\ now \in Nat
      /\ session \in [SessionIds -> SessionType] /\ enrolment \in EnrolmentType
      /\ code \in [Codes -> CodeType] /\ request \in [Requests -> RequestType]
      /\ late \subseteq Requests
      /\ stale \subseteq SessionIds /\ loose \subseteq Nat \X Nat /\ orphans \subseteq Codes
      /\ cutOff \in BOOLEAN
  BY DEF TypeOK, SessionType, EnrolmentType, CodeType, RequestType

LEMMA TypesThen ==
    TypeOK' <=>
      /\ password' \in Nat /\ now' \in Nat
      /\ session' \in [SessionIds -> SessionType] /\ enrolment' \in EnrolmentType
      /\ code' \in [Codes -> CodeType] /\ request' \in [Requests -> RequestType]
      /\ late' \subseteq Requests
      /\ stale' \subseteq SessionIds /\ loose' \subseteq Nat \X Nat /\ orphans' \subseteq Codes
      /\ cutOff' \in BOOLEAN
  BY DEF TypeOK, SessionType, EnrolmentType, CodeType, RequestType

LEMMA InitTyped == Init => TypeOK
  <1> SUFFICES ASSUME Init PROVE TypeOK
    OBVIOUS
  <1>1. session \in [SessionIds -> SessionType] /\ request \in [Requests -> RequestType]
    BY RowFacts, IdleFacts DEF Init
  <1>2. enrolment \in EnrolmentType
    <2>1. [on |-> TRUE, seed |-> 1, last |-> 0] \in EnrolmentType
      BY DEF EnrolmentType
    <2> QED
      BY <2>1, RowFacts DEF Init
  <1>3. code \in [Codes -> CodeType]
    <2>1. [NoRow EXCEPT !.state = "live", !.seed = 1] \in CodeType
      BY DEF NoRow, CodeType, CodeStates
    <2> QED
      BY <2>1, RowFacts DEF Init
  <1> QED
    BY <1>1, <1>2, <1>3, TypesNamed DEF Init

(* One step, which may be that of one request or of none.                   *)
LEMMA NextTyped == TypeOK /\ [Next]_vars => TypeOK'
  <1> SUFFICES ASSUME TypeOK, [Next]_vars PROVE TypeOK'
    OBVIOUS
  <1>t. /\ password \in Nat /\ now \in Nat
        /\ session \in [SessionIds -> SessionType] /\ enrolment \in EnrolmentType
        /\ code \in [Codes -> CodeType] /\ request \in [Requests -> RequestType]
        /\ late \subseteq Requests
        /\ stale \subseteq SessionIds /\ loose \subseteq Nat \X Nat /\ orphans \subseteq Codes
        /\ cutOff \in BOOLEAN
    BY TypesNamed
  <1> USE DEF tables, history
  <1>1. ASSUME NEW r \in Requests, Arrive(r) PROVE TypeOK'
    BY <1>t, <1>1, ArriveFacts, TypesThen
  <1>2. ASSUME NEW r \in Requests, LoginFactor(r) PROVE TypeOK'
    <2>1. UNCHANGED <<tables, now, late, history>>
      BY <1>2 DEF LoginFactor
    <2> QED
      BY <1>t, <1>2, <2>1, LoginFacts, TypesThen
  <1>3. ASSUME NEW r \in Requests, issueSession(r) PROVE TypeOK'
    <2>1. Finish(r) /\ UNCHANGED <<password, enrolment, code, now, loose, orphans, cutOff>>
      BY <1>3 DEF issueSession
    <2>2. session' \in [SessionIds -> SessionType] /\ stale' \subseteq SessionIds
      BY <1>t, <1>3, IssueFacts
    <2> QED
      BY <1>t, <2>1, <2>2, FinishFacts, TypesThen
  <1>4. ASSUME NEW r \in Requests, ChangeCommit(r) PROVE TypeOK'
    <2>1. /\ password' = password + 1 /\ late' = (late \cup Compared(r)) \ {r}
          /\ stale' = stale \ {request[r].session}
          /\ UNCHANGED <<enrolment, code, now, loose, orphans, cutOff>>
      BY <1>4 DEF ChangeCommit
    <2>2. session' \in [SessionIds -> SessionType]
      BY <1>4, ChangeFacts
    <2>3. request' \in [Requests -> RequestType]
      BY <1>t, <1>4, IdleFacts DEF ChangeCommit
    <2>4. Compared(r) \subseteq Requests
      BY DEF Compared
    <2> QED
      BY <1>t, <2>1, <2>2, <2>3, <2>4, TypesThen
  <1>5. ASSUME NEW r \in Requests, ReauthCommit(r) PROVE TypeOK'
    <2>1. Finish(r) /\ UNCHANGED <<password, enrolment, code, now, loose, orphans, cutOff>>
      BY <1>5 DEF ReauthCommit
    <2>2. session' \in [SessionIds -> SessionType] /\ request[r].session \in SessionIds
      BY <1>5, ReauthFacts
    <2>3. stale' \in {stale \cup {request[r].session}, stale \ {request[r].session}}
      BY <1>5 DEF ReauthCommit
    <2>4. stale' \subseteq SessionIds
      BY <1>t, <2>2, <2>3
    <2> QED
      BY <1>t, <2>1, <2>2, <2>4, FinishFacts, TypesThen
  <1>6. ASSUME NEW r \in Requests, issueBackupCodes(r) PROVE TypeOK'
    <2>1. Finish(r) /\ UNCHANGED <<password, session, enrolment, now, stale, loose, cutOff>>
      BY <1>6 DEF issueBackupCodes
    <2>2. code' \in [Codes -> CodeType] /\ orphans' \subseteq Codes
      BY <1>t, <1>6, IssueCodesFacts
    <2> QED
      BY <1>t, <2>1, <2>2, FinishFacts, TypesThen
  <1>7. ASSUME NEW r \in Requests, StepSpend(r) PROVE TypeOK'
    <2>1. /\ request' = [request EXCEPT ![r].kind = "clear"]
          /\ late' = (late \cup At(r, "step")) \ {r}
          /\ loose' = IF r \in late THEN loose \cup FreedBy(request[r].proof) ELSE loose
          /\ UNCHANGED <<password, session, code, now, stale, orphans, cutOff>>
      BY <1>7 DEF StepSpend
    <2>2. request' \in [Requests -> RequestType]
      BY <2>1, GoesOnFacts DEF Kinds
    <2>3. At(r, "step") \subseteq Requests
      BY DEF At
    <2>4. enrolment' \in EnrolmentType /\ FreedBy(request[r].proof) \subseteq Nat \X Nat
      BY <1>7, EnrolmentFacts
    <2> QED
      BY <1>t, <2>1, <2>2, <2>3, <2>4, TypesThen
  <1>8. ASSUME NEW r \in Requests, redeemBackupCode(r) PROVE TypeOK'
    <2>1. /\ request' = [request EXCEPT ![r].kind = "clear"]
          /\ UNCHANGED <<password, session, enrolment, now, late, history>>
      BY <1>8 DEF redeemBackupCode
    <2>2. request' \in [Requests -> RequestType] /\ code' \in [Codes -> CodeType]
      BY <1>8, <2>1, GoesOnFacts, RedeemFacts DEF Kinds
    <2> QED
      BY <1>t, <2>1, <2>2, TypesThen
  <1>9. ASSUME NEW r \in Requests, ClearPending(r) PROVE TypeOK'
    <2>1. Finish(r) /\ UNCHANGED <<password, enrolment, code, now, history>>
      BY <1>9 DEF ClearPending
    <2> QED
      BY <1>t, <1>9, <2>1, ClearFacts, FinishFacts, TypesThen
  <1>10. ASSUME NEW r \in Requests, RemoveCommit(r) PROVE TypeOK'
    <2>1. /\ code' = NoCodesLeft /\ request' = [request EXCEPT ![r] = Idle]
          /\ late' = (late \cup At(r, "codes")) \ {r}
          /\ UNCHANGED <<password, session, now, history>>
      BY <1>10 DEF RemoveCommit
    <2>2. request' \in [Requests -> RequestType]
      BY <1>t, <2>1, IdleFacts
    <2>3. At(r, "codes") \subseteq Requests
      BY DEF At
    <2> QED
      BY <1>t, <1>10, <2>1, <2>2, <2>3, NoCodesFacts, EnrolmentFacts, TypesThen
  <1>11. ASSUME NEW r \in Requests, deleteAccount(r) \/ Fail(r) PROVE TypeOK'
    <2>1. /\ Finish(r) /\ UNCHANGED <<tables, now, stale, loose, orphans>> /\ cutOff' \in BOOLEAN
      BY <1>t, <1>11 DEF deleteAccount, Fail
    <2> QED
      BY <1>t, <2>1, FinishFacts, TypesThen
  <1>12. CASE revokeAllExcept \/ SessionExpires
    BY <1>t, <1>12, EndFacts, TypesThen
  <1>13. CASE RequestDeletion
    <2>1. UNCHANGED <<password, session, enrolment, now, request, late, history>>
      BY <1>13 DEF RequestDeletion
    <2> QED
      BY <1>t, <1>13, <2>1, TokenFacts, TypesThen
  <1>14. CASE Tick
    BY <1>t, <1>14, TypesThen DEF Tick
  <1>15. CASE UNCHANGED vars
    BY <1>t, <1>15, TypesThen DEF vars
  <1> QED
    BY <1>1, <1>2, <1>3, <1>4, <1>5, <1>6, <1>7, <1>8, <1>9, <1>10, <1>11, <1>12, <1>13, <1>14,
       <1>15 DEF Next, Handle

(* Every variable keeps its type.                                           *)
(* (backend/src/modules/auth)                                               *)
THEOREM Typed == Spec => []TypeOK
  BY InitTyped, NextTyped, PTL DEF Spec

-----------------------------------------------------------------------------
(* What a password opens *)

(* What a step of a handler does to the requests.                           *)
LEMMA HandleFacts ==
    ASSUME TypeOK, NEW r \in Requests, Handle(r) \/ Fail(r)
    PROVE  /\ \A q \in Requests \ {r} : request'[q] = request[q]
           /\ late \ {r} \subseteq late'
           /\ \/ request'[r] = Idle
              \/ /\ request[r].kind = "login" /\ request'[r].kind = "issue"
                 /\ request'[r].knows = request[r].knows /\ late' = late
              \/ /\ request[r].kind \in {"step", "redeem"} /\ request'[r].kind = "clear"
                 /\ request'[r].knows = request[r].knows /\ request'[r].proof = request[r].proof
  <1>1. CASE LoginFactor(r)
    <2>1. late' = late
      BY <1>1 DEF LoginFactor
    <2> QED
      BY <1>1, <2>1, LoginFacts
  <1>2. CASE StepSpend(r) \/ redeemBackupCode(r)
    <2>1. /\ request[r].kind \in {"step", "redeem"} /\ late \ {r} \subseteq late'
          /\ request' = [request EXCEPT ![r].kind = "clear"]
      BY <1>2 DEF StepSpend, redeemBackupCode
    <2> QED
      BY <2>1, GoesOnFacts DEF Kinds
  <1>3. CASE issueSession(r) \/ ReauthCommit(r) \/ issueBackupCodes(r) \/ ClearPending(r)
               \/ deleteAccount(r) \/ Fail(r)
    <2>1. Finish(r)
      BY <1>3 DEF issueSession, ReauthCommit, issueBackupCodes, ClearPending, deleteAccount, Fail
    <2> QED
      BY <2>1, FinishFacts
  <1>4. CASE ChangeCommit(r) \/ RemoveCommit(r)
    <2>1. request' = [request EXCEPT ![r] = Idle] /\ late \ {r} \subseteq late'
      BY <1>4 DEF ChangeCommit, RemoveCommit
    <2> QED
      BY <2>1, TypesNamed
  <1> QED
    BY <1>1, <1>2, <1>3, <1>4 DEF Handle

CompareKinds == {"login", "issue", "change", "reauth"}

(* A request that has compared a password has compared the present one, or  *)
(* is marked late.                                                          *)
Compares ==
    /\ password > 0
    /\ \A r \in Requests :
         /\ request[r].kind \in CompareKinds => request[r].knows # 0
         /\ request[r].kind \notin CompareKinds => request[r].knows = 0
         /\ request[r].knows \in {0, password} \/ r \in late

LEMMA InitCompares == Init => Compares /\ SessionsKnowThePassword
  BY IdleFacts, RowFacts DEF Init, Compares, CompareKinds, SessionsKnowThePassword, AdmittedPending

LEMMA NextCompares ==
    ASSUME TypeOK, Compares, [Next]_vars
    PROVE  Compares'
  <1>k. "idle" \notin CompareKinds /\ "issue" \in CompareKinds /\ "login" \in CompareKinds
        /\ CompareKinds \cap {"step", "redeem", "clear"} = {}
    BY DEF CompareKinds
  <1>1. ASSUME NEW r \in Requests, Arrive(r) PROVE Compares'
    BY <1>1, ArriveFacts, IdleFacts DEF Compares, CompareKinds
  <1>2. ASSUME NEW r \in Requests, Handle(r) \/ Fail(r), ~ChangeCommit(r) PROVE Compares'
    <2>1. password' = password
      BY <1>2 DEF Handle, Fail, LoginFactor, issueSession, ReauthCommit, issueBackupCodes, StepSpend,
                  redeemBackupCode, ClearPending, RemoveCommit, deleteAccount, tables
    <2>2. ASSUME NEW q \in Requests
          PROVE  /\ request'[q].kind \in CompareKinds => request'[q].knows # 0
                 /\ request'[q].kind \notin CompareKinds => request'[q].knows = 0
                 /\ request'[q].knows \in {0, password} \/ q \in late'
      <3>1. CASE q # r
        BY <1>2, <3>1, HandleFacts DEF Compares
      <3>2. CASE q = r
        BY <1>2, <1>k, <3>2, HandleFacts, IdleFacts DEF Compares
      <3> QED
        BY <3>1, <3>2
    <2> QED
      BY <2>1, <2>2 DEF Compares
  <1>3. ASSUME NEW r \in Requests, ChangeCommit(r) PROVE Compares'
    <2>1. Handle(r)
      BY <1>3 DEF Handle
    <2>2. /\ password' = password + 1 /\ late' = (late \cup Compared(r)) \ {r}
          /\ request[r].kind = "change"
      BY <1>3 DEF ChangeCommit
    <2>3. request'[r] = Idle
      BY <2>1, <2>2, HandleFacts
    <2>4. password \in Nat
      BY DEF TypeOK
    <2> QED
      BY <1>k, <2>1, <2>2, <2>3, <2>4, HandleFacts, IdleFacts DEF Compares, Compared
  <1>4. CASE revokeAllExcept \/ SessionExpires \/ RequestDeletion \/ Tick \/ UNCHANGED vars
    <2>1. UNCHANGED <<password, request, late>>
      BY <1>4, EndFacts DEF RequestDeletion, Tick, vars, tables
    <2> QED
      BY <2>1 DEF Compares
  <1> QED
    BY <1>1, <1>2, <1>3, <1>4 DEF Next, Handle

LEMMA NextKnows ==
    ASSUME TypeOK, Compares, SessionsKnowThePassword, [Next]_vars
    PROVE  SessionsKnowThePassword'
  <1> SUFFICES ASSUME NEW s \in SessionIds, AdmittedPending(s)', session'[s].knows # password'
               PROVE  s \in stale'
    BY DEF SessionsKnowThePassword
  <1>s. session'[s].state = "live" /\ ~session'[s].reauth
    BY DEF AdmittedPending
  <1>1. ASSUME /\ session'[s].state = session[s].state /\ session'[s].reauth = session[s].reauth
               /\ session'[s].knows = session[s].knows
               /\ password' = password /\ (s \in stale => s \in stale')
        PROVE  s \in stale'
    BY <1>s, <1>1 DEF SessionsKnowThePassword, AdmittedPending
  <1>2. ASSUME NEW r \in Requests, issueSession(r) PROVE s \in stale'
    <2>1. PICK t \in SessionIds :
            /\ \A u \in SessionIds \ {t} : session'[u] = session[u]
            /\ session'[t].knows = request[r].knows
            /\ stale' = IF r \in late THEN stale \cup {t} ELSE stale
      BY <1>2, IssueFacts
    <2>2. password' = password /\ request[r].kind \in CompareKinds
      BY <1>2 DEF issueSession, CompareKinds
    <2> QED
      BY <1>1, <2>1, <2>2 DEF Compares
  <1>3. ASSUME NEW r \in Requests, ChangeCommit(r) PROVE s \in stale'
    <2>1. stale' = stale \ {request[r].session}
      BY <1>3 DEF ChangeCommit
    <2> QED
      BY <1>3, <1>s, ChangeFacts
  <1>4. ASSUME NEW r \in Requests, ReauthCommit(r) PROVE s \in stale'
    <2>1. /\ stale' = IF r \in late THEN stale \cup {request[r].session} ELSE stale \ {request[r].session}
          /\ password' = password /\ request[r].kind \in CompareKinds
      BY <1>4 DEF ReauthCommit, CompareKinds
    <2> QED
      BY <1>1, <1>4, <2>1, ReauthFacts DEF Compares
  <1>5. ASSUME NEW r \in Requests, ClearPending(r) PROVE s \in stale'
    <2>1. password' = password /\ stale' = stale
      BY <1>5 DEF ClearPending, history
    <2> QED
      BY <1>1, <1>5, <2>1, ClearFacts
  <1>6. CASE revokeAllExcept \/ SessionExpires
    BY <1>1, <1>6, <1>s, EndFacts
  <1>7. ASSUME UNCHANGED <<session, password, stale>> PROVE s \in stale'
    BY <1>1, <1>7
  <1>8. ASSUME NEW r \in Requests,
               Arrive(r) \/ LoginFactor(r) \/ issueBackupCodes(r) \/ StepSpend(r)
                 \/ redeemBackupCode(r) \/ RemoveCommit(r) \/ deleteAccount(r) \/ Fail(r)
        PROVE  UNCHANGED <<session, password, stale>>
    BY <1>8, ArriveFacts DEF LoginFactor, issueBackupCodes, StepSpend, redeemBackupCode,
         RemoveCommit, deleteAccount, Fail, tables, history
  <1>9. CASE RequestDeletion \/ Tick \/ UNCHANGED vars
    BY <1>7, <1>9 DEF RequestDeletion, Tick, vars, tables, history
  <1> QED
    BY <1>2, <1>3, <1>4, <1>5, <1>6, <1>7, <1>8, <1>9 DEF Next, Handle

(* SessionsKnowThePassword: no session that knows an old master password is *)
(* admitted, but those let in by a comparison that a change has overtaken.  *)
(* (backend/src/modules/auth/session.ts:61-65)                              *)
THEOREM ChangeShutsOldSessions == Spec => []SessionsKnowThePassword
  <1> DEFINE I == TypeOK /\ Compares /\ SessionsKnowThePassword
  <1>1. Init => I
    BY InitTyped, InitCompares
  <1>2. I /\ [Next]_vars => I'
    BY NextTyped, NextCompares, NextKnows
  <1> QED
    BY <1>1, <1>2, PTL DEF Spec

-----------------------------------------------------------------------------
(* What a code is good for *)

(* Codes are about to be issued for a factor that is there, unless it was   *)
(* removed since.                                                           *)
IssuesForAFactor ==
    \A r \in Requests : request[r].kind = "codes" => enrolment.on \/ r \in late

(* No code is issued, the ones that work still do, and the requests that    *)
(* are about to issue some are there or have been cut off.                  *)
LEMMA CodesStay ==
    ASSUME TypeOK, CodesBelongToTheFactor,
           \A c \in Codes : \/ code'[c].state # "live" \/ code'[c].deletion \/ code'[c] = code[c],
           \/ (enrolment.on => enrolment'.on) /\ enrolment'.seed = enrolment.seed
           \/ \E r \in Requests : request'[r].kind = "codes",
           orphans' = orphans,
           \A r \in Requests :
             request[r].kind = "codes" => request'[r].kind = "codes" \/ cutOff',
           cutOff => cutOff'
    PROVE  CodesBelongToTheFactor'
  BY DEF CodesBelongToTheFactor

LEMMA NextBelongs ==
    ASSUME TypeOK, IssuesForAFactor, CodesBelongToTheFactor, [Next]_vars
    PROVE  CodesBelongToTheFactor'
  <1>1. ASSUME NEW r \in Requests, Arrive(r) PROVE CodesBelongToTheFactor'
    BY <1>1, ArriveFacts, IdleFacts, CodesStay
  <1>2. ASSUME NEW r \in Requests, Handle(r) \/ Fail(r), ~issueBackupCodes(r), ~RemoveCommit(r)
        PROVE  CodesBelongToTheFactor'
    <2>1. orphans' = orphans
      BY <1>2 DEF Handle, Fail, LoginFactor, issueSession, ChangeCommit, ReauthCommit, StepSpend,
           redeemBackupCode, ClearPending, deleteAccount, tables, history
    <2>2. cutOff => cutOff'
      BY <1>2 DEF Handle, Fail, LoginFactor, issueSession, ChangeCommit, ReauthCommit, StepSpend,
           redeemBackupCode, ClearPending, deleteAccount, tables, history
    <2>3. (enrolment.on => enrolment'.on) /\ enrolment'.seed = enrolment.seed
      <3>1. CASE StepSpend(r)
        BY <3>1, EnrolmentFacts
      <3>2. CASE ~StepSpend(r)
        BY <1>2, <3>2 DEF Handle, Fail, LoginFactor, issueSession, ChangeCommit, ReauthCommit,
             redeemBackupCode, ClearPending, deleteAccount, tables, history
      <3> QED
        BY <3>1, <3>2
    <2>4. \A c \in Codes : code'[c].state # "live" \/ code'[c] = code[c]
      <3>1. CASE redeemBackupCode(r)
        BY <3>1, RedeemFacts
      <3>2. CASE ~redeemBackupCode(r)
        BY <1>2, <3>2 DEF Handle, Fail, LoginFactor, issueSession, ChangeCommit, ReauthCommit,
             StepSpend, ClearPending, deleteAccount, tables, history
      <3> QED
        BY <3>1, <3>2
    <2>5. \A q \in Requests : request[q].kind = "codes" => request'[q].kind = "codes" \/ cutOff'
      <3>1. request[r].kind = "codes" => Fail(r)
        BY <1>2 DEF Handle, LoginFactor, issueSession, ChangeCommit, ReauthCommit, StepSpend,
             redeemBackupCode, ClearPending, deleteAccount
      <3> QED
        BY <1>2, <3>1, HandleFacts DEF Fail
    <2> QED
      BY <2>1, <2>2, <2>3, <2>4, <2>5, CodesStay
  <1>3. ASSUME NEW r \in Requests, issueBackupCodes(r) PROVE CodesBelongToTheFactor'
    <2>1. request[r].kind = "codes" /\ UNCHANGED <<enrolment, cutOff>>
      BY <1>3 DEF issueBackupCodes
    <2> QED
      BY <1>3, <2>1, IssueCodesFacts DEF IssuesForAFactor, CodesBelongToTheFactor
  <1>4. ASSUME NEW r \in Requests, RemoveCommit(r) PROVE CodesBelongToTheFactor'
    BY <1>4, NoCodesFacts DEF RemoveCommit, CodesBelongToTheFactor
  <1>5. CASE RequestDeletion
    <2>1. UNCHANGED <<enrolment, request, orphans, cutOff>>
      BY <1>5 DEF RequestDeletion, history
    <2> QED
      BY <1>5, <2>1, TokenFacts, CodesStay
  <1>6. CASE revokeAllExcept \/ SessionExpires \/ Tick \/ UNCHANGED vars
    <2>1. UNCHANGED <<enrolment, code, request, orphans, cutOff>>
      BY <1>6, EndFacts DEF Tick, vars, tables, history
    <2> QED
      BY <2>1, CodesStay
  <1> QED
    BY <1>1, <1>2, <1>3, <1>4, <1>5, <1>6 DEF Next, Handle

LEMMA NextIssues ==
    ASSUME TypeOK, IssuesForAFactor, [Next]_vars
    PROVE  IssuesForAFactor'
  <1>1. ASSUME NEW r \in Requests, Arrive(r) PROVE IssuesForAFactor'
    <2>1. enrolment.on => enrolment'.on
      BY <1>1, ArriveFacts
    <2> QED
      BY <1>1, <2>1, ArriveFacts DEF IssuesForAFactor
  <1>2. ASSUME NEW r \in Requests, Handle(r) \/ Fail(r), ~RemoveCommit(r) PROVE IssuesForAFactor'
    <2>1. enrolment.on => enrolment'.on
      <3>1. CASE StepSpend(r)
        BY <3>1, EnrolmentFacts
      <3>2. CASE ~StepSpend(r)
        BY <1>2, <3>2 DEF Handle, Fail, LoginFactor, issueSession, ChangeCommit, ReauthCommit,
             issueBackupCodes, redeemBackupCode, ClearPending, deleteAccount, tables, history
      <3> QED
        BY <3>1, <3>2
    <2>2. request'[r].kind # "codes"
      BY <1>2, HandleFacts, IdleFacts
    <2> QED
      BY <1>2, <2>1, <2>2, HandleFacts DEF IssuesForAFactor
  <1>3. ASSUME NEW r \in Requests, RemoveCommit(r) PROVE IssuesForAFactor'
    <2>1. Handle(r)
      BY <1>3 DEF Handle
    <2>2. late' = (late \cup At(r, "codes")) \ {r}
      BY <1>3 DEF RemoveCommit
    <2>3. request'[r].kind # "codes"
      BY <2>1, HandleFacts, IdleFacts
    <2> QED
      BY <2>1, <2>2, <2>3, HandleFacts DEF IssuesForAFactor, At
  <1>4. CASE revokeAllExcept \/ SessionExpires \/ RequestDeletion \/ Tick \/ UNCHANGED vars
    <2>1. UNCHANGED <<enrolment, request, late>>
      BY <1>4, EndFacts DEF RequestDeletion, Tick, vars, tables
    <2> QED
      BY <2>1 DEF IssuesForAFactor
  <1> QED
    BY <1>1, <1>2, <1>3, <1>4 DEF Next, Handle

LEMMA InitBelongs == Init => IssuesForAFactor /\ CodesBelongToTheFactor
  <1> SUFFICES ASSUME Init PROVE IssuesForAFactor /\ CodesBelongToTheFactor
    OBVIOUS
  <1>1. IssuesForAFactor
    BY IdleFacts DEF Init, IssuesForAFactor
  <1>2. CASE code = [c \in Codes |-> NoRow]
    <2>1. \A c \in Codes : code[c].state = "unborn"
      BY <1>2, RowFacts
    <2> QED
      BY <1>1, <2>1 DEF CodesBelongToTheFactor
  <1>3. CASE /\ enrolment = [on |-> TRUE, seed |-> 1, last |-> 0]
             /\ \E first \in Codes :
                  code = [c \in Codes |-> IF c = first THEN [NoRow EXCEPT !.state = "live", !.seed = 1]
                                                       ELSE NoRow]
    <2>1. [NoRow EXCEPT !.state = "live", !.seed = 1].seed = 1
      BY DEF NoRow
    <2>2. \A c \in Codes : code[c].state = "unborn" \/ code[c].seed = 1
      BY <1>3, <2>1, RowFacts
    <2>3. enrolment.on /\ enrolment.seed = 1
      BY <1>3
    <2> QED
      BY <1>1, <2>2, <2>3 DEF CodesBelongToTheFactor
  <1> QED
    BY <1>1, <1>2, <1>3 DEF Init

(* CodesBelongToTheFactor: a backup code works for the factor it was issued *)
(* under and no other.                                                      *)
(* (backend/src/modules/auth/backup-codes.ts:45-46)                         *)
THEOREM CodesGoWithTheirFactor == Spec => []CodesBelongToTheFactor
  <1> DEFINE I == TypeOK /\ IssuesForAFactor /\ CodesBelongToTheFactor
  <1>1. Init => I
    BY InitTyped, InitBelongs
  <1>2. I /\ [Next]_vars => I'
    BY NextTyped, NextIssues, NextBelongs
  <1> QED
    BY <1>1, <1>2, PTL DEF Spec

-----------------------------------------------------------------------------
(* What proves a second factor *)

(* Steps that a spending which came late has freed.                         *)
Freed == {p \in Proof : p.step > 0 /\ <<p.seed, p.step>> \in loose}

(* Proofs that have been spent: no spending in order accepts them again.    *)
SpentStep(p) ==
    /\ p.step > 0 /\ p.code = NoCode /\ p.seed <= enrolment.seed
    /\ enrolment.on /\ p.seed = enrolment.seed => p.step <= enrolment.last \/ p \in Freed

SpentCode(p) ==
    /\ p.step = 0 /\ p.seed = 0
    /\ p.code \in Codes /\ code[p.code].state \in {"used", "deleted"}

Taken == {p \in Proof : SpentStep(p) \/ SpentCode(p)}

(* Sessions and the requests about to let one in hold spent proofs, each    *)
(* its own.                                                                 *)
HeldOnce ==
    /\ \A s \in SessionIds : session[s].proof = NoProof \/ session[s].proof \in Taken
    /\ \A r \in Requests : request[r].kind = "clear" => request[r].proof \in Taken
    /\ \A s, t \in SessionIds :
         session[s].proof = session[t].proof =>
           s = t \/ session[s].proof = NoProof \/ session[s].proof \in Freed
    /\ \A q, r \in Requests :
         request[q].kind = "clear" /\ request[r].kind = "clear" /\ request[q].proof = request[r].proof =>
           q = r \/ request[r].proof \in Freed
    /\ \A s \in SessionIds, r \in Requests :
         request[r].kind = "clear" /\ session[s].proof = request[r].proof => request[r].proof \in Freed

(* What a request is about to spend is, unless it is late, not spent yet.   *)
AboutToSpend ==
    \A r \in Requests :
      LET proof == request[r].proof
      IN  /\ request[r].kind = "redeem" =>
               proof.step = 0 /\ proof.seed = 0 /\ proof.code \in Codes
          /\ request[r].kind = "step" =>
               /\ proof.step > 0 /\ proof.code = NoCode /\ proof.seed <= enrolment.seed
               /\ r \in late \/ proof.step > enrolment.last
               /\ \A s \in SessionIds :
                    session[s].proof = proof => r \in late \/ proof \in Freed
               /\ \A q \in Requests :
                    request[q].kind = "clear" /\ request[q].proof = proof => r \in late \/ proof \in Freed

LEMMA SpentFacts ==
    /\ \A p \in Taken : \/ p.step > 0 /\ p.code = NoCode
                        \/ p.step = 0 /\ p.seed = 0 /\ p.code \in Codes
    /\ NoProof \notin Taken
  <1>1. \A p \in Taken : \/ p.step > 0 /\ p.code = NoCode
                         \/ p.step = 0 /\ p.seed = 0 /\ p.code \in Codes
    <2> TAKE p \in Taken
    <2>1. SpentStep(p) \/ SpentCode(p)
      BY DEF Taken
    <2> QED
      BY <2>1 DEF SpentStep, SpentCode
  <1>2. NoProof.step = 0 /\ NoProof.code = NoCode /\ NoCode \notin Codes
    BY AccountAssumption, ProofFacts
  <1> QED
    BY <1>1, <1>2

SpendKinds == {"step", "redeem", "clear"}

(* Nothing is spent and no session is let in.                               *)
LEMMA OnceStays ==
    ASSUME HeldOnce, AboutToSpend,
           \A s \in SessionIds : session'[s].proof \in {session[s].proof, NoProof},
           \A q \in Requests :
             \/ request'[q].kind \notin SpendKinds
             \/ request'[q].kind = request[q].kind /\ request'[q].proof = request[q].proof
                  /\ (q \in late => q \in late'),
           loose' = loose,
           Taken \subseteq Taken',
           \A q \in Requests : request[q].kind = "step" =>
             /\ request[q].proof.seed <= enrolment.seed => request[q].proof.seed <= enrolment'.seed
             /\ request[q].proof.step > enrolment.last => request[q].proof.step > enrolment'.last
                  \/ q \in late'
    PROVE  HeldOnce' /\ AboutToSpend'
  <1>f. Freed' = Freed
    BY DEF Freed
  <1>n. NoProof.step = 0 /\ NoProof.code = NoCode /\ NoCode \notin Codes
    BY AccountAssumption, ProofFacts
  <1>1. \A s \in SessionIds : session'[s].proof = NoProof \/ session'[s].proof = session[s].proof
    OBVIOUS
  <1>2. \A q \in Requests :
          /\ request'[q].kind = "clear" => request[q].kind = "clear" /\ request'[q].proof = request[q].proof
          /\ request'[q].kind = "redeem" => request[q].kind = "redeem" /\ request'[q].proof = request[q].proof
          /\ request'[q].kind = "step" =>
               request[q].kind = "step" /\ request'[q].proof = request[q].proof /\ (q \in late => q \in late')
    BY DEF SpendKinds
  <1>3. \A s \in SessionIds : session'[s].proof = NoProof \/ session'[s].proof \in Taken'
    BY <1>1 DEF HeldOnce
  <1>4. \A r \in Requests : request'[r].kind = "clear" => request'[r].proof \in Taken'
    BY <1>2 DEF HeldOnce
  <1>c. \A r \in Requests : request'[r].kind = "clear" => request'[r].proof # NoProof
    <2>1. NoProof \notin Taken'
      BY <1>n DEF Taken, SpentStep, SpentCode
    <2> QED
      BY <1>4, <2>1
  <1>p. \A r \in Requests : request[r].kind = "step" => request[r].proof # NoProof
    BY <1>n DEF AboutToSpend
  <1>5. \A s, t \in SessionIds :
         session'[s].proof = session'[t].proof =>
           s = t \/ session'[s].proof = NoProof \/ session'[s].proof \in Freed'
    BY <1>1, <1>f DEF HeldOnce
  <1>6. \A q, r \in Requests :
         request'[q].kind = "clear" /\ request'[r].kind = "clear" /\ request'[q].proof = request'[r].proof =>
           q = r \/ request'[r].proof \in Freed'
    BY <1>2, <1>f DEF HeldOnce
  <1>7. \A s \in SessionIds, r \in Requests :
         request'[r].kind = "clear" /\ session'[s].proof = request'[r].proof => request'[r].proof \in Freed'
    BY <1>1, <1>2, <1>c, <1>f DEF HeldOnce
  <1>8. AboutToSpend'
    <2> SUFFICES ASSUME NEW r \in Requests
                 PROVE  LET proof == request'[r].proof
                        IN  /\ request'[r].kind = "redeem" =>
                                 proof.step = 0 /\ proof.seed = 0 /\ proof.code \in Codes
                            /\ request'[r].kind = "step" =>
                                 /\ proof.step > 0 /\ proof.code = NoCode /\ proof.seed <= enrolment'.seed
                                 /\ r \in late' \/ proof.step > enrolment'.last
                                 /\ \A s \in SessionIds :
                                      session'[s].proof = proof => r \in late' \/ proof \in Freed'
                                 /\ \A q \in Requests :
                                      request'[q].kind = "clear" /\ request'[q].proof = proof =>
                                        r \in late' \/ proof \in Freed'
      BY DEF AboutToSpend
    <2>1. CASE request'[r].kind = "redeem"
      BY <2>1, <1>2 DEF AboutToSpend
    <2>2. CASE request'[r].kind = "step"
      <3>1. /\ request[r].kind = "step" /\ request'[r].proof = request[r].proof
            /\ r \in late => r \in late'
        BY <2>2, <1>2
      <3>2. /\ request[r].proof.step > 0 /\ request[r].proof.code = NoCode
            /\ request[r].proof.seed <= enrolment'.seed
            /\ r \in late' \/ request[r].proof.step > enrolment'.last
        BY <3>1 DEF AboutToSpend
      <3>3. \A s \in SessionIds : session'[s].proof = request[r].proof => r \in late' \/ request[r].proof \in Freed'
        BY <3>1, <1>1, <1>f, <1>p DEF AboutToSpend
      <3>4. \A q \in Requests :
              request'[q].kind = "clear" /\ request'[q].proof = request[r].proof =>
                r \in late' \/ request[r].proof \in Freed'
        BY <3>1, <1>2, <1>f DEF AboutToSpend
      <3> QED
        BY <2>2, <3>1, <3>2, <3>3, <3>4
    <2> QED
      BY <2>1, <2>2
  <1> QED
    BY <1>3, <1>4, <1>5, <1>6, <1>7, <1>8 DEF HeldOnce

(* What has been spent remains so, unless a spending takes lastUsedStep back *)
LEMMA SpentStays ==
    ASSUME TypeOK, loose' = loose,
           \/ UNCHANGED enrolment
           \/ enrolment'.seed = enrolment.seed + 1
           \/ ~enrolment'.on /\ enrolment'.seed = enrolment.seed,
           \A c \in Codes :
             code[c].state \in {"used", "deleted"} => code'[c].state \in {"used", "deleted"}
    PROVE  Taken \subseteq Taken'
  <1> SUFFICES ASSUME NEW p \in Proof, SpentStep(p) \/ SpentCode(p)
               PROVE  SpentStep(p)' \/ SpentCode(p)'
    BY DEF Taken
  <1>t. p.seed \in Nat /\ p.step \in Nat /\ enrolment.seed \in Nat
    BY DEF Proof, TypeOK
  <1>1. CASE SpentStep(p)
    <2>1. Freed' = Freed
      BY DEF Freed
    <2>2. SpentStep(p)'
      BY <1>1, <1>t, <2>1 DEF SpentStep
    <2> QED
      BY <2>2
  <1>2. CASE SpentCode(p)
    BY <1>2 DEF SpentCode
  <1> QED
    BY <1>1, <1>2

LEMMA FreshIsFreed ==
    ASSUME TypeOK, NEW p \in Taken, enrolment.on, p.seed = enrolment.seed, p.step > enrolment.last
    PROVE  p \in Freed
  <1>1. p.step \in Nat /\ enrolment.last \in Nat /\ (SpentStep(p) \/ SpentCode(p))
    BY DEF TypeOK, Taken, Proof
  <1> QED
    BY <1>1 DEF SpentStep, SpentCode

LEMMA ArriveOnce ==
    ASSUME TypeOK, HeldOnce, AboutToSpend, NEW r \in Requests, Arrive(r)
    PROVE  HeldOnce' /\ AboutToSpend'
  <1>1. /\ \A q \in Requests \ {r} : request'[q] = request[q]
        /\ request'[r].kind # "clear"
        /\ UNCHANGED <<session, code, late, loose>>
        /\ \/ UNCHANGED enrolment
           \/ enrolment'.seed = enrolment.seed + 1 /\ enrolment'.last = 0 /\ request'[r].kind = "codes"
    BY ArriveFacts
  <1>2. Taken \subseteq Taken' /\ Freed' = Freed
    BY <1>1, SpentStays DEF Freed
  <1>3. HeldOnce'
    BY <1>1, <1>2 DEF HeldOnce
  <1>4. AboutToSpend'
    <2> SUFFICES ASSUME NEW q \in Requests
                 PROVE  LET proof == request'[q].proof
                        IN  /\ request'[q].kind = "redeem" =>
                                 proof.step = 0 /\ proof.seed = 0 /\ proof.code \in Codes
                            /\ request'[q].kind = "step" =>
                                 /\ proof.step > 0 /\ proof.code = NoCode /\ proof.seed <= enrolment'.seed
                                 /\ q \in late' \/ proof.step > enrolment'.last
                                 /\ \A s \in SessionIds :
                                      session'[s].proof = proof => q \in late' \/ proof \in Freed'
                                 /\ \A o \in Requests :
                                      request'[o].kind = "clear" /\ request'[o].proof = proof =>
                                        q \in late' \/ proof \in Freed'
      BY DEF AboutToSpend
    <2>1. CASE q # r
      <3>1. enrolment.seed \in Nat /\ request[q].proof.seed \in Nat
        BY RequestFacts DEF TypeOK, Proof
      <3>2. /\ request[q].proof.seed <= enrolment.seed => request[q].proof.seed <= enrolment'.seed
            /\ request[q].proof.step > enrolment.last /\ request[q].proof.step > 0 =>
                 request[q].proof.step > enrolment'.last
        BY <1>1, <3>1
      <3> QED
        BY <1>1, <1>2, <2>1, <3>2 DEF AboutToSpend
    <2>2. CASE q = r /\ request'[r].kind = "step"
      <3> DEFINE proof == request'[r].proof
      <3>1. /\ proof.step > 0 /\ proof.code = NoCode /\ proof.seed = enrolment.seed
            /\ proof.step > enrolment.last /\ enrolment.on /\ UNCHANGED enrolment
        BY <1>1, <2>2, ArriveFacts
      <3>2. proof # NoProof /\ (proof \in Taken => proof \in Freed)
        BY <3>1, ProofFacts, FreshIsFreed
      <3>3. /\ \A s \in SessionIds : session'[s].proof = proof => proof \in Freed'
            /\ \A o \in Requests : request'[o].kind = "clear" /\ request'[o].proof = proof => proof \in Freed'
        BY <1>1, <1>2, <3>2 DEF HeldOnce
      <3>4. proof.seed <= enrolment'.seed /\ proof.step > enrolment'.last
        BY <3>1 DEF TypeOK
      <3> QED
        BY <2>2, <3>1, <3>3, <3>4
    <2>3. CASE q = r /\ request'[r].kind # "step"
      BY <2>3, ArriveFacts
    <2> QED
      BY <2>1, <2>2, <2>3
  <1> QED
    BY <1>3, <1>4

(* The first proof of a session is the one of the request that lets it in.  *)
LEMMA ClearOnce ==
    ASSUME TypeOK, HeldOnce, AboutToSpend, NEW r \in Requests, ClearPending(r)
    PROVE  HeldOnce' /\ AboutToSpend'
  <1> DEFINE mine == request[r].session
  <1>1. /\ mine \in SessionIds /\ session'[mine].proof \in {session[mine].proof, request[r].proof}
        /\ \A t \in SessionIds \ {mine} : session'[t] = session[t]
    BY ClearFacts
  <1>2. /\ request[r].kind = "clear" /\ request'[r].kind = "idle" /\ late' = late \ {r}
        /\ \A q \in Requests \ {r} : request'[q] = request[q]
        /\ UNCHANGED <<enrolment, code, loose>>
    BY FinishFacts, IdleFacts DEF ClearPending, history
  <1>3. Taken' = Taken /\ Freed' = Freed
    BY <1>2 DEF Taken, SpentStep, SpentCode, Freed
  <1> HIDE DEF mine
  <1>4. \A s \in SessionIds : session'[s].proof = NoProof \/ session'[s].proof \in Taken'
    BY <1>1, <1>2, <1>3 DEF HeldOnce
  <1>5. \A s, t \in SessionIds :
          session'[s].proof = session'[t].proof =>
            s = t \/ session'[s].proof = NoProof \/ session'[s].proof \in Freed'
    BY <1>1, <1>2, <1>3 DEF HeldOnce
  <1>6. \A s \in SessionIds, q \in Requests :
          request'[q].kind = "clear" /\ session'[s].proof = request'[q].proof => request'[q].proof \in Freed'
    BY <1>1, <1>2, <1>3 DEF HeldOnce
  <1>7. HeldOnce'
    BY <1>2, <1>3, <1>4, <1>5, <1>6 DEF HeldOnce
  <1>8. AboutToSpend'
    BY <1>1, <1>2, <1>3 DEF AboutToSpend
  <1> QED
    BY <1>7, <1>8

(* A code is marked used by one request.                                    *)
LEMMA RedeemOnce ==
    ASSUME TypeOK, HeldOnce, AboutToSpend, NEW r \in Requests, redeemBackupCode(r)
    PROVE  HeldOnce' /\ AboutToSpend'
  <1> DEFINE proof == request[r].proof
  <1>1. /\ request[r].kind = "redeem" /\ request'[r].kind = "clear" /\ request'[r].proof = proof
        /\ \A q \in Requests \ {r} : request'[q] = request[q]
        /\ UNCHANGED <<session, enrolment, late, loose>>
    BY GoesOnFacts DEF redeemBackupCode, history, Kinds
  <1>2. proof \in Proof /\ proof.step = 0 /\ proof.seed = 0 /\ proof.code \in Codes
    BY <1>1, RequestFacts DEF AboutToSpend
  <1>3. /\ code[proof.code].state = "live" /\ code'[proof.code].state = "used"
        /\ \A c \in Codes \ {proof.code} : code'[c] = code[c]
    BY <1>2, RedeemFacts
  <1> HIDE DEF proof
  <1>4. Taken \subseteq Taken' /\ Freed' = Freed
    BY <1>1, <1>3, SpentStays DEF Freed
  <1>5. proof \notin Taken /\ proof \in Taken'
    BY <1>2, <1>3 DEF Taken, SpentStep, SpentCode
  <1>6. proof # NoProof
    BY <1>2, AccountAssumption, ProofFacts
  <1>7. HeldOnce'
    BY <1>1, <1>4, <1>5, <1>6 DEF HeldOnce
  <1>8. ASSUME NEW q \in Requests, request[q].kind = "step" PROVE request[q].proof # proof
    BY <1>2, <1>8 DEF AboutToSpend
  <1>9. AboutToSpend'
    BY <1>1, <1>4, <1>8 DEF AboutToSpend
  <1> QED
    BY <1>7, <1>9

(* A time step is spent: in order, beyond every other; or late, and then    *)
(* what it takes lastUsedStep back over is freed.                           *)
LEMMA SpendOnce ==
    ASSUME TypeOK, HeldOnce, AboutToSpend, NEW r \in Requests, StepSpend(r)
    PROVE  HeldOnce' /\ AboutToSpend'
  <1>0. PICK proof : proof = request[r].proof
    OBVIOUS
  <1>1. /\ request[r].kind = "step" /\ request'[r].kind = "clear" /\ request'[r].proof = proof
        /\ \A q \in Requests \ {r} : request'[q] = request[q]
        /\ late' = (late \cup At(r, "step")) \ {r}
        /\ loose' = IF r \in late THEN loose \cup FreedBy(proof) ELSE loose
        /\ UNCHANGED <<session, code>>
    BY <1>0, GoesOnFacts DEF StepSpend, Kinds
  <1>2. /\ enrolment.on /\ enrolment'.on /\ enrolment'.seed = enrolment.seed
        /\ enrolment'.last = proof.step
    BY <1>0, EnrolmentFacts
  <1>3. /\ proof \in Proof /\ proof.step > 0 /\ proof.code = NoCode /\ proof.seed <= enrolment.seed
        /\ r \in late \/ proof.step > enrolment.last
        /\ \A s \in SessionIds : session[s].proof = proof => r \in late \/ proof \in Freed
        /\ \A q \in Requests :
             request[q].kind = "clear" /\ request[q].proof = proof => r \in late \/ proof \in Freed
    BY <1>0, <1>1, RequestFacts DEF AboutToSpend
  <1>t. /\ proof.seed \in Nat /\ proof.step \in Nat
        /\ enrolment.seed \in Nat /\ enrolment.last \in Nat
    BY <1>3 DEF Proof, TypeOK
  <1>4. Freed \subseteq Freed'
    BY <1>1 DEF Freed
  <1>5. r \in late => proof \in Freed'
    BY <1>1, <1>3 DEF Freed, FreedBy
  <1>6. proof \in Taken'
    <2>1. SpentStep(proof)'
      BY <1>2, <1>3, <1>t DEF SpentStep
    <2> QED
      BY <1>3, <2>1 DEF Taken
  <1>7. Taken \subseteq Taken'
    <2> SUFFICES ASSUME NEW p \in Proof, SpentStep(p) \/ SpentCode(p)
                 PROVE  SpentStep(p)' \/ SpentCode(p)'
      BY DEF Taken
    <2>t. p.seed \in Nat /\ p.step \in Nat
      BY DEF Proof
    <2>1. CASE SpentCode(p)
      BY <1>1, <2>1 DEF SpentCode
    <2>2. CASE SpentStep(p)
      <3>1. /\ p.step > 0 /\ p.code = NoCode /\ p.seed <= enrolment'.seed
        BY <1>2, <2>2 DEF SpentStep
      <3>2. ASSUME p.seed = enrolment.seed, p.step > enrolment'.last, p \notin Freed
            PROVE  p \in Freed'
        <4>1. p.step <= enrolment.last
          BY <1>2, <2>2, <3>2 DEF SpentStep
        <4>2. r \in late
          BY <1>2, <1>3, <1>t, <2>t, <3>2, <4>1
        <4>3. p.step \in proof.step .. enrolment.last
          BY <1>2, <1>t, <2>t, <3>2, <4>1
        <4>4. <<p.seed, p.step>> \in FreedBy(proof)
          BY <3>2, <4>3 DEF FreedBy
        <4> QED
          BY <1>1, <3>1, <4>2, <4>4 DEF Freed
      <3>3. SpentStep(p)'
        <4>1. p.seed = enrolment'.seed => p.step <= enrolment'.last \/ p \in Freed'
          BY <1>2, <1>4, <1>t, <2>t, <3>2
        <4> QED
          BY <3>1, <4>1 DEF SpentStep
      <3> QED
        BY <3>3
    <2> QED
      BY <2>1, <2>2
  <1>8. \A s \in SessionIds : session[s].proof = proof => proof \in Freed'
    BY <1>3, <1>4, <1>5
  <1>9. \A q \in Requests : request[q].kind = "clear" /\ request[q].proof = proof => proof \in Freed'
    BY <1>3, <1>4, <1>5
  <1>10. HeldOnce'
    <2>1. \A s \in SessionIds : session'[s].proof = NoProof \/ session'[s].proof \in Taken'
      BY <1>1, <1>7 DEF HeldOnce
    <2>2. \A q \in Requests : request'[q].kind = "clear" => request'[q].proof \in Taken'
      BY <1>1, <1>6, <1>7 DEF HeldOnce
    <2>3. \A s, t \in SessionIds :
           session'[s].proof = session'[t].proof =>
             s = t \/ session'[s].proof = NoProof \/ session'[s].proof \in Freed'
      BY <1>1, <1>4 DEF HeldOnce
    <2>4. \A o, q \in Requests :
           request'[o].kind = "clear" /\ request'[q].kind = "clear" /\ request'[o].proof = request'[q].proof =>
             o = q \/ request'[q].proof \in Freed'
      BY <1>1, <1>4, <1>9 DEF HeldOnce
    <2>5. \A s \in SessionIds, q \in Requests :
           request'[q].kind = "clear" /\ session'[s].proof = request'[q].proof => request'[q].proof \in Freed'
      BY <1>1, <1>4, <1>8 DEF HeldOnce
    <2> QED
      BY <2>1, <2>2, <2>3, <2>4, <2>5 DEF HeldOnce
  <1>11. AboutToSpend'
    <2>1. \A q \in Requests :
            /\ request'[q].kind = "step" => q # r /\ request'[q] = request[q] /\ q \in late'
            /\ request'[q].kind = "redeem" => request'[q] = request[q]
      BY <1>1 DEF At
    <2> QED
      BY <1>2, <2>1 DEF AboutToSpend
  <1> QED
    BY <1>10, <1>11

LEMMA NextOnce ==
    ASSUME TypeOK, HeldOnce, AboutToSpend, [Next]_vars
    PROVE  HeldOnce' /\ AboutToSpend'
  <1>k. "idle" \notin SpendKinds /\ "issue" \notin SpendKinds
    BY DEF SpendKinds
  <1>1. ASSUME NEW r \in Requests, issueSession(r) \/ ChangeCommit(r) \/ ReauthCommit(r)
        PROVE  HeldOnce' /\ AboutToSpend'
    <2>1. Handle(r) /\ UNCHANGED <<enrolment, code, loose>>
      BY <1>1 DEF Handle, issueSession, ChangeCommit, ReauthCommit
    <2>2. \A s \in SessionIds : session'[s].proof \in {session[s].proof, NoProof}
      BY <1>1, IssueFacts, ChangeFacts, ReauthFacts
    <2>3. request[r].kind \notin SpendKinds
      BY <1>1 DEF issueSession, ChangeCommit, ReauthCommit, SpendKinds
    <2>4. request'[r] = Idle
      BY <1>1, <2>1, HandleFacts DEF issueSession, ChangeCommit, ReauthCommit
    <2>5. Taken \subseteq Taken'
      BY <2>1, SpentStays
    <2> QED
      BY <1>k, <2>1, <2>2, <2>4, <2>5, HandleFacts, IdleFacts, OnceStays
  <1>2. ASSUME NEW r \in Requests, LoginFactor(r) \/ deleteAccount(r) \/ Fail(r)
        PROVE  HeldOnce' /\ AboutToSpend'
    <2>1. /\ Handle(r) \/ Fail(r)
          /\ UNCHANGED <<session, enrolment, code, loose>>
      BY <1>2 DEF Handle, LoginFactor, deleteAccount, Fail, tables, history
    <2>2. request'[r].kind \notin SpendKinds
      <3>1. CASE LoginFactor(r)
        BY <1>k, <3>1, LoginFacts
      <3>2. CASE deleteAccount(r) \/ Fail(r)
        <4>1. Finish(r)
          BY <3>2 DEF deleteAccount, Fail
        <4> QED
          BY <1>k, <4>1, FinishFacts, IdleFacts
      <3> QED
        BY <1>2, <3>1, <3>2
    <2>3. Taken \subseteq Taken'
      BY <2>1, SpentStays
    <2> QED
      BY <2>1, <2>2, <2>3, HandleFacts, OnceStays
  <1>3. ASSUME NEW r \in Requests, issueBackupCodes(r) \/ RemoveCommit(r)
        PROVE  HeldOnce' /\ AboutToSpend'
    <2>1. Handle(r) /\ UNCHANGED <<session, loose>>
      BY <1>3 DEF Handle, issueBackupCodes, RemoveCommit, history
    <2>2. \A c \in Codes :
            code[c].state \in {"used", "deleted"} => code'[c].state \in {"used", "deleted"}
      <3>1. CASE issueBackupCodes(r)
        BY <3>1, IssueCodesFacts
      <3>2. CASE RemoveCommit(r)
        BY <3>2, NoCodesFacts DEF RemoveCommit
      <3> QED
        BY <1>3, <3>1, <3>2
    <2>3. \/ UNCHANGED enrolment
          \/ ~enrolment'.on /\ enrolment'.seed = enrolment.seed /\ enrolment'.last = 0
      <3>1. CASE issueBackupCodes(r)
        BY <3>1 DEF issueBackupCodes
      <3>2. CASE RemoveCommit(r)
        BY <3>2, EnrolmentFacts
      <3> QED
        BY <1>3, <3>1, <3>2
    <2>4. request'[r] = Idle
      BY <1>3, <2>1, HandleFacts DEF issueBackupCodes, RemoveCommit
    <2>5. Taken \subseteq Taken'
      BY <2>1, <2>2, <2>3, SpentStays
    <2>6. \A q \in Requests : request[q].kind = "step" =>
             /\ request[q].proof.seed <= enrolment.seed => request[q].proof.seed <= enrolment'.seed
             /\ request[q].proof.step > enrolment.last => request[q].proof.step > enrolment'.last
      BY <2>3 DEF AboutToSpend
    <2> QED
      BY <1>k, <2>1, <2>4, <2>5, <2>6, HandleFacts, IdleFacts, OnceStays
  <1>4. CASE revokeAllExcept \/ SessionExpires
    <2>1. /\ \A s \in SessionIds : session'[s].proof = session[s].proof
          /\ UNCHANGED <<enrolment, code, request, late, loose>>
      BY <1>4, EndFacts
    <2> QED
      BY <2>1, SpentStays, OnceStays
  <1>5. CASE RequestDeletion
    <2>1. UNCHANGED <<session, enrolment, request, late, loose>>
      BY <1>5 DEF RequestDeletion, history
    <2>2. \A c \in Codes :
            code[c].state \in {"used", "deleted"} => code'[c].state \in {"used", "deleted"}
      BY <1>5, TokenFacts
    <2> QED
      BY <2>1, <2>2, SpentStays, OnceStays
  <1>6. CASE Tick \/ UNCHANGED vars
    <2>1. UNCHANGED <<session, enrolment, code, request, late, loose>>
      BY <1>6 DEF Tick, vars, tables, history
    <2> QED
      BY <2>1, SpentStays, OnceStays
  <1> QED
    BY <1>1, <1>2, <1>3, <1>4, <1>5, <1>6, ArriveOnce, ClearOnce, RedeemOnce, SpendOnce
       DEF Next, Handle

LEMMA InitOnce == Init => HeldOnce /\ AboutToSpend
  BY RowFacts, IdleFacts DEF Init, HeldOnce, AboutToSpend

LEMMA ServedOnce == TypeOK /\ HeldOnce => BackupCodesServeOnce /\ StepsServeOnce
  <1> SUFFICES ASSUME TypeOK, HeldOnce, NEW s \in SessionIds, NEW t \in SessionIds, s # t,
                      session[s].proof = session[t].proof
               PROVE  /\ session[s].proof.code = NoCode
                      /\ session[s].proof.step # 0 =>
                           <<session[s].proof.seed, session[s].proof.step>> \in loose
    BY DEF BackupCodesServeOnce, StepsServeOnce
  <1>1. CASE session[s].proof = NoProof
    BY <1>1, ProofFacts
  <1>2. CASE session[s].proof # NoProof
    <2>1. session[s].proof \in Freed /\ session[s].proof \in Taken
      BY <1>2 DEF HeldOnce
    <2> QED
      BY <2>1, SpentFacts DEF Freed
  <1> QED
    BY <1>1, <1>2

(* BackupCodesServeOnce: a backup code lets in one session.                 *)
(* (backend/src/modules/auth/backup-codes.ts:59-60)                         *)
THEOREM OneSessionPerCode == Spec => []BackupCodesServeOnce
  <1>1. Init => TypeOK /\ HeldOnce /\ AboutToSpend
    BY InitTyped, InitOnce
  <1>2. TypeOK /\ HeldOnce /\ AboutToSpend /\ [Next]_vars => TypeOK' /\ HeldOnce' /\ AboutToSpend'
    BY NextTyped, NextOnce
  <1>3. TypeOK /\ HeldOnce => BackupCodesServeOnce
    BY ServedOnce
  <1> QED
    BY <1>1, <1>2, <1>3, PTL DEF Spec

(* StepsServeOnce: a time step lets in one session, but for those that      *)
(* overlapping verifications have freed.                                    *)
(* (backend/src/modules/auth/totp.routes.ts:145-147)                        *)
THEOREM OneSessionPerStep == Spec => []StepsServeOnce
  <1>1. Init => TypeOK /\ HeldOnce /\ AboutToSpend
    BY InitTyped, InitOnce
  <1>2. TypeOK /\ HeldOnce /\ AboutToSpend /\ [Next]_vars => TypeOK' /\ HeldOnce' /\ AboutToSpend'
    BY NextTyped, NextOnce
  <1>3. TypeOK /\ HeldOnce => StepsServeOnce
    BY ServedOnce
  <1> QED
    BY <1>1, <1>2, <1>3, PTL DEF Spec

-----------------------------------------------------------------------------
(* AccountKeys: what opens what *)

LEMMA MasterFacts ==
    ASSUME NEW a, NEW n
    PROVE  /\ Keys!deriveMasterKey(a, n)[1] = a
           /\ \A b, k : Keys!deriveMasterKey(a, n) = Keys!deriveMasterKey(b, k) => a = b /\ n = k
  BY DEF Keys!deriveMasterKey

LEMMA HashFacts ==
    ASSUME NEW m
    PROVE  /\ Keys!deriveAuthHash(m) # Keys!Nothing
           /\ \A w : Keys!deriveAuthHash(m) = Keys!deriveAuthHash(w) => m = w
  BY DEF Keys!deriveAuthHash, Keys!Nothing

LEMMA WrapFacts ==
    ASSUME NEW m, NEW k
    PROVE  /\ Keys!wrapUserKey(m, k) # Keys!Nothing
           /\ Keys!wrapUserKey(m, k).what = k
           /\ \A w : Keys!Unwraps(w, Keys!wrapUserKey(m, k)) <=> w = m
           /\ \A b : Keys!UserKey(b) # Keys!Nothing
  <1>1. Keys!wrapUserKey(m, k) # Keys!Nothing
    BY DEF Keys!wrapUserKey, Keys!encrypt, Keys!Nothing
  <1>2. \A w : Keys!deriveStretchedMasterKey(w) = Keys!deriveStretchedMasterKey(m) <=> w = m
    BY DEF Keys!deriveStretchedMasterKey
  <1>3. \A w : Keys!Unwraps(w, Keys!wrapUserKey(m, k)) <=> w = m
    BY <1>1, <1>2 DEF Keys!wrapUserKey, Keys!encrypt, Keys!Unwraps, Keys!Opens
  <1> QED
    BY <1>1, <1>3 DEF Keys!wrapUserKey, Keys!encrypt, Keys!UserKey, Keys!Nothing

LEMMA SeedFacts ==
    ASSUME NEW k
    PROVE  /\ Keys!encrypt(k, "seed") # Keys!Nothing
           /\ Keys!Opens(k, Keys!encrypt(k, "seed"))
  BY DEF Keys!encrypt, Keys!Nothing, Keys!Opens

-----------------------------------------------------------------------------
(* The invariant of the keys *)

(* An account's own key, under its own address and one of its passwords.    *)
OwnWrap(a, w) ==
    \E n \in Keys!Passwords :
        w = Keys!wrapUserKey(Keys!deriveMasterKey(a, n), Keys!UserKey(a))

SomeonesWrap(w) == w = Keys!Nothing \/ \E a \in Codes : OwnWrap(a, w)

(* What the server has of an account was made with one password: the        *)
(* account's address in it, the account's own key in the wrap.              *)
Matched ==
    \A a \in Codes : digest[a] # Keys!Nothing =>
        \E n \in Keys!Passwords :
            /\ digest[a] = Keys!deriveAuthHash(Keys!deriveMasterKey(a, n))
            /\ keyring[a] = Keys!wrapUserKey(Keys!deriveMasterKey(a, n), Keys!UserKey(a))

(* Wherever a wrap is kept, or on its way, it is an account's own. *)
WrapsAreTheirOwners ==
    /\ \A a \in Codes : keyring[a] = Keys!Nothing \/ OwnWrap(a, keyring[a])
    /\ \A p \in Requests : SomeonesWrap(page[p].ring)
    /\ \A c \in calls : SomeonesWrap(c.wrap)

(* A request is about the account of its session, which an account keeps;   *)
(* and a change on its way has that account's key.                          *)
CallsKnowTheirAccount ==
    \A c \in calls :
        /\ c.token # 0 => login[c.token].of = c.master[1]
        /\ c.kind = "in" => c.wrap # Keys!Nothing \/ c.token # 0
        /\ c.kind = "change" =>
               c.token # 0 /\ c.wrap = Keys!wrapUserKey(c.master, Keys!UserKey(c.master[1]))

(* A page that waits for an answer that would let it in does nothing else.  *)
OneFormIsBusy ==
    \A c \in calls : c.kind = "in" /\ c.from # Keys!Nothing =>
        /\ page[c.from].at \in {"locked", "reauth"}
        /\ \A d \in calls : d.kind = "in" /\ d.from = c.from => d = c

(* An open page has a key.  Where browsers are apart, it is the key of the  *)
(* account that its cookie names, and a page re-authenticates for that one. *)
CookiesAreTheirPages ==
    /\ \A p \in Requests : page[p].at = "open" => page[p].key \in Keys!UserKeys
    /\ ~together =>
        /\ \A p \in Requests : page[p].at = "open" =>
              Keys!Whose(p) # Keys!Nothing /\ page[p].key = Keys!UserKey(Keys!Whose(p))
        /\ \A c \in calls : c.kind = "in" /\ c.from # Keys!Nothing /\ c.token = 0 =>
              Keys!Whose(c.from) = c.master[1]

SeedsAreTheirOwners ==
    together \/ \A a \in Codes : \/ seed[a] = Keys!Nothing
                                 \/ Keys!Opens(Keys!UserKey(a), seed[a])

KeyInv ==
    /\ Keys!TypeOK /\ Matched /\ WrapsAreTheirOwners /\ CallsKnowTheirAccount
    /\ OneFormIsBusy /\ CookiesAreTheirPages /\ SeedsAreTheirOwners

LEMMA OwnWrapFacts ==
    ASSUME NEW a \in Codes, NEW n \in Keys!Passwords
    PROVE  LET m == Keys!deriveMasterKey(a, n)
               w == Keys!wrapUserKey(m, Keys!UserKey(a))
           IN  /\ m \in Keys!Masters /\ m[1] = a
               /\ w \in Keys!Wraps /\ OwnWrap(a, w) /\ SomeonesWrap(w)
               /\ Keys!UserKey(a) \in Keys!UserKeys
  BY MasterFacts DEF Keys!Masters, Keys!Wraps, Keys!UserKeys, OwnWrap, SomeonesWrap

(* What opens an account's own wrap is that account's password. *)
LEMMA UnwrapsFacts ==
    ASSUME NEW m, NEW w, SomeonesWrap(w), Keys!Unwraps(m, w)
    PROVE  \E a \in Codes, n \in Keys!Passwords :
             /\ m = Keys!deriveMasterKey(a, n)
             /\ w = Keys!wrapUserKey(m, Keys!UserKey(a))
             /\ w.what = Keys!UserKey(a)
             /\ w \in Keys!Wraps /\ w.what \in Keys!UserKeys /\ m[1] = a
  <1>1. w # Keys!Nothing
    BY DEF Keys!Unwraps, Keys!Opens
  <1>2. PICK a \in Codes, n \in Keys!Passwords :
          w = Keys!wrapUserKey(Keys!deriveMasterKey(a, n), Keys!UserKey(a))
    BY <1>1 DEF SomeonesWrap, OwnWrap
  <1>3. m = Keys!deriveMasterKey(a, n)
    BY <1>2, WrapFacts
  <1> QED
    BY <1>2, <1>3, WrapFacts, OwnWrapFacts

(* The password that the server accepts is the account's, address and all.  *)
LEMMA AcceptedFacts ==
    ASSUME Matched, NEW a \in Codes, NEW b, NEW n,
           digest[a] = Keys!deriveAuthHash(Keys!deriveMasterKey(b, n))
    PROVE  /\ b = a /\ n \in Keys!Passwords
           /\ keyring[a] = Keys!wrapUserKey(Keys!deriveMasterKey(a, n), Keys!UserKey(a))
  BY HashFacts, MasterFacts DEF Matched

LEMMA MasterTyped ==
    ASSUME NEW m \in Keys!Masters
    PROVE  \E a \in Codes, n \in Keys!Passwords : m = Keys!deriveMasterKey(a, n) /\ m[1] = a
  BY MasterFacts DEF Keys!Masters

LEMMA SessionTyped ==
    ASSUME Keys!TypeOK, NEW p \in Requests
    PROVE  /\ Keys!Whose(p) \in Codes \cup {Keys!Nothing}
           /\ Keys!Whose(p) # Keys!Nothing =>
                 cookie[p] \in 1..MaxSessions /\ Keys!Whose(p) = login[cookie[p]].of
  BY KeysAssumption DEF Keys!TypeOK, Keys!Whose, Keys!Mine, Keys!NoSession

(* A page of which something is changed, and then the pages. *)
LEMMA PagePut ==
    ASSUME page \in [Requests -> Keys!Page], NEW p \in Requests, NEW n \in Keys!Page,
           page' = [page EXCEPT ![p] = n]
    PROVE  /\ page' \in [Requests -> Keys!Page] /\ page'[p] = n
           /\ \A q \in Requests \ {p} : page'[q] = page[q]
  OBVIOUS

(* A page moves on with the keys and the password it has, or without.       *)
LEMMA PageAt ==
    ASSUME page \in [Requests -> Keys!Page], NEW p \in Requests,
           NEW at \in {"locked", "factor", "verified", "open", "reauth"},
           \/ page' = [page EXCEPT ![p].at = at]
           \/ page' = [page EXCEPT ![p].at = at, ![p].key = Keys!Nothing,
                                   ![p].master = Keys!Nothing]
    PROVE  /\ page' \in [Requests -> Keys!Page]
           /\ page'[p].at = at /\ page'[p].ring = page[p].ring
           /\ \A q \in Requests \ {p} : page'[q] = page[q]
  <1> DEFINE x == page[p]
             kept == [x EXCEPT !.at = at]
             bare == [x EXCEPT !.at = at, !.key = Keys!Nothing, !.master = Keys!Nothing]
  <1>1. x \in Keys!Page
    OBVIOUS
  <1>2. page' = [page EXCEPT ![p] = kept] \/ page' = [page EXCEPT ![p] = bare]
    OBVIOUS
  <1> HIDE DEF x
  <1>3. kept \in Keys!Page /\ kept.at = at /\ kept.ring = x.ring
    BY <1>1 DEF Keys!Page
  <1>4. bare \in Keys!Page /\ bare.at = at /\ bare.ring = x.ring
    BY <1>1 DEF Keys!Page
  <1> HIDE DEF kept, bare
  <1>5. PICK n \in Keys!Page : n.at = at /\ n.ring = x.ring /\ page' = [page EXCEPT ![p] = n]
    BY <1>2, <1>3, <1>4
  <1> QED
    BY <1>5, PagePut DEF x

(* What a page becomes when its key is unwrapped, or not. *)
LEMMA UnlockedFacts ==
    ASSUME Keys!TypeOK, NEW p \in Requests, NEW m, NEW w \in Keys!Wraps \cup {Keys!Nothing},
           SomeonesWrap(w), NEW else \in {"locked", "factor", "verified", "reauth"},
           Keys!Unlocked(p, m, w, else)
    PROVE  /\ page' \in [Requests -> Keys!Page]
           /\ \A q \in Requests \ {p} : page'[q] = page[q]
           /\ page'[p].ring = w
           /\ page'[p].at \in {"open", else}
           /\ page'[p].at = "open" => /\ page'[p].key = Keys!UserKey(m[1])
                                      /\ page'[p].key \in Keys!UserKeys
                                      /\ Keys!Unwraps(m, w)
  <1>1. CASE Keys!Unwraps(m, w)
    <2>1. PICK a \in Codes, n \in Keys!Passwords :
            w.what = Keys!UserKey(a) /\ w.what \in Keys!UserKeys /\ m[1] = a /\ w \in Keys!Wraps
      BY <1>1, UnwrapsFacts
    <2> QED
      BY <1>1, <2>1 DEF Keys!Unlocked, Keys!TypeOK, Keys!Page
  <1>2. CASE ~Keys!Unwraps(m, w)
    <2> DEFINE n == [page[p] EXCEPT !.at = else, !.ring = w]
    <2>1. page \in [Requests -> Keys!Page] /\ page[p] \in Keys!Page
      BY DEF Keys!TypeOK
    <2>2. page' = [page EXCEPT ![p] = n]
      BY <1>2 DEF Keys!Unlocked
    <2>3. n \in Keys!Page /\ n.at = else /\ n.ring = w
      BY <2>1 DEF Keys!Page
    <2> HIDE DEF n
    <2>4. /\ page' \in [Requests -> Keys!Page] /\ page'[p] = n
          /\ \A q \in Requests \ {p} : page'[q] = page[q]
      BY <2>1, <2>2, <2>3, PagePut
    <2> QED
      BY <2>3, <2>4
  <1> QED
    BY <1>1, <1>2

(* No session changes hands, and no other page's cookie or request does.    *)
SessionsStay ==
    \A t \in 1..MaxSessions : login[t].of # Keys!Nothing => login'[t].of = login[t].of

LEMMA CallFacts ==
    ASSUME KeyInv, NEW c \in calls
    PROVE  /\ c \in Keys!Call /\ c.token \in 0..MaxSessions
           /\ c.master \in Keys!Masters /\ c.master[1] \in Codes
           /\ c.master[1] # Keys!Nothing
           /\ c.token # 0 => c.token \in 1..MaxSessions /\ login[c.token].of = c.master[1]
           /\ SomeonesWrap(c.wrap) /\ c.wrap \in Keys!Wraps \cup {Keys!Nothing}
           /\ c.from # Keys!Nothing => c.from \in Requests
  <1>1. c \in Keys!Call
    BY DEF KeyInv, Keys!TypeOK
  <1>2. c.master[1] \in Codes
    BY <1>1, MasterTyped DEF Keys!Call
  <1> QED
    BY <1>1, <1>2, KeysAssumption
    DEF Keys!Call, KeyInv, CallsKnowTheirAccount, WrapsAreTheirOwners

LEMMA WhoseStays ==
    ASSUME KeyInv, SessionsStay, NEW p \in Requests, cookie'[p] = cookie[p],
           Keys!Whose(p) # Keys!Nothing
    PROVE  Keys!Whose(p)' = Keys!Whose(p)
  <1>1. cookie[p] \in 1..MaxSessions /\ Keys!Whose(p) = login[cookie[p]].of
    BY SessionTyped DEF KeyInv
  <1> QED
    BY <1>1 DEF SessionsStay, Keys!Whose, Keys!Mine

(* A step that sends nothing that would let a page in, and opens no page.   *)
LEMMA CookiesStay ==
    ASSUME KeyInv, SessionsStay, together' = together, cookie' = cookie,
           \A p \in Requests : page'[p].at = "open" =>
              page[p].at = "open" /\ page'[p].key = page[p].key,
           \A c \in calls' : c.kind = "in" /\ c.from # Keys!Nothing /\ c.token = 0 =>
              \/ c \in calls
              \/ /\ c.from \in Requests /\ Keys!Whose(c.from) # Keys!Nothing
                 /\ Keys!Whose(c.from) = c.master[1]
    PROVE  CookiesAreTheirPages'
  <1>0. \A p \in Requests : page'[p].at = "open" => page'[p].key \in Keys!UserKeys
    BY DEF KeyInv, CookiesAreTheirPages
  <1> SUFFICES ASSUME ~together PROVE CookiesAreTheirPages'
    BY <1>0 DEF CookiesAreTheirPages, Keys!UserKeys, Keys!UserKey
  <1>1. ASSUME NEW p \in Requests, page'[p].at = "open"
        PROVE  Keys!Whose(p)' # Keys!Nothing /\ page'[p].key = Keys!UserKey(Keys!Whose(p)')
    <2>1. Keys!Whose(p) # Keys!Nothing /\ page[p].key = Keys!UserKey(Keys!Whose(p))
      BY <1>1 DEF KeyInv, CookiesAreTheirPages
    <2> QED
      BY <1>1, <2>1, WhoseStays
  <1>2. ASSUME NEW c \in calls', c.kind = "in", c.from # Keys!Nothing, c.token = 0
        PROVE  Keys!Whose(c.from)' = c.master[1]
    <2>1. /\ c.from \in Requests /\ Keys!Whose(c.from) # Keys!Nothing
          /\ Keys!Whose(c.from) = c.master[1]
      BY <1>2, CallFacts DEF KeyInv, CookiesAreTheirPages
    <2> QED
      BY <2>1, WhoseStays
  <1> QED
    BY <1>0, <1>1, <1>2 DEF CookiesAreTheirPages, Keys!UserKeys, Keys!UserKey

(* A request that is sent: what it must be for the invariant. *)
LEMMA SendFacts ==
    ASSUME KeyInv, NEW c \in Keys!Call, Keys!Send(c)
    PROVE  /\ calls' = calls \cup {c} /\ calls' \subseteq Keys!Call
           /\ c \in calls'
  BY DEF Keys!Send, KeyInv, Keys!TypeOK

LEMMA IssueSessionFacts ==
    ASSUME KeyInv, NEW t \in 1..MaxSessions, NEW a \in Codes, NEW pending \in BOOLEAN,
           Keys!issueSession(t, a, pending)
    PROVE  /\ login' \in [1..MaxSessions -> [of : Codes \cup {Keys!Nothing}, pending : BOOLEAN,
                                             flagged : BOOLEAN]]
           /\ SessionsStay /\ login'[t].of = a
  BY DEF KeyInv, Keys!TypeOK, Keys!issueSession, Keys!NoSession, SessionsStay

(* A step that only moves a page, or flags of sessions. *)
LEMMA PageMoves ==
    ASSUME KeyInv, NEW p \in Requests, SessionsStay,
           UNCHANGED <<together, Keys!server, cookie, calls>>,
           login' \in [1..MaxSessions -> [of : Codes \cup {Keys!Nothing}, pending : BOOLEAN,
                                         flagged : BOOLEAN]],
           page' \in [Requests -> Keys!Page],
           \A q \in Requests \ {p} : page'[q] = page[q],
           page'[p].ring = page[p].ring,
           page'[p].at = "open" => page[p].at = "open" /\ page'[p].key = page[p].key,
           page[p].at \in {"locked", "reauth"} => page'[p].at \in {"locked", "reauth"}
    PROVE  KeyInv'
  <1>1. Keys!TypeOK'
    BY DEF KeyInv, Keys!TypeOK, Keys!server
  <1>2. Matched'
    BY DEF KeyInv, Matched, Keys!server
  <1>3. WrapsAreTheirOwners'
    BY DEF KeyInv, WrapsAreTheirOwners, SomeonesWrap, OwnWrap, Keys!server
  <1>4. CallsKnowTheirAccount'
    BY CallFacts DEF KeyInv, CallsKnowTheirAccount, SessionsStay
  <1>5. OneFormIsBusy'
    BY CallFacts DEF KeyInv, OneFormIsBusy
  <1>6. CookiesAreTheirPages'
    BY CookiesStay
  <1>7. SeedsAreTheirOwners'
    BY DEF KeyInv, SeedsAreTheirOwners, Keys!server
  <1> QED
    BY <1>1, <1>2, <1>3, <1>4, <1>5, <1>6, <1>7 DEF KeyInv

(* The step of a request whose answer lets its page in. *)
LEMMA NewIn ==
    ASSUME KeyInv, NEW p \in Requests, NEW c \in Keys!Call, Keys!Send(c), Keys!Free(p),
           c.kind = "in", c.from = p, page[p].at \in {"locked", "reauth"}, page' = page
    PROVE  OneFormIsBusy'
  BY SendFacts DEF KeyInv, OneFormIsBusy, Keys!Free

-----------------------------------------------------------------------------
(* The steps of the pages and of the server *)

LEMMA RegisterKeeps ==
    ASSUME KeyInv, NEW p \in Requests, NEW a \in Codes, NEW n \in Keys!Passwords,
           Keys!Register(p, a, n)
    PROVE  KeyInv'
  <1> DEFINE m == Keys!deriveMasterKey(a, n)
             w == Keys!wrapUserKey(m, Keys!UserKey(a))
             In(t) == [kind |-> "in", from |-> p, token |-> t, master |-> m, wrap |-> w]
  <1>1. /\ page[p].at = "locked" /\ Keys!Free(p)
        /\ digest' = [digest EXCEPT ![a] = Keys!deriveAuthHash(m)]
        /\ keyring' = [keyring EXCEPT ![a] = w]
        /\ UNCHANGED <<together, seed, cookie, page>>
    BY DEF Keys!Register
  <1>2. PICK t \in 1..MaxSessions : Keys!issueSession(t, a, FALSE) /\ Keys!Send(In(t))
    BY DEF Keys!Register
  <1>3. /\ m \in Keys!Masters /\ m[1] = a /\ w \in Keys!Wraps /\ OwnWrap(a, w)
        /\ SomeonesWrap(w) /\ w # Keys!Nothing
    BY OwnWrapFacts, WrapFacts
  <1>4. In(t) \in Keys!Call
    BY <1>3, KeysAssumption DEF Keys!Call
  <1>5. calls' = calls \cup {In(t)} /\ calls' \subseteq Keys!Call
    BY <1>2, <1>4, SendFacts
  <1>6. /\ login' \in [1..MaxSessions -> [of : Codes \cup {Keys!Nothing}, pending : BOOLEAN,
                                          flagged : BOOLEAN]]
        /\ SessionsStay /\ login'[t].of = a
    BY <1>2, IssueSessionFacts
  <1> HIDE DEF m, w
  <1>7. Keys!TypeOK'
    BY <1>1, <1>3, <1>5, <1>6 DEF KeyInv, Keys!TypeOK
  <1>8. Matched'
    <2>1. digest'[a] = Keys!deriveAuthHash(m) /\ keyring'[a] = w
      BY <1>1 DEF KeyInv, Keys!TypeOK
    <2>2. \A b \in Codes \ {a} : digest'[b] = digest[b] /\ keyring'[b] = keyring[b]
      BY <1>1 DEF KeyInv, Keys!TypeOK
    <2> QED
      BY <2>1, <2>2 DEF KeyInv, Matched, m, w
  <1>9. WrapsAreTheirOwners'
    <2>1. \A b \in Codes : keyring'[b] = Keys!Nothing \/ OwnWrap(b, keyring'[b])
      BY <1>1, <1>3 DEF KeyInv, Keys!TypeOK, WrapsAreTheirOwners
    <2> QED
      BY <2>1, <1>1, <1>3, <1>5 DEF KeyInv, WrapsAreTheirOwners, SomeonesWrap, OwnWrap
  <1>10. CallsKnowTheirAccount'
    BY <1>3, <1>5, <1>6, CallFacts DEF KeyInv, CallsKnowTheirAccount, SessionsStay
  <1>11. OneFormIsBusy'
    BY <1>1, <1>2, <1>4, NewIn
  <1>12. CookiesAreTheirPages'
    BY <1>1, <1>5, <1>6, CookiesStay
  <1>13. SeedsAreTheirOwners'
    BY <1>1 DEF KeyInv, SeedsAreTheirOwners
  <1> QED
    BY <1>7, <1>8, <1>9, <1>10, <1>11, <1>12, <1>13 DEF KeyInv

LEMMA LoginKeeps ==
    ASSUME KeyInv, NEW p \in Requests, NEW a \in Codes, NEW n \in Keys!Passwords,
           Keys!Login(p, a, n)
    PROVE  KeyInv'
  <1> DEFINE m == Keys!deriveMasterKey(a, n)
             factor == seed[a] # Keys!Nothing
             w == IF factor THEN Keys!Nothing ELSE keyring[a]
             In(t) == [kind |-> "in", from |-> p, token |-> t, master |-> m, wrap |-> w]
  <1>1. /\ page[p].at = "locked" /\ Keys!Free(p)
        /\ UNCHANGED <<together, Keys!server, cookie, page>>
    BY DEF Keys!Login
  <1>2. PICK t \in 1..MaxSessions : Keys!issueSession(t, a, factor) /\ Keys!Send(In(t))
    BY DEF Keys!Login
  <1>3. /\ m \in Keys!Masters /\ m[1] = a /\ w \in Keys!Wraps \cup {Keys!Nothing}
        /\ SomeonesWrap(w)
    BY OwnWrapFacts DEF KeyInv, Keys!TypeOK, WrapsAreTheirOwners, SomeonesWrap
  <1>4. In(t) \in Keys!Call
    BY <1>3, KeysAssumption DEF Keys!Call
  <1>5. calls' = calls \cup {In(t)} /\ calls' \subseteq Keys!Call
    BY <1>2, <1>4, SendFacts
  <1>6. /\ login' \in [1..MaxSessions -> [of : Codes \cup {Keys!Nothing}, pending : BOOLEAN,
                                          flagged : BOOLEAN]]
        /\ SessionsStay /\ login'[t].of = a
    BY <1>2, IssueSessionFacts
  <1> HIDE DEF m, w
  <1>7. Keys!TypeOK'
    BY <1>1, <1>5, <1>6 DEF KeyInv, Keys!TypeOK, Keys!server
  <1>8. Matched' /\ SeedsAreTheirOwners'
    BY <1>1 DEF KeyInv, Matched, SeedsAreTheirOwners, Keys!server
  <1>9. WrapsAreTheirOwners'
    BY <1>1, <1>3, <1>5 DEF KeyInv, WrapsAreTheirOwners, SomeonesWrap, OwnWrap, Keys!server
  <1>10. CallsKnowTheirAccount'
    BY <1>3, <1>5, <1>6, CallFacts DEF KeyInv, CallsKnowTheirAccount, SessionsStay
  <1>11. OneFormIsBusy'
    BY <1>1, <1>2, <1>4, NewIn
  <1>12. CookiesAreTheirPages'
    BY <1>1, <1>5, <1>6, CookiesStay
  <1> QED
    BY <1>7, <1>8, <1>9, <1>10, <1>11, <1>12 DEF KeyInv

LEMMA ReauthKeeps ==
    ASSUME KeyInv, NEW p \in Requests, NEW n \in Keys!Passwords, Keys!Reauth(p, n)
    PROVE  KeyInv'
  <1> DEFINE a == Keys!Whose(p)
             m == Keys!deriveMasterKey(page[p].email, n)
             In == [kind |-> "in", from |-> p, token |-> 0, master |-> m, wrap |-> keyring[a]]
  <1>1. /\ page[p].at = "reauth" /\ Keys!Free(p) /\ Keys!AdmittedFlagged(p)
        /\ digest[a] = Keys!deriveAuthHash(m)
        /\ login' = [login EXCEPT ![cookie[p]].flagged = FALSE]
        /\ Keys!Send(In)
        /\ UNCHANGED <<together, Keys!server, cookie, page>>
    BY DEF Keys!Reauth
  <1>2. a \in Codes /\ a # Keys!Nothing /\ cookie[p] \in 1..MaxSessions
    BY <1>1, SessionTyped DEF KeyInv, Keys!AdmittedFlagged
  <1>3. /\ page[p].email = a
        /\ keyring[a] = Keys!wrapUserKey(m, Keys!UserKey(a))
    BY <1>1, <1>2, AcceptedFacts DEF KeyInv
  <1>4. /\ m \in Keys!Masters /\ m[1] = a /\ keyring[a] \in Keys!Wraps
        /\ SomeonesWrap(keyring[a]) /\ keyring[a] # Keys!Nothing
    BY <1>2, <1>3, OwnWrapFacts, WrapFacts
  <1>5. In \in Keys!Call
    BY <1>4, KeysAssumption DEF Keys!Call
  <1>6. calls' = calls \cup {In} /\ calls' \subseteq Keys!Call
    BY <1>1, <1>5, SendFacts
  <1>7. /\ login' \in [1..MaxSessions -> [of : Codes \cup {Keys!Nothing}, pending : BOOLEAN,
                                          flagged : BOOLEAN]]
        /\ SessionsStay
    BY <1>1, <1>2 DEF KeyInv, Keys!TypeOK, SessionsStay
  <1> HIDE DEF m, a
  <1>8. Keys!TypeOK'
    BY <1>1, <1>6, <1>7 DEF KeyInv, Keys!TypeOK, Keys!server
  <1>9. Matched' /\ SeedsAreTheirOwners'
    BY <1>1 DEF KeyInv, Matched, SeedsAreTheirOwners, Keys!server
  <1>10. WrapsAreTheirOwners'
    BY <1>1, <1>4, <1>6 DEF KeyInv, WrapsAreTheirOwners, SomeonesWrap, OwnWrap, Keys!server
  <1>11. CallsKnowTheirAccount'
    BY <1>4, <1>6, <1>7, CallFacts DEF KeyInv, CallsKnowTheirAccount, SessionsStay
  <1>12. OneFormIsBusy'
    BY <1>1, <1>5, NewIn
  <1>13. CookiesAreTheirPages'
    BY <1>1, <1>2, <1>4, <1>6, <1>7, CookiesStay DEF a
  <1> QED
    BY <1>8, <1>9, <1>10, <1>11, <1>12, <1>13 DEF KeyInv

(* Fewer calls, with what was asked of them. *)
LEMMA FewerCalls ==
    ASSUME KeyInv, calls' \subseteq calls, SessionsStay, UNCHANGED Keys!server,
           \A p \in Requests : SomeonesWrap(page'[p].ring)
    PROVE  WrapsAreTheirOwners' /\ CallsKnowTheirAccount'
  <1>1. WrapsAreTheirOwners'
    BY DEF KeyInv, WrapsAreTheirOwners, SomeonesWrap, OwnWrap, Keys!server
  <1>2. CallsKnowTheirAccount'
    BY CallFacts DEF KeyInv, CallsKnowTheirAccount, SessionsStay
  <1> QED
    BY <1>1, <1>2

LEMMA FlaggedFacts ==
    ASSUME KeyInv, NEW p \in Requests, Keys!Flagged(p)
    PROVE  /\ page' \in [Requests -> Keys!Page]
           /\ page'[p].at = "reauth" /\ page'[p].ring = page[p].ring
           /\ \A q \in Requests \ {p} : page'[q] = page[q]
  <1>1. page \in [Requests -> Keys!Page]
    BY DEF KeyInv, Keys!TypeOK
  <1>2. page' = [page EXCEPT ![p].at = "reauth", ![p].key = Keys!Nothing,
                             ![p].master = Keys!Nothing]
    BY DEF Keys!Flagged
  <1> QED
    BY <1>1, <1>2, PageAt

LEMMA InKeeps ==
    ASSUME KeyInv, NEW c \in calls, Keys!In(c)
    PROVE  KeyInv'
  <1> DEFINE p == c.from
             s == login[c.token]
  <1>1. /\ c.kind = "in" /\ c.from # Keys!Nothing
        /\ calls' = calls \ {c}
        /\ cookie' = [q \in Requests |-> IF c.token # 0 /\ (together \/ q = p)
                                         THEN c.token ELSE cookie[q]]
        /\ UNCHANGED <<together, Keys!server, login>>
    BY DEF Keys!In
  <1>2. /\ p \in Requests /\ c \in Keys!Call /\ c.token \in 0..MaxSessions
        /\ c.master \in Keys!Masters /\ c.master[1] \in Codes /\ c.master[1] # Keys!Nothing
        /\ c.token # 0 => c.token \in 1..MaxSessions /\ login[c.token].of = c.master[1]
        /\ SomeonesWrap(c.wrap) /\ c.wrap \in Keys!Wraps \cup {Keys!Nothing}
    BY <1>1, CallFacts
  <1>3. page[p].at \in {"locked", "reauth"}
    BY <1>1 DEF KeyInv, OneFormIsBusy
  <1>4. /\ page' \in [Requests -> Keys!Page]
        /\ \A q \in Requests \ {p} : page'[q] = page[q]
        /\ SomeonesWrap(page'[p].ring)
        /\ page'[p].at = "open" => /\ page'[p].key = Keys!UserKey(c.master[1])
                                   /\ page'[p].key \in Keys!UserKeys
    <2>1. CASE c.wrap # Keys!Nothing
      <3>1. Keys!Unlocked(p, c.master, c.wrap, page[p].at)
        BY <2>1 DEF Keys!In
      <3> QED
        BY <1>2, <1>3, <3>1, UnlockedFacts DEF KeyInv
    <2>2. CASE c.wrap = Keys!Nothing
      <3>1. c.token # 0
        BY <1>1, <2>2 DEF KeyInv, CallsKnowTheirAccount
      <3>2. s.of = c.master[1] /\ SomeonesWrap(keyring[s.of])
        BY <1>2, <3>1 DEF KeyInv, WrapsAreTheirOwners, SomeonesWrap
      <3>3. SomeonesWrap(page[p].ring)
        BY <1>2 DEF KeyInv, WrapsAreTheirOwners
      <3>4. Keys!Challenged(c, p)
        BY <2>2 DEF Keys!In
      <3>5. CASE Keys!Flagged(p)
        BY <1>2, <3>3, <3>5, FlaggedFacts
      <3>6. CASE page' = page
        BY <1>3, <3>3, <3>6 DEF KeyInv, Keys!TypeOK
      <3>7. CASE /\ Keys!Unwraps(c.master, keyring[s.of])
                 /\ page' = [page EXCEPT ![p].at = "factor", ![p].master = c.master,
                                         ![p].key = keyring[s.of].what]
        <4>1. keyring[s.of].what \in Keys!UserKeys
          BY <3>2, <3>7, UnwrapsFacts
        <4>2. /\ page' \in [Requests -> Keys!Page]
              /\ page'[p].at = "factor" /\ page'[p].ring = page[p].ring
              /\ \A q \in Requests \ {p} : page'[q] = page[q]
          <5> DEFINE k == keyring[s.of].what
                     m == c.master
          <5>1. page \in [Requests -> Keys!Page] /\ k \in Keys!UserKeys /\ m \in Keys!Masters
            BY <1>2, <4>1 DEF KeyInv, Keys!TypeOK
          <5>2. page' = [page EXCEPT ![p].at = "factor", ![p].master = m, ![p].key = k]
            BY <3>7
          <5> DEFINE x == page[p]
                     n == [x EXCEPT !.at = "factor", !.master = m, !.key = k]
          <5> HIDE DEF k, m, p
          <5>3. x \in Keys!Page /\ page' = [page EXCEPT ![p] = n]
            BY <1>2, <5>1, <5>2
          <5> HIDE DEF x
          <5>4. n \in Keys!Page /\ n.at = "factor" /\ n.ring = x.ring
            BY <5>1, <5>3 DEF Keys!Page
          <5> HIDE DEF n
          <5> QED
            BY <1>2, <5>1, <5>3, <5>4, PagePut DEF x
        <4> QED
          BY <3>3, <4>2
      <3>8. \/ Keys!Flagged(p)
            \/ page' = page
            \/ /\ Keys!Unwraps(c.master, keyring[s.of])
               /\ page' = [page EXCEPT ![p].at = "factor", ![p].master = c.master,
                                       ![p].key = keyring[s.of].what]
        BY <3>4 DEF Keys!Challenged
      <3> QED
        BY <3>5, <3>6, <3>7, <3>8
    <2> QED
      BY <2>1, <2>2
  <1>5. SessionsStay
    BY <1>1 DEF SessionsStay
  <1>6. Keys!TypeOK'
    BY <1>1, <1>2, <1>4 DEF KeyInv, Keys!TypeOK, Keys!server
  <1>7. Matched' /\ SeedsAreTheirOwners'
    BY <1>1 DEF KeyInv, Matched, SeedsAreTheirOwners, Keys!server
  <1>8. WrapsAreTheirOwners' /\ CallsKnowTheirAccount'
    <2>1. \A q \in Requests : SomeonesWrap(page'[q].ring)
      BY <1>4 DEF KeyInv, WrapsAreTheirOwners
    <2> QED
      BY <1>1, <1>5, <2>1, FewerCalls
  <1>9. OneFormIsBusy'
    <2> SUFFICES ASSUME NEW d \in calls', d.kind = "in", d.from # Keys!Nothing
                 PROVE  /\ page'[d.from].at \in {"locked", "reauth"}
                        /\ \A e \in calls' : e.kind = "in" /\ e.from = d.from => e = d
      BY DEF OneFormIsBusy
    <2>1. d \in calls /\ d # c /\ d.from \in Requests
      BY <1>1, CallFacts
    <2>2. d.from # p
      BY <1>1, <2>1 DEF KeyInv, OneFormIsBusy
    <2> QED
      BY <1>1, <1>4, <2>1, <2>2 DEF KeyInv, OneFormIsBusy
  <1>10. CookiesAreTheirPages'
    <2>0. \A q \in Requests : page'[q].at = "open" => page'[q].key \in Keys!UserKeys
      BY <1>4 DEF KeyInv, CookiesAreTheirPages
    <2> SUFFICES ASSUME ~together PROVE CookiesAreTheirPages'
      BY <1>1, <2>0 DEF CookiesAreTheirPages, Keys!UserKeys, Keys!UserKey
    <2>1. \A q \in Requests \ {p} : Keys!Whose(q)' = Keys!Whose(q)
      BY <1>1 DEF Keys!Whose, Keys!Mine
    <2>2. Keys!Whose(p)' = c.master[1]
      <3>1. CASE c.token # 0
        BY <1>1, <1>2, <3>1 DEF Keys!Whose, Keys!Mine
      <3>2. CASE c.token = 0
        <4>1. Keys!Whose(p) = c.master[1]
          BY <1>1, <3>2 DEF KeyInv, CookiesAreTheirPages
        <4> QED
          BY <1>1, <1>2, <3>2, <4>1 DEF Keys!Whose, Keys!Mine
      <3> QED
        BY <3>1, <3>2
    <2>3. ASSUME NEW q \in Requests, page'[q].at = "open"
          PROVE  Keys!Whose(q)' # Keys!Nothing /\ page'[q].key = Keys!UserKey(Keys!Whose(q)')
      BY <1>2, <1>4, <2>1, <2>2, <2>3 DEF KeyInv, CookiesAreTheirPages
    <2>4. ASSUME NEW d \in calls', d.kind = "in", d.from # Keys!Nothing, d.token = 0
          PROVE  Keys!Whose(d.from)' = d.master[1]
      <3>1. d \in calls /\ d # c /\ d.from \in Requests
        BY <1>1, <2>4, CallFacts
      <3>2. d.from # p
        BY <1>1, <2>4, <3>1 DEF KeyInv, OneFormIsBusy
      <3> QED
        BY <2>1, <2>4, <3>1, <3>2 DEF KeyInv, CookiesAreTheirPages
    <2> QED
      BY <2>0, <2>3, <2>4 DEF CookiesAreTheirPages, Keys!UserKeys, Keys!UserKey
  <1> QED
    BY <1>6, <1>7, <1>8, <1>9, <1>10 DEF KeyInv

LEMMA VerifyKeeps ==
    ASSUME KeyInv, NEW p \in Requests, NEW backup \in BOOLEAN, Keys!Verify(p, backup)
    PROVE  KeyInv'
  <1>1. cookie[p] \in 1..MaxSessions
    BY SessionTyped DEF Keys!Verify, Keys!AdmittedPending, KeyInv
  <1>2. /\ login' \in [1..MaxSessions -> [of : Codes \cup {Keys!Nothing}, pending : BOOLEAN,
                                          flagged : BOOLEAN]]
        /\ SessionsStay
    BY <1>1 DEF Keys!Verify, KeyInv, Keys!TypeOK, SessionsStay
  <1>3. /\ page' \in [Requests -> Keys!Page] /\ page[p].at = "factor"
        /\ page'[p].at = "verified" /\ page'[p].ring = page[p].ring
        /\ \A q \in Requests \ {p} : page'[q] = page[q]
    BY PageAt DEF Keys!Verify, KeyInv, Keys!TypeOK
  <1> QED
    BY <1>2, <1>3, PageMoves DEF Keys!Verify

LEMMA SameSessions ==
    ASSUME KeyInv, UNCHANGED login
    PROVE  /\ SessionsStay
           /\ login' \in [1..MaxSessions -> [of : Codes \cup {Keys!Nothing}, pending : BOOLEAN,
                                         flagged : BOOLEAN]]
  BY DEF SessionsStay, KeyInv, Keys!TypeOK

LEMMA CompleteKeeps ==
    ASSUME KeyInv, NEW p \in Requests, Keys!Complete(p)
    PROVE  KeyInv'
  <1>1. /\ page[p].at = "verified"
        /\ UNCHANGED <<together, Keys!server, login, cookie, calls>>
    BY DEF Keys!Complete
  <1>2. CASE Keys!Flagged(p)
    BY <1>1, <1>2, FlaggedFacts, SameSessions, PageMoves
  <1>3. CASE page' = [page EXCEPT ![p].at = "factor"]
    <2>1. /\ page' \in [Requests -> Keys!Page]
          /\ page'[p].at = "factor" /\ page'[p].ring = page[p].ring
          /\ \A q \in Requests \ {p} : page'[q] = page[q]
      BY <1>3, PageAt DEF KeyInv, Keys!TypeOK
    <2> QED
      BY <1>1, <2>1, SameSessions, PageMoves
  <1>4. CASE Keys!Admitted(p) /\ Keys!Unlocked(p, page[p].master, keyring[Keys!Whose(p)], "factor")
    <2> DEFINE a == Keys!Whose(p)
    <2>1. a \in Codes /\ a # Keys!Nothing
      BY <1>4, SessionTyped DEF KeyInv, Keys!Admitted
    <2>2. SomeonesWrap(keyring[a]) /\ keyring[a] \in Keys!Wraps \cup {Keys!Nothing}
      BY <2>1 DEF KeyInv, WrapsAreTheirOwners, SomeonesWrap, Keys!TypeOK
    <2>3. /\ page' \in [Requests -> Keys!Page]
          /\ \A q \in Requests \ {p} : page'[q] = page[q]
          /\ page'[p].ring = keyring[a]
          /\ page'[p].at \in {"open", "factor"}
          /\ page'[p].at = "open" => /\ page'[p].key = Keys!UserKey(page[p].master[1])
                                     /\ page'[p].key \in Keys!UserKeys
                                     /\ Keys!Unwraps(page[p].master, keyring[a])
      BY <1>4, <2>2, UnlockedFacts DEF KeyInv
    <2>4. page'[p].at = "open" => page'[p].key = Keys!UserKey(a)
      <3> SUFFICES ASSUME page'[p].at = "open" PROVE page[p].master[1] = a
        BY <2>3
      <3>1. keyring[a] # Keys!Nothing
        BY <2>3 DEF Keys!Unwraps, Keys!Opens
      <3>2. PICK n \in Keys!Passwords :
              keyring[a] = Keys!wrapUserKey(Keys!deriveMasterKey(a, n), Keys!UserKey(a))
        BY <2>1, <3>1 DEF KeyInv, WrapsAreTheirOwners, OwnWrap
      <3>3. page[p].master = Keys!deriveMasterKey(a, n)
        BY <2>3, <3>2, WrapFacts
      <3> QED
        BY <3>3, MasterFacts
    <2>5. Keys!TypeOK'
      BY <1>1, <2>3 DEF KeyInv, Keys!TypeOK, Keys!server
    <2>6. Matched' /\ SeedsAreTheirOwners'
      BY <1>1 DEF KeyInv, Matched, SeedsAreTheirOwners, Keys!server
    <2>7. WrapsAreTheirOwners' /\ CallsKnowTheirAccount'
      <3>1. \A q \in Requests : SomeonesWrap(page'[q].ring)
        BY <2>2, <2>3 DEF KeyInv, WrapsAreTheirOwners
      <3> QED
        BY <1>1, <3>1, SameSessions, FewerCalls
    <2>8. OneFormIsBusy'
      BY <1>1, <2>3, CallFacts DEF KeyInv, OneFormIsBusy
    <2>9. CookiesAreTheirPages'
      <3>1. \A q \in Requests : Keys!Whose(q)' = Keys!Whose(q)
        BY <1>1 DEF Keys!Whose, Keys!Mine
      <3> HIDE DEF a
      <3>2. ASSUME NEW q \in Requests, page'[q].at = "open", ~together
            PROVE  Keys!Whose(q) # Keys!Nothing /\ page'[q].key = Keys!UserKey(Keys!Whose(q))
        <4>1. CASE q = p
          BY <2>1, <2>4, <3>2, <4>1 DEF a
        <4>2. CASE q # p
          BY <2>3, <3>2, <4>2 DEF KeyInv, CookiesAreTheirPages
        <4> QED
          BY <4>1, <4>2
      <3>3. ASSUME NEW d \in calls, d.kind = "in", d.from # Keys!Nothing, d.token = 0, ~together
            PROVE  d.from \in Requests /\ Keys!Whose(d.from) = d.master[1]
        BY <3>3, CallFacts DEF KeyInv, CookiesAreTheirPages
      <3>4. \A q \in Requests : page'[q].at = "open" => page'[q].key \in Keys!UserKeys
        BY <2>3 DEF KeyInv, CookiesAreTheirPages
      <3> QED
        BY <1>1, <3>1, <3>2, <3>3, <3>4 DEF CookiesAreTheirPages, Keys!UserKeys, Keys!UserKey
    <2> QED
      BY <2>5, <2>6, <2>7, <2>8, <2>9 DEF KeyInv
  <1> QED
    BY <1>2, <1>3, <1>4 DEF Keys!Complete

LEMMA ChangeKeeps ==
    ASSUME KeyInv, NEW p \in Requests, NEW old \in Keys!Passwords, NEW new \in Keys!Passwords,
           Keys!Change(p, old, new)
    PROVE  KeyInv'
  <1> DEFINE a == Keys!Whose(p)
             mine == Keys!deriveMasterKey(page[p].email, old)
             next == Keys!deriveMasterKey(page[p].email, new)
             w == Keys!wrapUserKey(next, page[p].ring.what)
             Sent == [kind |-> "change", from |-> p, token |-> cookie[p], master |-> next,
                      wrap |-> w]
  <1>1. /\ page[p].at = "open" /\ Keys!Unwraps(mine, page[p].ring)
        /\ Keys!Admitted(p) /\ digest[a] = Keys!deriveAuthHash(mine)
        /\ Keys!Send(Sent)
        /\ UNCHANGED <<together, Keys!server, login, cookie, page>>
    BY DEF Keys!Change, Keys!NewWrap
  <1>2. a \in Codes /\ cookie[p] \in 1..MaxSessions /\ login[cookie[p]].of = a
    BY <1>1, SessionTyped DEF KeyInv, Keys!Admitted
  <1>3. page[p].email = a
    BY <1>1, <1>2, AcceptedFacts DEF KeyInv
  <1>4. page[p].ring.what = Keys!UserKey(a)
    <2>1. SomeonesWrap(page[p].ring)
      BY DEF KeyInv, WrapsAreTheirOwners
    <2> QED
      BY <1>1, <1>3, <2>1, UnwrapsFacts, MasterFacts
  <1>5. /\ next \in Keys!Masters /\ next[1] = a /\ w \in Keys!Wraps
        /\ w = Keys!wrapUserKey(next, Keys!UserKey(a)) /\ SomeonesWrap(w)
    BY <1>2, <1>3, <1>4, OwnWrapFacts
  <1>6. Sent \in Keys!Call
    BY <1>2, <1>5, KeysAssumption DEF Keys!Call
  <1>7. calls' = calls \cup {Sent} /\ calls' \subseteq Keys!Call
    BY <1>1, <1>6, SendFacts
  <1>8. cookie[p] # 0
    BY <1>2, KeysAssumption
  <1> HIDE DEF a, next, w
  <1>9. Keys!TypeOK'
    BY <1>1, <1>7 DEF KeyInv, Keys!TypeOK, Keys!server
  <1>10. Matched' /\ SeedsAreTheirOwners'
    BY <1>1 DEF KeyInv, Matched, SeedsAreTheirOwners, Keys!server
  <1>11. WrapsAreTheirOwners'
    BY <1>1, <1>5, <1>7 DEF KeyInv, WrapsAreTheirOwners, SomeonesWrap, OwnWrap, Keys!server
  <1>12. CallsKnowTheirAccount'
    BY <1>1, <1>2, <1>5, <1>7, <1>8 DEF KeyInv, CallsKnowTheirAccount
  <1>13. OneFormIsBusy'
    BY <1>1, <1>7 DEF KeyInv, OneFormIsBusy
  <1>14. CookiesAreTheirPages'
    BY <1>1, <1>7, SameSessions, CookiesStay
  <1> QED
    BY <1>9, <1>10, <1>11, <1>12, <1>13, <1>14 DEF KeyInv

LEMMA ChangedKeeps ==
    ASSUME KeyInv, NEW c \in calls, Keys!Changed(c)
    PROVE  KeyInv'
  <1> DEFINE a == login[c.token].of
             d == [c EXCEPT !.kind = "changed"]
  <1>1. /\ c.kind = "change"
        /\ digest' = [digest EXCEPT ![a] = Keys!deriveAuthHash(c.master)]
        /\ keyring' = [keyring EXCEPT ![a] = c.wrap]
        /\ login' = [t \in 1..MaxSessions |->
                        IF login[t].of = a /\ t # c.token
                        THEN [login[t] EXCEPT !.flagged = TRUE] ELSE login[t]]
        /\ calls' = (calls \ {c}) \cup {d}
        /\ UNCHANGED <<together, seed, cookie, page>>
    BY DEF Keys!Changed
  <1>2. /\ c \in Keys!Call /\ c.token \in 1..MaxSessions /\ c.master \in Keys!Masters
        /\ c.master[1] \in Codes /\ a = c.master[1]
        /\ SomeonesWrap(c.wrap) /\ c.token # 0
        /\ c.wrap = Keys!wrapUserKey(c.master, Keys!UserKey(a))
    BY <1>1, CallFacts DEF KeyInv, CallsKnowTheirAccount
  <1>3. PICK n \in Keys!Passwords : c.master = Keys!deriveMasterKey(a, n)
    BY <1>2, MasterTyped
  <1>4. c.wrap \in Keys!Wraps /\ OwnWrap(a, c.wrap)
    BY <1>2, <1>3, OwnWrapFacts
  <1>5. /\ login' \in [1..MaxSessions -> [of : Codes \cup {Keys!Nothing}, pending : BOOLEAN,
                                          flagged : BOOLEAN]]
        /\ SessionsStay
    <2> DEFINE Row == [of : Codes \cup {Keys!Nothing}, pending : BOOLEAN, flagged : BOOLEAN]
    <2>1. \A t \in 1..MaxSessions : login[t] \in Row
      BY DEF KeyInv, Keys!TypeOK
    <2>2. \A x \in Row : LET y == [x EXCEPT !.flagged = TRUE] IN y \in Row /\ y.of = x.of
      OBVIOUS
    <2>3. \A t \in 1..MaxSessions :
             \/ login'[t] = login[t]
             \/ login'[t] = [login[t] EXCEPT !.flagged = TRUE]
      BY <1>1
    <2>4. \A t \in 1..MaxSessions : login'[t] \in Row /\ login'[t].of = login[t].of
      BY <2>1, <2>2, <2>3
    <2>5. login' = [t \in 1..MaxSessions |-> login'[t]]
      BY <1>1
    <2> HIDE DEF Row
    <2>6. login' \in [1..MaxSessions -> Row]
      BY <2>4, <2>5
    <2> QED
      BY <2>4, <2>6 DEF SessionsStay, Row
  <1>6. /\ d \in Keys!Call /\ d.kind = "changed" /\ d.from = c.from /\ d.token = c.token
        /\ d.master = c.master /\ d.wrap = c.wrap
    BY <1>2 DEF Keys!Call
  <1> HIDE DEF a, d
  <1>7. Keys!TypeOK'
    BY <1>1, <1>2, <1>4, <1>5, <1>6 DEF KeyInv, Keys!TypeOK
  <1>8. Matched'
    <2>1. digest'[a] = Keys!deriveAuthHash(c.master) /\ keyring'[a] = c.wrap
      BY <1>1, <1>2 DEF KeyInv, Keys!TypeOK
    <2>2. \A b \in Codes \ {a} : digest'[b] = digest[b] /\ keyring'[b] = keyring[b]
      BY <1>1 DEF KeyInv, Keys!TypeOK
    <2> QED
      BY <1>2, <1>3, <2>1, <2>2 DEF KeyInv, Matched
  <1>9. WrapsAreTheirOwners'
    <2>1. \A b \in Codes : keyring'[b] = Keys!Nothing \/ OwnWrap(b, keyring'[b])
      BY <1>1, <1>4 DEF KeyInv, Keys!TypeOK, WrapsAreTheirOwners
    <2> QED
      BY <2>1, <1>1, <1>2, <1>6 DEF KeyInv, WrapsAreTheirOwners, SomeonesWrap, OwnWrap
  <1>10. CallsKnowTheirAccount'
    <2>1. login'[c.token].of = c.master[1]
      BY <1>2, <1>5, CallFacts DEF SessionsStay
    <2> QED
      BY <2>1, <1>1, <1>5, <1>6, CallFacts DEF KeyInv, CallsKnowTheirAccount, SessionsStay
  <1>11. OneFormIsBusy'
    BY <1>1, <1>6 DEF KeyInv, OneFormIsBusy
  <1>12. CookiesAreTheirPages'
    BY <1>1, <1>5, <1>6, CookiesStay
  <1>13. SeedsAreTheirOwners'
    BY <1>1 DEF KeyInv, SeedsAreTheirOwners
  <1> QED
    BY <1>7, <1>8, <1>9, <1>10, <1>11, <1>12, <1>13 DEF KeyInv

LEMMA LockFacts ==
    ASSUME KeyInv, NEW p \in Requests, Keys!Lock(p)
    PROVE  /\ page' \in [Requests -> Keys!Page] /\ page[p].at \in {"open", "factor"}
           /\ page'[p].at = "locked" /\ page'[p].ring = page[p].ring
           /\ \A q \in Requests \ {p} : page'[q] = page[q]
  <1>1. page \in [Requests -> Keys!Page]
    BY DEF KeyInv, Keys!TypeOK
  <1>2. /\ page[p].at \in {"open", "factor"}
        /\ page' = [page EXCEPT ![p].at = "locked", ![p].key = Keys!Nothing,
                                ![p].master = Keys!Nothing]
    BY DEF Keys!Lock
  <1> QED
    BY <1>1, <1>2, PageAt

(* A call that leaves nothing behind. *)
LEMMA CallGoes ==
    ASSUME KeyInv, NEW c \in calls, calls' = calls \ {c},
           UNCHANGED <<together, Keys!server, login, cookie, page>>
    PROVE  KeyInv'
  <1>1. Keys!TypeOK' /\ Matched' /\ SeedsAreTheirOwners'
    BY DEF KeyInv, Keys!TypeOK, Matched, SeedsAreTheirOwners, Keys!server
  <1>2. WrapsAreTheirOwners' /\ CallsKnowTheirAccount'
    BY SameSessions, FewerCalls DEF KeyInv, WrapsAreTheirOwners
  <1>3. OneFormIsBusy'
    BY DEF KeyInv, OneFormIsBusy
  <1>4. CookiesAreTheirPages'
    BY SameSessions, CookiesStay
  <1> QED
    BY <1>1, <1>2, <1>3, <1>4 DEF KeyInv

LEMMA ChangeHeardKeeps ==
    ASSUME KeyInv, NEW c \in calls, Keys!ChangeHeard(c)
    PROVE  KeyInv'
  <1>1. /\ calls' = calls \ {c} /\ c.from \in Requests
        /\ UNCHANGED <<together, Keys!server, login, cookie>>
    BY CallFacts DEF Keys!ChangeHeard
  <1>2. CASE UNCHANGED page
    BY <1>1, <1>2, CallGoes
  <1>3. CASE Keys!Lock(c.from)
    <2> DEFINE p == c.from
    <2>1. /\ page' \in [Requests -> Keys!Page] /\ page[p].at \in {"open", "factor"}
          /\ page'[p].at = "locked" /\ page'[p].ring = page[p].ring
          /\ \A q \in Requests \ {p} : page'[q] = page[q]
      BY <1>1, <1>3, LockFacts
    <2>2. Keys!TypeOK' /\ Matched' /\ SeedsAreTheirOwners'
      BY <1>1, <2>1 DEF KeyInv, Keys!TypeOK, Matched, SeedsAreTheirOwners, Keys!server
    <2>3. WrapsAreTheirOwners' /\ CallsKnowTheirAccount'
      <3>1. \A q \in Requests : page'[q].ring = page[q].ring
        BY <2>1
      <3> QED
        BY <1>1, <3>1, SameSessions, FewerCalls DEF KeyInv, WrapsAreTheirOwners
    <2>4. OneFormIsBusy'
      BY <1>1, <2>1, CallFacts DEF KeyInv, OneFormIsBusy
    <2>5. CookiesAreTheirPages'
      BY <1>1, <2>1, SameSessions, CookiesStay
    <2> QED
      BY <2>2, <2>3, <2>4, <2>5 DEF KeyInv
  <1> QED
    BY <1>2, <1>3 DEF Keys!ChangeHeard

LEMMA SeedKeeps ==
    ASSUME KeyInv, UNCHANGED <<together, digest, keyring, login, cookie, page, calls>>,
           seed' \in [Codes -> {Keys!encrypt(k, "seed") : k \in Keys!UserKeys} \cup {Keys!Nothing}],
           SeedsAreTheirOwners'
    PROVE  KeyInv'
  <1>1. Keys!TypeOK' /\ Matched'
    BY DEF KeyInv, Keys!TypeOK, Matched
  <1>2. WrapsAreTheirOwners'
    BY DEF KeyInv, WrapsAreTheirOwners, SomeonesWrap, OwnWrap
  <1>3. CallsKnowTheirAccount' /\ OneFormIsBusy'
    BY DEF KeyInv, CallsKnowTheirAccount, OneFormIsBusy
  <1>4. CookiesAreTheirPages'
    BY SameSessions, CookiesStay
  <1> QED
    BY <1>1, <1>2, <1>3, <1>4 DEF KeyInv

LEMMA EnrolKeeps ==
    ASSUME KeyInv, NEW p \in Requests, Keys!Enrol(p)
    PROVE  KeyInv'
  <1> DEFINE a == Keys!Whose(p)
             k == page[p].key
  <1>1. a \in Codes /\ page[p].at = "open"
    BY SessionTyped DEF KeyInv, Keys!Enrol, Keys!Admitted
  <1>2. k \in Keys!UserKeys /\ (together \/ k = Keys!UserKey(a))
    BY <1>1 DEF KeyInv, CookiesAreTheirPages
  <1>3. /\ seed' = [seed EXCEPT ![a] = Keys!encrypt(k, "seed")]
        /\ UNCHANGED <<together, digest, keyring, login, cookie, page, calls>>
    BY DEF Keys!Enrol
  <1> HIDE DEF a, k
  <1>4. seed' \in [Codes -> {Keys!encrypt(l, "seed") : l \in Keys!UserKeys} \cup {Keys!Nothing}]
    BY <1>1, <1>2, <1>3 DEF KeyInv, Keys!TypeOK
  <1>5. SeedsAreTheirOwners'
    <2> SUFFICES ASSUME ~together, NEW b \in Codes
                 PROVE  seed'[b] = Keys!Nothing \/ Keys!Opens(Keys!UserKey(b), seed'[b])
      BY <1>3 DEF SeedsAreTheirOwners, Keys!Opens, Keys!UserKey
    <2>1. CASE b = a
      <3>1. seed'[b] = Keys!encrypt(Keys!UserKey(b), "seed")
        BY <1>1, <1>2, <1>3, <2>1 DEF KeyInv, Keys!TypeOK
      <3> QED
        BY <3>1, SeedFacts
    <2>2. CASE b # a
      <3>1. seed'[b] = seed[b]
        BY <1>3, <2>2 DEF KeyInv, Keys!TypeOK
      <3> QED
        BY <3>1 DEF KeyInv, SeedsAreTheirOwners, Keys!Opens
    <2> QED
      BY <2>1, <2>2
  <1> QED
    BY <1>3, <1>4, <1>5, SeedKeeps

LEMMA RemoveKeeps ==
    ASSUME KeyInv, NEW p \in Requests, NEW n \in Keys!Passwords, Keys!Remove(p, n)
    PROVE  KeyInv'
  <1> DEFINE a == Keys!Whose(p)
  <1>1. /\ seed' = [seed EXCEPT ![a] = Keys!Nothing]
        /\ UNCHANGED <<together, digest, keyring, login, cookie, page, calls>>
    BY DEF Keys!Remove
  <1> HIDE DEF a
  <1>2. seed' \in [Codes -> {Keys!encrypt(l, "seed") : l \in Keys!UserKeys} \cup {Keys!Nothing}]
    BY <1>1 DEF KeyInv, Keys!TypeOK
  <1>3. \A b \in Codes : seed'[b] = seed[b] \/ seed'[b] = Keys!Nothing
    BY <1>1 DEF KeyInv, Keys!TypeOK
  <1>4. SeedsAreTheirOwners'
    BY <1>1, <1>3 DEF KeyInv, SeedsAreTheirOwners, Keys!Opens, Keys!UserKey
  <1> QED
    BY <1>1, <1>2, <1>4, SeedKeeps

(* What the page had sent is answered to nobody. *)
LEMMA ReloadKeeps ==
    ASSUME KeyInv, NEW p \in Requests, Keys!Reload(p)
    PROVE  KeyInv'
  <1> DEFINE Orphan(c) == IF c.from = p THEN [c EXCEPT !.from = Keys!Nothing] ELSE c
  <1>1. /\ page' = [page EXCEPT ![p] = Keys!Blank]
        /\ calls' = {Orphan(c) : c \in calls}
        /\ UNCHANGED <<together, Keys!server, login, cookie>>
    BY DEF Keys!Reload
  <1>2. ASSUME NEW c \in calls
        PROVE  /\ Orphan(c) \in Keys!Call /\ Orphan(c).kind = c.kind
               /\ Orphan(c).token = c.token /\ Orphan(c).master = c.master
               /\ Orphan(c).wrap = c.wrap
               /\ Orphan(c).from # Keys!Nothing => Orphan(c) = c
               /\ p # Keys!Nothing => Orphan(c).from # p
    BY CallFacts DEF Keys!Call
  <1> HIDE DEF Orphan
  <1>3. /\ page' \in [Requests -> Keys!Page]
        /\ page'[p].at = "locked" /\ page'[p].ring = Keys!Nothing
        /\ \A q \in Requests \ {p} : page'[q] = page[q]
    BY <1>1 DEF KeyInv, Keys!TypeOK, Keys!Page, Keys!Blank
  <1>4. Keys!TypeOK'
    <2>1. calls' \subseteq Keys!Call
      BY <1>1, <1>2
    <2> QED
      BY <1>1, <1>3, <2>1 DEF KeyInv, Keys!TypeOK, Keys!server
  <1>5. Matched' /\ SeedsAreTheirOwners'
    BY <1>1 DEF KeyInv, Matched, SeedsAreTheirOwners, Keys!server
  <1>6. WrapsAreTheirOwners'
    <2>1. \A q \in Requests : SomeonesWrap(page'[q].ring)
      BY <1>3 DEF KeyInv, WrapsAreTheirOwners, SomeonesWrap
    <2>2. \A d \in calls' : SomeonesWrap(d.wrap)
      BY <1>1, <1>2 DEF KeyInv, WrapsAreTheirOwners
    <2> QED
      BY <1>1, <2>1, <2>2
      DEF KeyInv, WrapsAreTheirOwners, SomeonesWrap, OwnWrap, Keys!server
  <1>7. CallsKnowTheirAccount'
    BY <1>1, <1>2 DEF KeyInv, CallsKnowTheirAccount
  <1>8. \A d \in calls' : d.from # Keys!Nothing => d \in calls /\ d.from # p
    BY <1>1, <1>2
  <1>9. OneFormIsBusy'
    BY <1>3, <1>8, CallFacts DEF KeyInv, OneFormIsBusy
  <1>10. CookiesAreTheirPages'
    BY <1>1, <1>3, <1>8, SameSessions, CookiesStay
  <1> QED
    BY <1>4, <1>5, <1>6, <1>7, <1>9, <1>10 DEF KeyInv

LEMMA KeysStep == KeyInv /\ [Keys!Next]_(Keys!vars) => KeyInv'
  <1> SUFFICES ASSUME KeyInv, [Keys!Next]_(Keys!vars) PROVE KeyInv'
    OBVIOUS
  <1>1. ASSUME NEW p \in Requests, NEW a \in Codes, NEW n \in Keys!Passwords,
               Keys!Register(p, a, n) \/ Keys!Login(p, a, n)
        PROVE  KeyInv'
    BY <1>1, RegisterKeeps, LoginKeeps
  <1>2. ASSUME NEW p \in Requests, NEW n \in Keys!Passwords, Keys!Reauth(p, n) \/ Keys!Remove(p, n)
        PROVE  KeyInv'
    BY <1>2, ReauthKeeps, RemoveKeeps
  <1>3. ASSUME NEW p \in Requests, NEW o \in Keys!Passwords, NEW n \in Keys!Passwords,
               Keys!Change(p, o, n)
        PROVE  KeyInv'
    BY <1>3, ChangeKeeps
  <1>4. ASSUME NEW p \in Requests, NEW b \in BOOLEAN, Keys!Verify(p, b) PROVE KeyInv'
    BY <1>4, VerifyKeeps
  <1>5. ASSUME NEW p \in Requests, Keys!Complete(p) PROVE KeyInv'
    BY <1>5, CompleteKeeps
  <1>6. ASSUME NEW p \in Requests, Keys!Leave(p) PROVE KeyInv'
    BY <1>6, LockFacts, SameSessions, PageMoves DEF Keys!Leave
  <1>7. ASSUME NEW p \in Requests, Keys!Enrol(p) PROVE KeyInv'
    BY <1>7, EnrolKeeps
  <1>8. ASSUME NEW p \in Requests, Keys!Refused(p) PROVE KeyInv'
    BY <1>8, FlaggedFacts, SameSessions, PageMoves DEF Keys!Refused
  <1>9. ASSUME NEW p \in Requests, Keys!Reload(p) PROVE KeyInv'
    BY <1>9, ReloadKeeps
  <1>10. ASSUME NEW c \in calls, Keys!In(c) \/ Keys!Changed(c) \/ Keys!ChangeHeard(c)
         PROVE  KeyInv'
    BY <1>10, InKeeps, ChangedKeeps, ChangeHeardKeeps
  <1>11. ASSUME NEW c \in calls, Keys!Lost(c) PROVE KeyInv'
    BY <1>11, CallGoes DEF Keys!Lost
  <1>12. CASE UNCHANGED Keys!vars
    <2>1. UNCHANGED <<together, Keys!server, login, cookie, page, calls>>
      BY <1>12 DEF Keys!vars
    <2>2. UNCHANGED <<digest, keyring, seed>>
      BY <2>1 DEF Keys!server
    <2>3. SeedsAreTheirOwners'
      BY <2>1, <2>2 DEF KeyInv, SeedsAreTheirOwners
    <2> QED
      BY <2>1, <2>2, <2>3, SeedKeeps DEF KeyInv, Keys!TypeOK
  <1> QED
    BY <1>1, <1>2, <1>3, <1>4, <1>5, <1>6, <1>7, <1>8, <1>9, <1>10, <1>11, <1>12 DEF Keys!Next

LEMMA KeysBegin == Keys!Init => KeyInv
  <1> SUFFICES ASSUME Keys!Init PROVE KeyInv
    OBVIOUS
  <1> DEFINE Of(S, a, x) == IF a \in S THEN x ELSE Keys!Nothing
             m(a) == Keys!deriveMasterKey(a, 1)
  <1>1. PICK there \in SUBSET Codes : \E guarded \in SUBSET there :
          /\ digest = [a \in Codes |-> Of(there, a, Keys!deriveAuthHash(m(a)))]
          /\ keyring = [a \in Codes |-> Of(there, a, Keys!wrapUserKey(m(a), Keys!UserKey(a)))]
          /\ seed = [a \in Codes |-> Of(guarded, a, Keys!encrypt(Keys!UserKey(a), "seed"))]
    BY DEF Keys!Init
  <1>2. PICK guarded \in SUBSET there :
          /\ digest = [a \in Codes |-> Of(there, a, Keys!deriveAuthHash(m(a)))]
          /\ keyring = [a \in Codes |-> Of(there, a, Keys!wrapUserKey(m(a), Keys!UserKey(a)))]
          /\ seed = [a \in Codes |-> Of(guarded, a, Keys!encrypt(Keys!UserKey(a), "seed"))]
    BY <1>1
  <1>3. /\ together \in BOOLEAN /\ login = [t \in 1..MaxSessions |-> Keys!NoSession]
        /\ cookie = [p \in Requests |-> 0] /\ page = [p \in Requests |-> Keys!Blank]
        /\ calls = {}
    BY DEF Keys!Init
  <1>4. 1 \in Keys!Passwords
    BY AccountAssumption, KeysAssumption DEF Keys!Passwords
  <1>5. ASSUME NEW a \in Codes
        PROVE  /\ m(a) \in Keys!Masters /\ Keys!UserKey(a) \in Keys!UserKeys
               /\ Keys!wrapUserKey(m(a), Keys!UserKey(a)) \in Keys!Wraps
               /\ OwnWrap(a, Keys!wrapUserKey(m(a), Keys!UserKey(a)))
               /\ Keys!Opens(Keys!UserKey(a), Keys!encrypt(Keys!UserKey(a), "seed"))
    BY <1>4, OwnWrapFacts, SeedFacts
  <1> HIDE DEF m
  <1>6. Keys!TypeOK
    <2>1. /\ digest \in [Codes -> {Keys!deriveAuthHash(k) : k \in Keys!Masters} \cup {Keys!Nothing}]
          /\ keyring \in [Codes -> Keys!Wraps \cup {Keys!Nothing}]
          /\ seed \in [Codes -> {Keys!encrypt(k, "seed") : k \in Keys!UserKeys}
                                 \cup {Keys!Nothing}]
      BY <1>2, <1>5
    <2> QED
      BY <1>3, <2>1, KeysAssumption DEF Keys!TypeOK, Keys!NoSession, Keys!Blank, Keys!Page
  <1>7. Matched
    BY <1>2, <1>4 DEF Matched, m
  <1>8. WrapsAreTheirOwners
    BY <1>2, <1>3, <1>5 DEF WrapsAreTheirOwners, SomeonesWrap, Keys!Blank
  <1>9. CallsKnowTheirAccount /\ OneFormIsBusy /\ CookiesAreTheirPages
    BY <1>3 DEF CallsKnowTheirAccount, OneFormIsBusy, CookiesAreTheirPages, Keys!Blank
  <1>10. SeedsAreTheirOwners
    BY <1>2, <1>5 DEF SeedsAreTheirOwners
  <1> QED
    BY <1>6, <1>7, <1>8, <1>9, <1>10 DEF KeyInv

(* Every step of the run is a step of the keys, or leaves them alone. *)
LEMMA KeysRun == SumSpec => Keys!Spec
  <1>1. SumInit => Keys!Init
    BY DEF SumInit
  <1>2. [SumNext]_<<part, vars, keys>> => [Keys!Next]_(Keys!vars)
    BY DEF SumNext, keys, Keys!vars, Keys!server
  <1> QED
    BY <1>1, <1>2, PTL DEF SumSpec, Keys!Spec

(* There is no recovery, so the password that an account accepts must open  *)
(* what the account has: its own user key, and with that the seed of its    *)
(* second factor.  It does, however changes of any number of pages,         *)
(* sign-ins, outdated keyrings and lost answers fall together and whatever  *)
(* cookie they come with; except for the seed, where pages share a cookie.  *)
(* (session.ts:120-144, auth.routes.ts:255-300, TwoFactor.tsx:48-75)        *)
THEOREM PasswordsOpenTheirAccount == SumSpec => []PasswordOpensTheAccount
  <1>1. Keys!Spec => []KeyInv
    BY KeysBegin, KeysStep, PTL DEF Keys!Spec
  <1>2. KeyInv => PasswordOpensTheAccount
    BY DEF KeyInv, Matched, SeedsAreTheirOwners, PasswordOpensTheAccount,
           Keys!PasswordOpensTheAccount
  <1> QED
    BY <1>1, <1>2, KeysRun, PTL

(* Every envelope, session, cookie, page and request has its type.          *)
THEOREM KeysTyped == Keys!Spec => []Keys!TypeOK
  <1>1. KeyInv => Keys!TypeOK
    BY DEF KeyInv
  <1> QED
    BY <1>1, KeysBegin, KeysStep, PTL DEF Keys!Spec
=============================================================================
