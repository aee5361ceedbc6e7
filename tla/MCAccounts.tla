----------------------------- MODULE MCAccounts -----------------------------
(***************************************************************************)
(* Two parts that share no state, checked in one run: Accounts, one account*)
(* as the server keeps it; and AccountKeys, accounts and pages and what is *)
(* sealed under what.  Init chooses the part and only that part moves.     *)
(***************************************************************************)
EXTENDS Accounts, TLC

CONSTANTS Budget, MaxSessions, MaxCalls

VARIABLES part, together, digest, keyring, seed, login, cookie, page, calls

keys == <<together, digest, keyring, seed, login, cookie, page, calls>>

(* Model values of the other part, which keeps the symmetry group small.    *)
Keys == INSTANCE AccountKeys WITH Accounts <- Codes, Pages <- Requests, session <- login

(* "No account" is not one, and there is a password to begin with.          *)
ASSUME KeysAssumption ==
    /\ Keys!Nothing \notin Codes
    /\ MaxPassword \in Nat \ {0} /\ MaxSessions \in Nat

SumInit ==
    /\ part \in {"account", "keys"}
    /\ Init /\ Keys!Init
    /\ part = "keys" => ~enrolment.on
    /\ part = "account" => ~together /\ \A c \in Codes : digest[c] = <<>>

SumNext ==
    /\ UNCHANGED part
    /\ \/ part = "account" /\ Next /\ UNCHANGED keys
       \/ part = "keys" /\ Keys!Next /\ UNCHANGED vars

SumSpec == SumInit /\ [][SumNext]_<<part, vars, keys>>

(* Whatever happens seldom to the account is paid for out of one budget, so *)
(* that every mixture of a few such events is covered: sessions, codes,     *)
(* changes of the password, enrolments and time.                            *)
Spent ==
    (password - 1) + enrolment.seed + (now - 1)
        + Cardinality({s \in SessionIds : session[s].state # "unborn"})
        + Cardinality({c \in Codes : code[c].state # "unborn"})

WithinBudget == Spent <= Budget

(* Codes and requests are interchangeable; a session is, but for Anyone.    *)
Symmetry == Permutations(Codes) \cup Permutations(Requests)

-----------------------------------------------------------------------------
(* AccountKeys.PasswordOpensTheAccount *)
PasswordOpensTheAccount == part = "keys" => Keys!PasswordOpensTheAccount
=============================================================================
