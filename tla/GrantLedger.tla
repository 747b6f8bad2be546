----------------------------- MODULE GrantLedger -----------------------------
(***************************************************************************)
(* What the questions of a Run promise, whoever answers, expires, cancels,  *)
(* revokes or restarts meanwhile: a request is decided once, and only a     *)
(* session approval that was given is taken back.  A call takes effect at   *)
(* most once, relying on a request that was given and covers it; one with a *)
(* side effect has claimed that request while it was still given.           *)
(*                                                                          *)
(* Abstract specification of the brokers (crates/hachimi-approvals,         *)
(* crates/hachimi-user-input) and of the calls that wait for them           *)
(* (crates/hachimi-agent/src/security_tools.rs).  ToolApprovals implements  *)
(* it.                                                                      *)
(***************************************************************************)
CONSTANTS Call, Read, Session, Shared, NoCall  \* as in ToolApprovals

VARIABLES
  request,  \* of each call: "none", "open", "given", "closed" or "revoked"
  claim,    \* the request each call with a side effect has claimed, or NoCall
  used      \* the request each call that took effect relied on, or NoCall

ledgerVars == <<request, claim, used>>

LedgerInit ==
  /\ request = [c \in Call |-> "none"]
  /\ claim = [c \in Call |-> NoCall]
  /\ used = [c \in Call |-> NoCall]

MoveAll(S, from, to) ==
  /\ \A c \in S : request[c] = from
  /\ request' = [c \in Call |-> IF c \in S THEN to ELSE request[c]]
  /\ UNCHANGED <<claim, used>>

Open(c) == MoveAll({c}, "none", "open")
Give(c) == MoveAll({c}, "open", "given")

(* Open requests close one by one or together.                             *)
Close(S) == MoveAll(S, "open", "closed")
Revoke(S) == S \subseteq Session /\ MoveAll(S, "given", "revoked")

(* An approval covers its own call and, within the Session, those of the   *)
(* same authority.                                                         *)
Covers(b, c) == b = c \/ {b, c} \subseteq Shared

Claim(c, b) ==
  /\ c \notin Read
  /\ used[c] = NoCall
  /\ claim[c] = NoCall
  /\ Covers(b, c)
  /\ request[b] = "given"
  /\ claim' = [claim EXCEPT ![c] = b]
  /\ UNCHANGED <<request, used>>

Lapse(c) == claim' = [claim EXCEPT ![c] = NoCall] /\ UNCHANGED <<request, used>>

(* A claim takes effect once.                                              *)
Send(c) ==
  /\ claim[c] # NoCall
  /\ used' = [used EXCEPT ![c] = claim[c]]
  /\ claim' = [claim EXCEPT ![c] = NoCall]
  /\ UNCHANGED request

(* A read claims nothing: its approval may be taken back while it begins.  *)
Look(c, b) ==
  /\ c \in Read
  /\ used[c] = NoCall
  /\ Covers(b, c)
  /\ request[b] \in {"given", "revoked"}
  /\ used' = [used EXCEPT ![c] = b]
  /\ UNCHANGED <<request, claim>>

(* A restart closes what is open and drops what was claimed.               *)
Restart ==
  /\ request' = [c \in Call |-> IF request[c] = "open" THEN "closed" ELSE request[c]]
  /\ claim' = [c \in Call |-> NoCall]
  /\ UNCHANGED used

LedgerNext ==
  \/ \E c \in Call : Open(c) \/ Give(c) \/ Lapse(c) \/ Send(c)
  \/ \E S \in SUBSET Call : Close(S) \/ Revoke(S)
  \/ \E b, c \in Call : Claim(c, b) \/ Look(c, b)
  \/ Restart

LedgerSpec == LedgerInit /\ [][LedgerNext]_ledgerVars
=============================================================================
