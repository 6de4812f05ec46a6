---------------------------- MODULE WritebackApprovals ----------------------------
(* Dry-run previews and the approval tokens bound to them:                        *)
(* dataruns/writebacks/approvals/service.py and the preview half of pipeline.py.  *)
(* One company.  The tables are functions over a finite supply of ids, a row that *)
(* does not exist yet has status "absent".  A token's lifetime counts down from   *)
(* TTL; the composing module drives the clock and calls the operators that take   *)
(* part in an execute.                                                            *)
EXTENDS Integers

CONSTANTS
  Checks,       \* DCS check ids that have a write-back mapping
  Hashes,       \* diff hashes a set of intents can have
  Ready,        \* Ready[h]: how many intents of the diff h are ready
  MaxReady,     \* the effective max_rows: no diff is larger
  Individual,   \* checks whose mapping has approval_tier "individual"
  Previews,     \* ids of dry-run jobs
  Tokens,       \* ids of approval tokens
  TTL,          \* WRITEBACK_APPROVAL_TTL_MINUTES, in ticks
  None          \* null

ASSUME ApprovalsAssumption ==
  /\ TTL \in Nat \ {0}
  /\ MaxReady \in Nat
  /\ Ready \in [Hashes -> 0 .. MaxReady]
  /\ Individual \subseteq Checks
  /\ None \notin Previews \cup Tokens \cup Checks \cup Hashes

VARIABLES
  previews,     \* WritebackJob rows with mode "dry_run"
  tokens        \* WritebackApprovalToken rows

approvalVars == <<previews, tokens>>

NoPreview == [status |-> "absent", check |-> None, hash |-> None, run |-> None]

NoToken == [status |-> "absent", check |-> None, hash |-> None, job |-> None,
            ttl |-> 0, consumed |-> FALSE]

TokenStatus == {"PENDING", "APPROVED", "REJECTED", "EXPIRED", "REVOKED"}

PreviewType ==
  [status : {"previewed"}, check : Checks, hash : Hashes, run : Nat \cup {None}]

TokenType ==
  [status : TokenStatus, check : Checks, hash : Hashes, job : Previews,
   ttl : 0 .. TTL, consumed : BOOLEAN]

ApprovalsTypeOK ==
  /\ previews \in [Previews -> PreviewType \cup {NoPreview}]
  /\ tokens \in [Tokens -> TokenType \cup {NoToken}]

ApprovalsInit ==
  /\ previews = [p \in Previews |-> NoPreview]
  /\ tokens = [t \in Tokens |-> NoToken]

---------------------------------------------------------------------------------
(* The single-approval tier admits one ready intent; both the request for an      *)
(* approval and the execute refuse a larger diff.                                 *)
TierAllows(c, h) == c \in Individual => Ready[h] <= 1

(* _expire_if_needed: what the row holds once a reader has looked at it.          *)
PastTTL(tok) ==
  tok.status \in {"PENDING", "APPROVED"} /\ ~tok.consumed /\ tok.ttl = 0

Expire(tok) == IF PastTTL(tok) THEN [tok EXCEPT !.status = "EXPIRED"] ELSE tok

(* mutant: the token's diff hash is not compared *)
ValidForExecuteMut(tok, c, h) ==
  tok.check = c /\ Expire(tok).status = "APPROVED" /\ ~tok.consumed

(* validate_approval_for_execute on the row as it stands after _expire_if_needed. *)
ValidForExecute(tok, c, h) ==
  /\ tok.check = c
  /\ tok.hash = h
  /\ Expire(tok).status = "APPROVED"
  /\ ~tok.consumed

(* consume_approval_token: an UPDATE ... WHERE consumed_at IS NULL that looks at  *)
(* nothing else and reports nothing.                                              *)
Consume(t) == tokens' = [tokens EXCEPT ![t].consumed = TRUE]

(* revoke_approval_on_diff_hash_mismatch                                          *)
RevokeMismatched(t) ==
  tokens' = IF tokens[t].status = "APPROVED" /\ ~tokens[t].consumed
              THEN [tokens EXCEPT ![t].status = "REVOKED"]
              ELSE tokens

(* revoke_superseded_grants_for_new_preview: the APPROVED, unconsumed tokens of   *)
(* the check's other previews; of the same DCS run only, when the new preview has *)
(* one.  PENDING tokens are left alone.                                           *)
Superseded(t, p) ==
  LET tok == tokens[t] IN
  /\ tok.status = "APPROVED"
  /\ ~tok.consumed
  /\ tok.check = previews[p].check
  /\ tok.job # p
  /\ previews[p].run # None => previews[tok.job].run = previews[p].run

RevokeSuperseded(p) ==
  tokens' = [t \in Tokens |->
               IF Superseded(t, p) THEN [tokens[t] EXCEPT !.status = "REVOKED"]
                                   ELSE tokens[t]]

(* The dry-run branch of run_writeback_pipeline up to its INSERT.                  *)
CreatePreview(p, c, h, r) ==
  /\ previews[p].status = "absent"
  /\ previews' = [previews EXCEPT ![p] =
                    [status |-> "previewed", check |-> c, hash |-> h, run |-> r]]

(* request_approval: any previewed job, the latest or not.                        *)
RequestApproval(t, p) ==
  /\ tokens[t].status = "absent"
  /\ previews[p].status = "previewed"
  /\ TierAllows(previews[p].check, previews[p].hash)
  /\ tokens' = [tokens EXCEPT ![t] =
                  [status |-> "PENDING", check |-> previews[p].check,
                   hash |-> previews[p].hash, job |-> p,
                   ttl |-> TTL, consumed |-> FALSE]]
  /\ UNCHANGED previews

(* approve_token and reject_token run under the row lock.  A token past its TTL   *)
(* is saved as EXPIRED and the refusal that follows rolls the save back, so a     *)
(* refused call changes nothing.                                                  *)
Approve(t) ==
  /\ Expire(tokens[t]).status = "PENDING"
  /\ tokens' = [tokens EXCEPT ![t].status = "APPROVED"]
  /\ UNCHANGED previews

Reject(t) ==
  /\ Expire(tokens[t]).status = "PENDING"
  /\ tokens' = [tokens EXCEPT ![t].status = "REJECTED"]
  /\ UNCHANGED previews

(* expires_at comes one tick nearer                                               *)
AgeTokens ==
  tokens' = [t \in Tokens |->
               IF tokens[t].ttl > 0 THEN [tokens[t] EXCEPT !.ttl = @ - 1]
                                    ELSE tokens[t]]
=================================================================================
