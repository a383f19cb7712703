------------------------------ MODULE TurnStore ------------------------------
(***************************************************************************)
(* The `turns` table of data/analytics.sqlite and the two statements that  *)
(* write Codex rows to it: upsert_turn and backfill_turn_request_payloads  *)
(* (app/storage/repositories.py).  The module has no state: a table is a   *)
(* set of rows, and an operator returns the table a statement leaves.      *)
(*                                                                         *)
(* A row keeps the columns the statements tell apart:                      *)
(*   sid    source_log_id, the primary key                                 *)
(*   rid    response_id, unique but for NULL                               *)
(*   turn   thread_id, turn_id and model together: which call it counts    *)
(*   tok    input, output and total tokens together: what it counts        *)
(*   event  whether event_json is not NULL                                 *)
(*   req    where request_json comes from: the id of the log row that      *)
(*          carried the payload, 0 for NULL                                *)
(***************************************************************************)
EXTENDS Naturals, FiniteSets, FiniteSetsExt

CONSTANTS
    Turns,          \* identities (thread_id, turn_id, model)
    TokenCounts,    \* (input, output, total) triples with total > 0
    Responses       \* response ids Codex assigns

(***************************************************************************)
(* Response ids: the synthetic ids the parser makes up, the ids of response *)
(* events, and SQL NULL, which equals no id, itself included.              *)
(***************************************************************************)
NoId == [kind |-> "null", of |-> "null"]

UsageId(t) == [kind |-> "usage", of |-> t]

EstimateId(t) == [kind |-> "estimate", of |-> t]

ResponseId(r) == [kind |-> "response", of |-> r]

ResponseIds ==
    {NoId} \cup {UsageId(t) : t \in Turns} \cup {EstimateId(t) : t \in Turns}
           \cup {ResponseId(r) : r \in Responses}

Synthetic(id) == id.kind \in {"usage", "estimate"}

TurnRow == [sid: Nat, rid: ResponseIds, turn: Turns, tok: TokenCounts,
            event: BOOLEAN, req: Nat]

-----------------------------------------------------------------------------
(***************************************************************************)
(* upsert_turn.  An event first tries to complete usage rows of the same   *)
(* turn with the same counts; the UPDATE keeps their source_log_id.  When  *)
(* it changes nothing, the row is inserted: ON CONFLICT(response_id)       *)
(* rewrites every column of the row with that id, and a row with the same  *)
(* source_log_id but another id is replaced.                               *)
(***************************************************************************)
\* Mutant: the UPDATE does not compare the turns.
Absorbable_AnyTurn(turns, new) == {r \in turns : r.tok = new.tok /\ ~r.event}

Absorbable(turns, new) ==
    {r \in turns : /\ r.turn = new.turn
                   /\ r.tok = new.tok
                   /\ ~r.event}

KnownId(turns, id) == id # NoId /\ \E r \in turns : r.rid = id

CompletesUsage(turns, new) ==
    /\ new.event
    /\ ~KnownId(turns, new.rid)
    /\ Absorbable(turns, new) # {}

\* Mutant: the UPDATE leaves event_json NULL.
Completed_WithoutEvent(r, new) == [r EXCEPT !.rid = new.rid, !.req = new.req]

Completed(r, new) ==
    [r EXCEPT !.rid = new.rid, !.event = new.event, !.req = new.req]

UpsertTurn(turns, new) ==
    IF CompletesUsage(turns, new)
    THEN (turns \ Absorbable(turns, new))
            \cup {Completed(r, new) : r \in Absorbable(turns, new)}
    ELSE IF KnownId(turns, new.rid)
         THEN {r \in turns : r.rid # new.rid} \cup {new}
         ELSE {r \in turns : r.sid # new.sid} \cup {new}

(***************************************************************************)
(* When SQLite raises IntegrityError instead: two usage rows cannot take   *)
(* one id, and a rewritten row cannot take a source_log_id that a third    *)
(* row holds (DO UPDATE aborts on a second conflict, whatever OR REPLACE   *)
(* says).                                                                  *)
(***************************************************************************)
UpsertRaises(turns, new) ==
    IF CompletesUsage(turns, new)
    THEN /\ new.rid # NoId
         /\ \E r, s \in Absorbable(turns, new) : r # s
    ELSE /\ KnownId(turns, new.rid)
         /\ \E r \in turns : r.rid # new.rid /\ r.sid = new.sid

(***************************************************************************)
(* backfill_turn_request_payloads: requests is the set of log ids of the   *)
(* requests scanned, turnOf the turn each names.  They are applied in log  *)
(* order to every row of their turn, so the last one stays.                *)
(***************************************************************************)
RequestsOf(turn, requests, turnOf) == {q \in requests : turnOf[q] = turn}

\* Mutant: the first request of a turn stays.
BackfillRequests_KeepsFirst(turns, requests, turnOf) ==
    {LET own == RequestsOf(r.turn, requests, turnOf)
     IN  IF own = {} \/ r.req # 0 THEN r ELSE [r EXCEPT !.req = Min(own)]
     : r \in turns}

BackfillRequests(turns, requests, turnOf) ==
    {LET own == RequestsOf(r.turn, requests, turnOf)
     IN  IF own = {} THEN r ELSE [r EXCEPT !.req = Max(own)]
     : r \in turns}
=============================================================================
