------------------------------ MODULE AIPlatform ------------------------------
(***************************************************************************)
(* The AI platform (app/ai): suggestions for the dispatcher from a text that *)
(* is posted or from what is recorded of a call, and the audit row that       *)
(* every invocation of a provider is to leave.  Nothing but the audit log is   *)
(* written; the call is changed by its own requests meanwhile.                 *)
(***************************************************************************)
EXTENDS Sessions

CONSTANTS Providers,       \* the registered ones
          AIBodies,        \* the requests that are made
          MaxCallChanges   \* bound: changes of the call

VARIABLES talk,      \* the call: how many texts (its notes, transcripts), its incident, removed
          edits,     \* how often it changed
          aiLog,     \* ai_audit_log
          invoked,   \* history: the requests whose provider has answered or failed
          suggested  \* the answers, each with the text it is about, and the last one at its start

aiTables == <<talk, edits, aiLog>>
aiVars == <<sessionVars, aiTables, invoked, suggested>>

AICapabilities == {"transcribe", "extract", "classify", "summarize", "analyze"}
AuditEntries == [by : Requests, capability : AICapabilities, status : {"success", "error"},
                 provider : Providers, incident : {"i1", "i2", None}]
AIOperations ==
       [kind : {"text"}, capability : AICapabilities, provider : STRING,
        incident : STRING \cup {None}]
  \cup [kind : {"call"}, capability : {"analyze"}, provider : STRING]

ASSUME AIAssumption == AIBodies \subseteq AIOperations /\ MaxCallChanges \in Nat

AITypeOK ==
  /\ aiLog \subseteq AuditEntries
  /\ talk.texts \in Nat /\ talk.incident \in {"i1", "i2", None}
  /\ edits \in 0..MaxCallChanges /\ invoked \subseteq Requests

AIInit ==
  /\ SessionsInit
  /\ talk \in [texts : {0, 1}, incident : {"i1", None}, removed : {FALSE}]
  /\ edits = 0 /\ aiLog = {} /\ invoked = {} /\ suggested = {}

-----------------------------------------------------------------------------
(* An unknown provider is refused, before or after the call is read. *)
Registered(op) == op.provider \in Providers

(* A text needs no row: the session takes a connection when its provider is    *)
(* done, to flush the audit entry.                                              *)
ReceiveText(r, op) ==
  /\ op.kind = "text" /\ Registered(op)
  /\ Begin(r, op, [texts |-> 1, since |-> 1, incident |-> op.incident])
  /\ UNCHANGED <<aiTables, invoked, suggested>>

(* A call's row comes first; its transcripts with another SELECT. *)
ReceiveCall(r, op) ==
  /\ op.kind = "call" /\ Registered(op) /\ ~ talk.removed
  /\ Begin(r, op, [since |-> talk.texts, incident |-> talk.incident])
  /\ UNCHANGED <<aiTables, invoked, suggested>>

ReadTexts(r) ==
  /\ session[r].at = "row"
  /\ LET c == session[r].seen IN
     Load(r, [texts |-> IF session[r].op.kind = "text" THEN c.texts ELSE talk.texts,
              since |-> c.since, incident |-> c.incident])
  /\ UNCHANGED <<aiTables, invoked, suggested>>

(* Mutant: the first text instead of the last. *)
FirstText(texts) == 1
(* The most recent transcript, else the notes. *)
CallText(texts) == texts

Analysing(r) ==
  session[r].at = "loaded" /\ session[r].seen.texts > 0

(* The audit row refers to an incident that there is. *)
Refers(r) == session[r].seen.incident \in {"i1", "i2", None}

AuditEntry(r, status) ==
  LET c == session[r] IN
  [by |-> r, capability |-> c.op.capability, status |-> status,
   provider |-> c.op.provider, incident |-> c.seen.incident]

Recorded(r) == {AuditEntry(r, "success")}

(* The provider answers: recorded, and committed with the request. *)
Suggest(r) ==
  /\ Analysing(r) /\ Refers(r)
  /\ aiLog' = aiLog \cup Recorded(r)
  /\ suggested' = suggested \cup {[to |-> r, text |-> CallText(session[r].seen.texts),
                                   since |-> session[r].seen.since,
                                   incident |-> session[r].seen.incident]}
  /\ invoked' = invoked \cup {r}
  /\ Finish(r, "done")
  /\ UNCHANGED <<talk, edits>>

(* It fails: record_error flushes its row, the exception goes on to the session, *)
(* which rolls back.                                                              *)
RolledBack(r) == {}

Explode(r) ==
  /\ Analysing(r) /\ Refers(r)
  /\ aiLog' = aiLog \cup RolledBack(r)
  /\ invoked' = invoked \cup {r}
  /\ Finish(r, "failed")
  /\ UNCHANGED <<talk, edits, suggested>>

(* No text, no such provider, no such incident; or the connection is lost. *)
RejectAI(r) ==
  /\ r \in Open /\ Finish(r, "failed")
  /\ UNCHANGED <<aiTables, invoked, suggested>>

(* The call's own requests. *)
CallChanges ==
  /\ edits < MaxCallChanges /\ ~ talk.removed
  /\ talk' \in {[talk EXCEPT !.texts = @ + 1], [talk EXCEPT !.incident = "i2"],
                [talk EXCEPT !.removed = TRUE]}
  /\ edits' = edits + 1
  /\ UNCHANGED <<sessionVars, aiLog, invoked, suggested>>

AINext ==
  \/ CallChanges
  \/ \E r \in Requests :
       \/ \E op \in AIBodies : ReceiveText(r, op) \/ ReceiveCall(r, op)
       \/ ReadTexts(r) \/ Suggest(r) \/ Explode(r) \/ RejectAI(r)

AISpec == AIInit /\ [][AINext]_aiVars

-----------------------------------------------------------------------------
(* Properties. *)

(* What a dispatcher is given as a suggestion is on record, with the incident it *)
(* is about, and nothing is on record that nobody was given.                       *)
SuggestionIsAudited ==
  /\ \A s \in suggested : \E e \in aiLog : e.by = s.to /\ e.incident = s.incident
  /\ \A e \in aiLog : e.status = "success" => \E s \in suggested : s.to = e.by

(* The text a suggestion is about is at least as recent as the last there was when *)
(* the dispatcher asked for it.                                                    *)
SuggestionIsRecent == \A s \in suggested : s.text >= s.since

(* A suggestion is on record and about what is known. *)
SuggestionIsSound == SuggestionIsAudited /\ SuggestionIsRecent

(* "Every AI call writes an ai_audit_log row": one for a provider that failed too. *)
EveryCallIsAudited == \A r \in invoked : \E e \in aiLog : e.by = r
=============================================================================
