------------------------------ MODULE LspClient ------------------------------
(***************************************************************************)
(* Code intelligence over a language server (intelligence/lsp.py and       *)
(* tools/code_intelligence.py): the documents the client has opened in the *)
(* server and their versions, the diagnostics the server publishes on its  *)
(* own, requests with timeouts, a server that dies and is started again,   *)
(* and a rename planned on what the server knew of the files.  Files       *)
(* change at any time; the server reads its input in order and works from  *)
(* the documents opened in it, and from the disk for all others.           *)
(***************************************************************************)
EXTENDS Naturals, Sequences, FiniteSets, SequencesExt

CONSTANTS Files,
          MaxEdits,    \* bound: changes of files
          MaxQueries,  \* bound: calls of the two tools
          MaxStarts    \* bound: starts of the server

VARIABLES disk,         \* the text of each file, as the number of its changes
          running,      \* the process of the client lives
          starts, edits, queries,
          documents,    \* _documents: text and version sent of each file
          diagnostics,  \* the last published of each file
          view,         \* the server's open documents
          stdin, stdout,
          query,        \* the tool call under way
          plan,         \* the snapshots a rename has taken
          result        \* history: what the last call returned or wrote

vars == <<disk, running, starts, edits, queries, documents, diagnostics, view, stdin,
          stdout, query, plan, result>>
counters == <<starts, edits, queries>>
channel == <<stdin, stdout, view>>

Actions == {"navigate", "diagnostics", "rename"}
Unopened == [text |-> 0, version |-> 0]
NoDiagnostics == [text |-> 0, version |-> 0, known |-> FALSE]
Idle == [pc |-> "idle", file |-> CHOOSE f \in Files : TRUE, action |-> "navigate",
         text |-> 0, edits |-> [f \in Files |-> 0]]
NoResult == [kind |-> "none", text |-> 0, of |-> 0, bases |-> [f \in Files |-> <<0, 0>>]]

Init ==
  /\ disk = [f \in Files |-> 1]
  /\ running = FALSE /\ starts = 0 /\ edits = 0 /\ queries = 0
  /\ documents = [f \in Files |-> Unopened] /\ view = documents
  /\ diagnostics = [f \in Files |-> NoDiagnostics]
  /\ stdin = <<>> /\ stdout = <<>>
  /\ query = Idle
  /\ plan = <<>>
  /\ result = NoResult

Edit(f) ==
  /\ edits < MaxEdits
  /\ edits' = edits + 1
  /\ disk' = [disk EXCEPT ![f] = @ + 1]
  /\ UNCHANGED <<running, starts, queries, documents, diagnostics, channel, query, plan, result>>

(* A tool call; a client whose server is gone is replaced by a new one. *)
Ask(f, action) ==
  /\ query.pc = "idle" /\ queries < MaxQueries
  /\ queries' = queries + 1
  /\ query' = [Idle EXCEPT !.pc = IF running THEN "open" ELSE "start", !.file = f,
                          !.action = action]
  /\ result' = NoResult
  /\ UNCHANGED <<disk, running, starts, edits, documents, diagnostics, channel, plan>>

Return(r) == query' = Idle /\ plan' = <<>> /\ result' = r

(* Without a server the answer is a fallback, and a rename is refused. *)
Unavailable == Return([NoResult EXCEPT !.kind = "fallback"])

(* The handshake of a new process, which knows no documents. *)
Start ==
  /\ query.pc = "start"
  /\ \/ /\ starts < MaxStarts
        /\ starts' = starts + 1
        /\ running' = TRUE
        /\ documents' = [f \in Files |-> Unopened] /\ view' = documents'
        /\ diagnostics' = [f \in Files |-> NoDiagnostics]
        /\ stdin' = <<>> /\ stdout' = <<>>
        /\ query' = [query EXCEPT !.pc = "open"]
        /\ UNCHANGED <<plan, result>>
     \/ /\ Unavailable
        /\ UNCHANGED <<running, starts, documents, diagnostics, channel>>
  /\ UNCHANGED <<disk, edits, queries>>

(***************************************************************************)
(* open_document: a text the server does not have is sent with the next    *)
(* version, and the diagnostics of the earlier text are dropped.           *)
(***************************************************************************)
Open ==
  /\ query.pc = "open"
  /\ LET f == query.file
         next == [text |-> disk[f], version |-> documents[f].version + 1] IN
       /\ IF documents[f].text = disk[f]
          THEN UNCHANGED <<documents, diagnostics, stdin>>
          ELSE /\ documents' = [documents EXCEPT ![f] = next]
               /\ diagnostics' = [diagnostics EXCEPT ![f] = NoDiagnostics]
               /\ stdin' = Append(stdin, [method |-> "didChange", file |-> f,
                                               document |-> next, query |-> 0])
       /\ query' = [query EXCEPT !.pc = IF query.action = "diagnostics" THEN "published"
                                        ELSE "request", !.text = disk[f]]
  /\ UNCHANGED <<disk, running, counters, view, stdout, plan, result>>

(* A request goes out; a server that is gone makes the write fail. *)
Request ==
  /\ query.pc = "request"
  /\ IF running
     THEN /\ stdin' = Append(stdin, [method |-> query.action, file |-> query.file,
                                     document |-> Unopened, query |-> queries])
          /\ query' = [query EXCEPT !.pc = "wait"]
          /\ UNCHANGED <<plan, result>>
     ELSE Unavailable /\ UNCHANGED stdin
  /\ UNCHANGED <<disk, running, counters, documents, diagnostics, view, stdout>>

(* The published diagnostics of another version are not those of the text. *)
CurrentWhenever(f) == TRUE
Current(f) == diagnostics[f].version = documents[f].version

Published ==
  /\ query.pc = "published" /\ diagnostics[query.file].known
  /\ IF Current(query.file)
     THEN Return([NoResult EXCEPT !.kind = "full", !.text = diagnostics[query.file].text,
                                  !.of = query.text])
     ELSE Return([NoResult EXCEPT !.kind = "older"])
  /\ UNCHANGED <<disk, running, counters, documents, diagnostics, channel>>

(* A timeout, a stop of the turn, or the end of the server. *)
GiveUp ==
  /\ query.pc \in {"published", "wait"}
  /\ Unavailable
  /\ UNCHANGED <<disk, running, counters, documents, diagnostics, channel>>

(***************************************************************************)
(* The reader keeps what is published, and hands an answer to the request  *)
(* that waits for it; the answer to one that was given up is dropped.      *)
(***************************************************************************)
Read ==
  /\ stdout # <<>>
  /\ stdout' = Tail(stdout)
  /\ LET message == Head(stdout) IN
       IF message.method = "publish"
       THEN /\ diagnostics' = [diagnostics EXCEPT ![message.file] =
                                 [text |-> message.document.text,
                                  version |-> message.document.version, known |-> TRUE]]
            /\ UNCHANGED <<query, plan, result>>
       ELSE /\ UNCHANGED diagnostics
            /\ IF query.pc # "wait" \/ message.query # queries
               THEN UNCHANGED <<query, plan, result>>
               ELSE IF query.action = "navigate"
               THEN Return([NoResult EXCEPT !.kind = "answer"])
               ELSE /\ query' = [query EXCEPT !.pc = "plan", !.edits = message.edits]
                    /\ UNCHANGED <<plan, result>>
  /\ UNCHANGED <<disk, running, counters, documents, view, stdin>>

(* What the server knows of a file: the open document, or else the disk. *)
Known(f) == IF view[f].version = 0 THEN disk[f] ELSE view[f].text

Serve ==
  /\ running /\ stdin # <<>>
  /\ LET message == Head(stdin) IN
       IF message.method = "didChange"
       THEN /\ view' = [view EXCEPT ![message.file] = message.document]
            /\ stdout' = Append(stdout, [method |-> "publish", file |-> message.file,
                 document |-> message.document, query |-> 0, edits |-> Idle.edits])
       ELSE /\ stdout' = Append(stdout, [method |-> "answer", file |-> message.file,
                 document |-> Unopened, query |-> message.query,
                 edits |-> [f \in Files |-> Known(f)]])
            /\ UNCHANGED view
  /\ stdin' = Tail(stdin)
  /\ UNCHANGED <<disk, running, counters, documents, diagnostics, query, plan, result>>

Die ==
  /\ running
  /\ running' = FALSE
  /\ stdin' = <<>> /\ stdout' = <<>>
  /\ UNCHANGED <<disk, counters, documents, diagnostics, view, query, plan, result>>

(***************************************************************************)
(* A rename takes a snapshot of every file it edits, refuses one whose     *)
(* text is not the one opened in the server, and writes when none of them  *)
(* has changed since its snapshot.                                         *)
(***************************************************************************)
AnalysedAsAsked(f) == f = query.file => documents[f].text = disk[f]
Analysed(f) == documents[f].version # 0 => documents[f].text = disk[f]

Plan ==
  /\ query.pc = "plan" /\ Len(plan) < Cardinality(Files)
  /\ \E f \in Files :
       /\ \A i \in 1 .. Len(plan) : plan[i].file # f
       /\ IF Analysed(f)
          THEN /\ plan' = Append(plan, [file |-> f, text |-> disk[f]])
               /\ UNCHANGED <<query, result>>
          ELSE Return([NoResult EXCEPT !.kind = "refused"])
  /\ UNCHANGED <<disk, running, counters, documents, diagnostics, channel>>

Unchanged == \A i \in 1 .. Len(plan) : disk[plan[i].file] = plan[i].text

Write ==
  /\ query.pc = "plan" /\ Len(plan) = Cardinality(Files)
  /\ IF Unchanged
     THEN /\ Return([NoResult EXCEPT !.kind = "written", !.bases =
                      [f \in Files |-> IF documents[f].version = 0 THEN <<0, 0>>
                                       ELSE <<query.edits[f], disk[f]>>]])
          /\ disk' = [f \in Files |-> disk[f] + 1]
     ELSE Return([NoResult EXCEPT !.kind = "refused"]) /\ UNCHANGED disk
  /\ UNCHANGED <<running, counters, documents, diagnostics, channel>>

Next == \/ \E f \in Files : Edit(f) \/ \E a \in Actions : Ask(f, a)
        \/ Start \/ Open \/ Request \/ Published \/ GiveUp \/ Read \/ Plan \/ Write
        \/ Serve \/ Die

Spec == Init /\ [][Next]_vars

-----------------------------------------------------------------------------
TypeOK ==
  /\ query.pc \in {"idle", "start", "open", "request", "published", "wait", "plan"}
  /\ result.kind \in {"none", "fallback", "full", "older", "answer", "refused", "written"}

(* Diagnostics that are returned as the full ones are of the text that was  *)
(* opened for the query, however late earlier ones are published.           *)
DiagnosticsAreOfTheText == result.kind = "full" => result.text = result.of

(* A rename changes an open document only where the edits were computed on  *)
(* the text they are applied to.                                            *)
RenamesWhatWasAnalysed ==
  result.kind = "written" => \A f \in Files : result.bases[f][1] = result.bases[f][2]

LspSafe == TypeOK /\ DiagnosticsAreOfTheText /\ RenamesWhatWasAnalysed
=============================================================================
