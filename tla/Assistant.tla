----------------------------- MODULE Assistant -----------------------------
(***************************************************************************)
(* The assistant of the platform: a turn of a conversation is a request of *)
(* sudo whose response is streamed.  The question is stored first; then    *)
(* the model answers or calls tools, hop after hop; the answer, with the   *)
(* calls, is stored last.  The stream runs after the middleware forgot the *)
(* request, so tools are bound by the store the turn began with.           *)
(*                                                                         *)
(* The model is outside: it answers, calls tools with any ids (the         *)
(* registry runs a tool whether or not it was offered for the turn), or    *)
(* fails.  So are its embeddings of the knowledge base.                    *)
(***************************************************************************)
EXTENDS Tenancy, Tools, Functions

CONSTANTS
  Conversations,
  MaxHops,      \* MAX_TOOL_HOPS
  MaxCalls,     \* bound: calls asked for in one hop
  Chunks,       \* rows of the knowledge base
  Models        \* what the provider may list

ASSUME AssistantAssumption == MaxHops \in Nat \ {0} /\ MaxCalls \in Nat \ {0}

VARIABLES
  asked, answered,   \* per conversation: messages of each role
  told,              \* tool calls in the stored answers
  called,            \* history: tool calls made
  lost,              \* history: tool calls of turns that were cut off
  chunks,            \* knowledge base: rows, with or without their embedding
  models             \* AIModelCache

turnVars == <<asked, answered, told, called, lost>>
assistantVars == <<turnVars, chunks, models>>

KnowledgeChunk == {"none", "bare", "embedded"}
ModelCache == SUBSET Models

AssistantInit ==
  /\ asked = [c \in Conversations |-> 0]
  /\ answered = [c \in Conversations |-> 0]
  /\ told = [c \in Conversations |-> 0]
  /\ called = [c \in Conversations |-> 0]
  /\ lost = [c \in Conversations |-> 0]
  /\ chunks = [k \in Chunks |-> "none"]
  /\ models = {}

Streaming == {"hop", "tools", "rest", "store"}

\* Without a key, a prompt or an active profile the turn is refused, as any request may be.
OpenTurn(w) ==
  /\ At(w, "view") /\ req[w].super
  /\ \E c \in Conversations :
       /\ asked' = [asked EXCEPT ![c] = @ + 1]
       /\ Proceed(w, [at |-> "hop", conv |-> c, acting |-> req[w].acting, hops |-> 0, pending |-> 0, calls |-> 0, rest |-> <<>>, seen |-> {}, named |-> {}])
  /\ thread' = Forgotten(w)
  /\ UNCHANGED <<answered, told, called, lost, chunks, models>>

\* The model gives its answer, or fails, or the profile names no model: the stream ends either way.
EndStream(w) ==
  /\ At(w, "hop")
  /\ Proceed(w, [req[w] EXCEPT !.at = "store"])
  /\ UNCHANGED <<thread, assistantVars>>

AskForTools(w) ==
  /\ At(w, "hop")
  /\ \E n \in 1..MaxCalls : Proceed(w, [req[w] EXCEPT !.at = "tools", !.pending = n])
  /\ UNCHANGED <<thread, assistantVars>>

----------------------------------------------------------------------------
(* A call: registry.invoke, and the tool. *)

\* Mutant: a writing tool finds the rows of any store.
FoundAnywhere(tool, acting, sent) == TRUE

\* The rows a writing tool is sent the ids of are looked up in the acting store.
Found(tool, acting, sent) == tool.finds = {} \/ sent = acting

\* _resolve_store: the store that is named, else the acting one.
Resolved(acting, sent) == IF sent # NoStore THEN sent ELSE acting

Refused(tool, acting, sent) ==
  \/ tool.scope = "read" /\ Resolved(acting, sent) = NoStore
  \/ tool.scope = "write" /\ (acting = NoStore \/ ~Found(tool, acting, sent))
  \/ tool.scope = "named" /\ sent = NoStore

\* A store, or without one all of them.
OrAll(store) == IF store = NoStore THEN Stores ELSE {store}

\* The stores whose rows the tool reads or writes.
Reached(tool, acting, sent) ==
  IF Refused(tool, acting, sent) THEN {}
  ELSE CASE tool.scope = "read" -> {Resolved(acting, sent)}
         [] tool.scope = "write" -> {acting} \cup (IF tool.finds = {} THEN {} ELSE {sent})
         [] tool.scope = "named" -> {sent}
         [] tool.scope = "every" -> OrAll(sent)
         [] tool.scope = "log" -> OrAll(Resolved(acting, sent))
         [] OTHER -> {}

\* What the call asks for beyond the acting store: a reading tool is told which, and the tools of
\* the platform are made for it.
Asked(tool, acting, sent) ==
  CASE tool.scope = "read" -> {sent} \ {NoStore}
    [] tool.scope = "write" -> {}
    [] OTHER -> Reached(tool, acting, sent)

\* After a call: the next one of this hop, the next hop, or, after the last hop, the notice.
AfterCall(turn) ==
  IF turn.pending > 1 THEN [turn EXCEPT !.at = "tools", !.pending = @ - 1]
  ELSE [turn EXCEPT !.at = IF turn.hops + 1 = MaxHops THEN "store" ELSE "hop",
                    !.pending = 0, !.hops = @ + 1]

CallTool(w) ==
  /\ At(w, "tools")
  /\ \E tool \in Registry, sent \in AnyStore :
       LET turn == [req[w] EXCEPT
                      !.calls = @ + 1,
                      !.seen = @ \cup Reached(tool, req[w].acting, sent),
                      !.named = @ \cup Asked(tool, req[w].acting, sent)]
           some == ~Refused(tool, req[w].acting, sent) /\ ~tool.whole /\ Len(tool.writes) > 1 IN
       Proceed(w, IF some THEN [turn EXCEPT !.at = "rest", !.rest = Tail(tool.writes)] ELSE AfterCall(turn))
  /\ called' = [called EXCEPT ![req[w].conv] = @ + 1]
  /\ UNCHANGED <<thread, asked, answered, told, lost, chunks, models>>

\* The later writes of a tool that is no transaction; an exception leaves them out, and the model
\* is told that the tool failed.
FinishCall(w) ==
  /\ At(w, "rest")
  /\ Proceed(w, AfterCall([req[w] EXCEPT !.rest = <<>>]))
  /\ UNCHANGED <<thread, assistantVars>>

\* Mutant: the calls of a turn that ran out of hops are not stored with its answer.
StoreFinished(w) ==
  /\ At(w, "store")
  /\ answered' = [answered EXCEPT ![req[w].conv] = @ + 1]
  /\ told' = [told EXCEPT ![req[w].conv] = @ + req[w].calls * (IF req[w].hops = MaxHops THEN 0 ELSE 1)]
  /\ Answer(w)
  /\ UNCHANGED <<thread, asked, called, lost, chunks, models>>

StoreTurn(w) ==
  /\ At(w, "store")
  /\ answered' = [answered EXCEPT ![req[w].conv] = @ + 1]
  /\ told' = [told EXCEPT ![req[w].conv] = @ + req[w].calls]
  /\ Answer(w)
  /\ UNCHANGED <<thread, asked, called, lost, chunks, models>>

\* The browser closes the stream, or the worker dies: the generator ends where it stands.
CutOff(w) ==
  /\ req[w].at \in Streaming
  /\ lost' = [lost EXCEPT ![req[w].conv] = @ + req[w].calls]
  /\ Answer(w)
  /\ UNCHANGED <<thread, asked, answered, told, called, chunks, models>>

----------------------------------------------------------------------------
(* The knowledge base and the catalogue of models. *)

\* A chunk is inserted, then embedded and saved again; one that could not be embedded stays, and
\* no search finds it.
AddChunk(w, k) ==
  /\ (At(w, "view") /\ req[w].super) \/ At(w, "upload")
  /\ chunks[k] = "none"
  /\ chunks' = [chunks EXCEPT ![k] = "bare"]
  /\ Proceed(w, [at |-> "embed", chunk |-> k])
  /\ UNCHANGED <<thread, turnVars, models>>

Embed(w) ==
  /\ At(w, "embed")
  /\ chunks' \in {chunks, [chunks EXCEPT ![req[w].chunk] = "embedded"]}
  /\ Proceed(w, [at |-> "upload"])
  /\ UNCHANGED <<thread, turnVars, models>>

EndUpload(w) == At(w, "upload") /\ Answer(w) /\ thread' = Forgotten(w) /\ UNCHANGED assistantVars

\* refresh_models: the listed ones are upserted, then the others deleted.
ListModels(w) ==
  /\ At(w, "view") /\ req[w].super
  /\ \E listed \in SUBSET Models :
       /\ models' = models \cup listed
       /\ Proceed(w, [at |-> "drop", listed |-> listed])
  /\ UNCHANGED <<thread, turnVars, chunks>>

DropModels(w) ==
  /\ At(w, "drop")
  /\ models' = models \cap req[w].listed
  /\ Answer(w)
  /\ thread' = Forgotten(w)
  /\ UNCHANGED <<turnVars, chunks>>

AssistantSteps(w) ==
  \/ OpenTurn(w) \/ EndStream(w) \/ AskForTools(w) \/ CallTool(w) \/ FinishCall(w) \/ StoreTurn(w)
  \/ CutOff(w) \/ Embed(w) \/ EndUpload(w) \/ ListModels(w) \/ DropModels(w)
  \/ \E k \in Chunks : AddChunk(w, k)

DieServing(w) == req[w].at \notin Streaming /\ Crash(w) /\ thread' = Forgotten(w) /\ UNCHANGED assistantVars

AssistantNext ==
  \E w \in Workers :
    \/ TenancySteps(w) /\ UNCHANGED assistantVars
    \/ AssistantSteps(w) \/ DieServing(w)

AssistantSpec ==
  SlotsInit /\ TenancyInit /\ AssistantInit /\ [][AssistantNext]_<<slots, tenancyVars, assistantVars>>

AssistantTypeOK ==
  /\ TenancyTypeOK
  /\ asked \in [Conversations -> Nat] /\ answered \in [Conversations -> Nat]
  /\ told \in [Conversations -> Nat] /\ called \in [Conversations -> Nat] /\ lost \in [Conversations -> Nat]
  /\ chunks \in [Chunks -> KnowledgeChunk] /\ models \in ModelCache

\* What a conversation's transcript tells of its tool calls is what was done: only those of the
\* turn in progress, and of turns that were cut off, are missing from it.
TurnsRecorded ==
  \A c \in Conversations :
    called[c] = told[c] + lost[c] +
      SumFunction([w \in Workers |-> IF req[w].at \in Streaming /\ req[w].conv = c THEN req[w].calls ELSE 0])
=============================================================================
