----------------------------- MODULE AgentGateway ---------------------------
(***************************************************************************)
(* The chat path of the agent gateway, from the catalogue to the sink: the *)
(* router (AgentRouter, which this module extends) picks the model and the *)
(* providers by what the registry lists, OpenAICompatProvider turns what   *)
(* an upstream does into chunks or errors, the endpoint hands the usage    *)
(* of an answer to metering (Metering), and the lifespan starts and stops  *)
(* the worker around the requests.                                         *)
(***************************************************************************)
EXTENDS AgentRouter, SequencesExt

CONSTANTS
  Specs,       \* model_specs of each provider: the models it lists
  DefaultTier, \* default_tier of each provider
  TaskTier,    \* DEFAULT_TASK_TO_TIER
  Ask,         \* what each request names: a model, a tier, a task or nothing
  Unnamed,     \* stands for None in it
  QueueSize, Sentinel

VARIABLES
  wire,        \* what the upstream has sent to each streamed call
  queue, worker, item, service, detached, dropped, attempted

meterVars == <<queue, worker, item, service, detached, dropped, attempted>>
gatewayVars == <<vars, wire, meterVars>>

(* A usage record is named after its request.                              *)
Meter == INSTANCE Metering

-----------------------------------------------------------------------------
(* The catalogue, and what resolve() makes of a request.                   *)

Precedes(a, b) == a[1] < b[1] \/ (a[1] = b[1] /\ a[2] < b[2])

ByOutput(spec) == <<spec.output, spec.input>>

CheapestOf(specs) ==
  CHOOSE s \in specs : \A t \in specs : ~Precedes(ByOutput(t), ByOutput(s))

Listed(p, model) == \E s \in Specs[p] : s.model = model

ByModel(model) == {p \in Providers : Listed(p, model)}

(* A provider is found under the tiers of its models and its default tier. *)
ByTier(tier) ==
  {p \in Providers : tier \in {s.tier : s \in Specs[p]} \cup {DefaultTier[p]}}

ResolvedTier(r) ==
  CASE Ask[r].tier # Unnamed -> Ask[r].tier
    [] Ask[r].tier = Unnamed /\ Ask[r].task # Unnamed -> TaskTier[Ask[r].task]
    [] OTHER -> "balanced"

(* _default_model_for: a model of the cheapest provider of the tier.  It   *)
(* compares input prices first, and looks at no breaker.                   *)
DefaultModel(tier) ==
  LET price(p) == <<CheapestOf(Specs[p]).input, CheapestOf(Specs[p]).output>>
      first == CHOOSE p \in ByTier(tier) :
                 \A q \in ByTier(tier) : ~Precedes(price(q), price(p))
      inTier == {s \in Specs[first] : s.tier = tier}
  IN CheapestOf(IF inTier = {} THEN Specs[first] ELSE inTier).model

Names(r) == Ask[r].model # Unnamed

ResolvedModel ==
  [r \in Requests |->
     IF Names(r) THEN Ask[r].model ELSE DefaultModel(ResolvedTier(r))]

Candidates(r) ==
  IF Names(r) THEN ByModel(Ask[r].model) ELSE ByTier(ResolvedTier(r))

(* price_for, of a model that p lists.                                     *)
PriceFor(p, model) == CheapestOf({s \in Specs[p] : s.model = model})

(* _sort_key: the price of the model the request names, or of the cheapest *)
(* model of the provider, whatever its tier.                               *)
SortKey(p, r) ==
  ByOutput(IF Names(r) THEN PriceFor(p, Ask[r].model) ELSE CheapestOf(Specs[p]))

(* The router is about requests whose candidates are all its Providers, in *)
(* the order of Rank, which also breaks ties by name.                      *)
ASSUME GatewayAssumption ==
  /\ \A p \in Providers : Specs[p] # {}
  /\ \A r \in Requests : Candidates(r) = Providers
  /\ \A r \in Requests : \A p, q \in Providers :
       Precedes(SortKey(p, r), SortKey(q, r)) => Rank[p] < Rank[q]
  /\ Sentinel \notin Requests

-----------------------------------------------------------------------------
(* One call of an upstream.  An upstream serves the models it is listed    *)
(* with and answers 404 to any other.                                      *)

Served(r) ==
  calling[r] # NoProvider /\ Listed(calling[r], ResolvedModel[r])

(* finish and usage: _stream_chat's finish_reason and final_usage; last:   *)
(* final_chunk carries a usage block; sent: the endpoint is done with the  *)
(* answer; left: the client went away before it was.                       *)
Silent == [finish |-> FALSE, usage |-> FALSE, last |-> FALSE,
           sent |-> FALSE, left |-> FALSE]

(* An SSE event: a choice with text, with a finish_reason or with neither, *)
(* or no choice at all, and a usage block or none.                         *)
Events == [choice : {"text", "finish", "empty", "none"}, usage : BOOLEAN]

Absorbed(w, e) ==
  [w EXCEPT !.finish = @ \/ e.choice = "finish", !.usage = @ \/ e.usage]

(* Once a finish_reason was seen, every choice makes a chunk.              *)
Yields(w, e) ==
  e.choice = "text" \/ (e.choice # "none" /\ Absorbed(w, e).finish)

(* A chunk carries the usage seen so far.                                  *)
Heard(w, e) ==
  IF Yields(w, e)
    THEN [Absorbed(w, e) EXCEPT !.last = Absorbed(w, e).usage]
    ELSE Absorbed(w, e)

(* Mutant of Carried: no chunk follows the last event.                     *)
Carried_LastEvent(w) == w.last

(* Does final_chunk carry the usage?  A chunk of its own follows a stream  *)
(* that had a finish_reason and a usage block.                             *)
Carried(w) == w.last \/ (w.finish /\ w.usage)

GatewayInit ==
  /\ Init
  /\ Meter!Init
  /\ wire = [r \in Requests |-> Silent]

-----------------------------------------------------------------------------
(* The lifespan.                                                           *)

StartUp == Meter!Start /\ UNCHANGED <<vars, wire>>

(* The endpoint still has [DONE] to send, and to meter the stream.         *)
Closing(r) == stage[r] = "answered" /\ r \in Streamed /\ ~wire[r].sent

(* Mutant of ShutDown: the server does not wait for the streams.           *)
ShutDown_LeavesStreams ==
  /\ \A r \in Requests \ Streamed : stage[r] \notin InFlight
  /\ Meter!Stop
  /\ UNCHANGED <<vars, wire>>

(* The server ends the lifespan when no request is left.                   *)
ShutDown ==
  /\ \A r \in Requests : stage[r] \notin InFlight /\ ~Closing(r)
  /\ Meter!Stop
  /\ UNCHANGED <<vars, wire>>

ShutDownReturns == Meter!StopReturns /\ UNCHANGED <<vars, wire>>

Work == Meter!Worker /\ UNCHANGED <<vars, wire>>

-----------------------------------------------------------------------------
(* The requests.                                                           *)

Accept(r) ==
  /\ service = "serving"
  /\ Route(r)
  /\ UNCHANGED <<wire, meterVars>>

(* 408, 429 and 5xx, a timeout or a broken connection before the response: *)
(* ProviderTransientError.  The router treats a stream that ends without a *)
(* chunk alike.                                                            *)
UpstreamFails(r) ==
  /\ Failover(r)
  /\ wire' = [wire EXCEPT ![r] = Silent]
  /\ UNCHANGED meterVars

(* Another 4xx.  Once a response has begun nothing becomes a ProviderError.*)
UpstreamRefuses(r) ==
  /\ stage[r] = "calling"
  /\ wire[r] = Silent
  /\ Reject(r)
  /\ UNCHANGED <<wire, meterVars>>

(* A body that is no JSON, or a stream that breaks or whose client leaves. *)
Breaks(r) ==
  /\ r \in Streamed \/ Served(r)
  /\ Abandon(r)
  /\ wire' = [wire EXCEPT ![r] = Silent]
  /\ UNCHANGED meterVars

(* A whole answer is metered whether it has a usage block or not: without  *)
(* one it counts for no tokens.                                            *)
Answers(r) ==
  /\ Served(r)
  /\ Answer(r)
  /\ Meter!Record(r)
  /\ UNCHANGED wire

AnswersNothing(r) ==
  /\ stage[r] = "calling"
  /\ Served(r)
  /\ Truncate(r)
  /\ UNCHANGED <<wire, meterVars>>

(* The event that makes the first chunk of a stream.                       *)
Opens(r) ==
  /\ FirstChunk(r)
  /\ Served(r)
  /\ \E e \in Events :
       /\ Yields(wire[r], e)
       /\ wire' = [wire EXCEPT ![r] = Heard(@, e)]
  /\ UNCHANGED meterVars

(* An event before it.                                                     *)
Hears(r) ==
  /\ r \in Streamed
  /\ stage[r] = "calling"
  /\ Served(r)
  /\ \E e \in Events :
       /\ ~Yields(wire[r], e)
       /\ wire' = [wire EXCEPT ![r] = Heard(@, e)]
  /\ UNCHANGED <<vars, meterVars>>

(* An event after it.                                                      *)
Continues(r) ==
  /\ stage[r] = "streaming"
  /\ \E e \in Events : wire' = [wire EXCEPT ![r] = Heard(@, e)]
  /\ UNCHANGED <<vars, meterVars>>

(* The upstream ends the stream.                                           *)
Ends(r) ==
  /\ UNCHANGED billed
  /\ StreamEnds(r)
  /\ wire' = [wire EXCEPT ![r].last = Carried(wire[r])]
  /\ UNCHANGED meterVars

(* [DONE] is sent, and the usage of final_chunk handed to metering.        *)
Closes(r) ==
  /\ Closing(r)
  /\ wire' = [wire EXCEPT ![r].sent = TRUE]
  /\ IF wire[r].last
       THEN /\ billed' = [billed EXCEPT ![r] = primary[r]]
            /\ Meter!Record(r)
       ELSE UNCHANGED <<billed, meterVars>>
  /\ UNCHANGED <<now, breakerVars, stage, primary, calling, rest, tried,
                 skipped>>

(* The client leaves before [DONE] is sent.                                *)
LeavesAtDone(r) ==
  /\ Closing(r)
  /\ wire' = [wire EXCEPT ![r].sent = TRUE, ![r].left = TRUE]
  /\ UNCHANGED <<vars, meterVars>>

Chat(r) ==
  \/ Accept(r)
  \/ UpstreamFails(r)
  \/ UpstreamRefuses(r)
  \/ Breaks(r)
  \/ Answers(r)
  \/ AnswersNothing(r)
  \/ Opens(r)
  \/ Hears(r)
  \/ Continues(r)
  \/ Ends(r)
  \/ Closes(r)
  \/ LeavesAtDone(r)

Models == service = "serving" /\ ListModels /\ UNCHANGED <<wire, meterVars>>

Clock == Tick /\ UNCHANGED <<wire, meterVars>>

GatewayNext ==
  \/ StartUp \/ ShutDown \/ ShutDownReturns \/ Work
  \/ Models \/ Clock
  \/ \E r \in Requests : Chat(r)

GatewaySpec == GatewayInit /\ [][GatewayNext]_gatewayVars

(* The sink answers every write, within its timeout.                       *)
GatewayFairSpec ==
  GatewaySpec /\ WF_gatewayVars(Work) /\ WF_gatewayVars(ShutDownReturns)

-----------------------------------------------------------------------------
(* endpoints.py:224-236 and 252-266: the usage of an answered call, and of *)
(* every stream that had a usage block and a finish_reason, in whatever    *)
(* order they came, is on its way to the sink; when the gateway has        *)
(* stopped it has been there.  Only a full queue may lose it, or a client  *)
(* that leaves before the end of its stream.                               *)
UsageReachesSink ==
  \A r \in Requests :
    LET owed == r \notin Streamed
                \/ (wire[r].sent /\ ~wire[r].left
                    /\ wire[r].finish /\ wire[r].usage)
        underway == IF service = "stopped" THEN {} ELSE ToSet(queue) \cup {item}
    IN stage[r] = "answered" /\ owed
         => r \in attempted \cup dropped \cup underway

(* metering.py:339-340: every metered call is written to the sink in the   *)
(* end, also when the gateway is shut down, unless the queue was full.     *)
MeteredIsWritten ==
  \A r \in Requests :
    billed[r] # NoProvider ~> r \in attempted \cup dropped
=============================================================================
