------------------------------- MODULE Backends -------------------------------
(***************************************************************************)
(* The models that the program calls: the chains of backends               *)
(* (backends/factory.py, backends/chain.py, haiku.py, gemma.py, null.py),  *)
(* the local embedder that loads its model on first use                    *)
(* (backends/local_embedding.py), the reranker over them                   *)
(* (retrieval/reranker.py), and the recursive client with its token        *)
(* (recursive/client.py, behind recursive/sidecar.py).                     *)
(*                                                                         *)
(* Callers are threads of one process, an action for each call of a model  *)
(* and each access to what they share: the embedder of the vector index    *)
(* and the sidecar's client.                                               *)
(***************************************************************************)
EXTENDS Integers, Sequences, FiniteSets, SequencesExt

CONSTANTS
    Users,       \* threads that request
    Hosting,     \* DEPTHFUSION_MODE
    MaxAsks,     \* bound: requests
    MaxTokens,   \* bound: tokens of the service
    MaxTroubles, \* bound: failures of the service that are not about the token
    RankBound    \* bound: blocks, ranks asked for and ranks answered

ASSUME BackendsBounds ==
    {MaxAsks, MaxTokens, MaxTroubles, RankBound} \subseteq Nat /\ MaxTokens > 0

VARIABLES
    request,     \* where each thread is
    asks,        \* requests so far
    loaded,      \* _model
    unloadable,  \* _load_failed
    loading,     \* _load_lock: who holds it
    loads,       \* history: models that were loaded
    token,       \* config.skillforge_api_token
    environ,     \* DEPTHFUSION_SKILLFORGE_API_TOKEN
    valid,       \* the token that the service takes
    troubles     \* failures so far

embedderVars == <<loaded, unloadable, loading, loads>>
clientVars == <<token, environ, valid, troubles>>
backendsVars == <<request, asks, embedderVars, clientVars>>

NoAsk == [pc |-> "idle"]
Nobody == "nobody"
ASSUME NobodyAssumption == Nobody \notin Users

BackendsInit ==
    /\ request = [u \in Users |-> NoAsk] /\ asks = 0
    /\ loaded = FALSE /\ unloadable = FALSE /\ loading = Nobody /\ loads = 0
    /\ token = 1 /\ environ = 1 /\ valid = 1 /\ troubles = 0

Starts(u, what) ==
    /\ request[u] = NoAsk /\ asks < MaxAsks
    /\ asks' = asks + 1
    /\ request' = [request EXCEPT ![u] = what]

Ends(u, how) == request' = [request EXCEPT ![u] = [pc |-> "ended", how |-> how, was |-> @]]
Goes(u, pc) == request' = [request EXCEPT ![u].pc = pc]
Forget(u) ==
    /\ request[u].pc = "ended"
    /\ request' = [request EXCEPT ![u] = NoAsk]
    /\ UNCHANGED <<asks, embedderVars, clientVars>>

-----------------------------------------------------------------------------
(* The chain.                                                              *)

\* _QUALITY_CHAINS without the last resort; gemma comes before haiku.
QualityChain(mode) ==
    CASE mode \in {"vps-gpu", "mac-mlx"} -> {"gemma", "haiku"}
      [] mode \in {"vps-cpu", "vps"} -> {"haiku"}
      [] OTHER -> {}
BestFirst(reals) ==
    CASE reals = {} -> <<"null">>
      [] reals = {"gemma", "haiku"} -> <<"gemma", "haiku">>
      [] OTHER -> <<CHOOSE b \in reals : TRUE>>

\* get_backend: the ones that can be used; of one alone no chain is made, and two or more
\* end in the one that does nothing.  Mutant: the chain lacks it.
ResolvedBare(mode, able) == BestFirst(QualityChain(mode) \intersect able)
Resolved(mode, able) ==
    LET reals == BestFirst(QualityChain(mode) \intersect able)
    IN  IF Len(reals) > 1 THEN Append(reals, "null") ELSE reals

\* What a backend may do: the typed errors are a limit, an overload and a timeout; Haiku
\* lets any other error of complete() pass, and everything else gets a default.
HaikuOutcomes(op) == {"answer", "typed", IF op = "complete" THEN "other" ELSE "default"}
GemmaOutcomes == {"answer", "typed", "default"}
Outcomes(b, op) ==
    CASE b = "null" -> {"default"}
      [] b = "haiku" -> HaikuOutcomes(op)
      [] b = "gemma" -> GemmaOutcomes

AskModel(u) ==
    /\ \E op \in {"complete", "rerank", "extract_structured"}, mode \in Hosting,
          able \in SUBSET {"haiku", "gemma"} :
          Starts(u, [pc |-> "try", op |-> op, chain |-> Resolved(mode, able), at |-> 1,
                     failed |-> {}])
    /\ UNCHANGED <<embedderVars, clientVars>>

\* _try_chain: typed errors, and only they, move on.
Attempt(u) ==
    LET chain == request[u].chain
        b == chain[request[u].at]
    IN
    /\ request[u].pc = "try"
    /\ \E how \in Outcomes(b, request[u].op) :
          IF how = "typed" /\ request[u].at < Len(chain)
          THEN request' = [request EXCEPT ![u].at = @ + 1, ![u].failed = @ \union {b}]
          ELSE Ends(u, how)
    /\ UNCHANGED <<asks, embedderVars, clientVars>>

-----------------------------------------------------------------------------
(* The local embedder.                                                     *)

Embed(u) ==
    /\ ~unloadable
    /\ Starts(u, [pc |-> IF loaded THEN "encode" ELSE "wait"])
    /\ UNCHANGED <<embedderVars, clientVars>>

TakeLock(u) ==
    /\ request[u].pc \in {"wait", "give_up"} /\ loading = Nobody
    /\ loading' = u
    /\ Goes(u, IF request[u].pc = "wait" THEN "load" ELSE "flag")
    /\ UNCHANGED <<asks, loaded, unloadable, loads, clientVars>>

\* _get_model looks again once it has the lock.  Mutant: it does not.
NeverThere == FALSE
AlreadyThere == loaded
Load(u) ==
    /\ request[u].pc = "load"
    /\ loading' = Nobody
    /\ \/ /\ AlreadyThere /\ Goes(u, "encode") /\ UNCHANGED <<loaded, loads>>
       \/ /\ ~AlreadyThere /\ Goes(u, "encode") /\ loaded' = TRUE /\ loads' = loads + 1
       \/ /\ ~AlreadyThere /\ Goes(u, "give_up") /\ UNCHANGED <<loaded, loads>>
    /\ UNCHANGED <<asks, unloadable, clientVars>>

GiveUp(u) ==
    /\ request[u].pc = "flag"
    /\ unloadable' = TRUE
    /\ loading' = Nobody
    /\ Ends(u, "none")
    /\ UNCHANGED <<asks, loaded, loads, clientVars>>

Encode(u) ==
    /\ request[u].pc = "encode"
    /\ \E how \in {"answer", "none"} : Ends(u, how)
    /\ UNCHANGED <<asks, embedderVars, clientVars>>

-----------------------------------------------------------------------------
(* The recursive client.                                                   *)

Recursing(u) == request[u].pc \in {"sent", "adopt", "resent"}
Busy(u) == \E v \in Users \ {u} : Recursing(v)

\* alone: no other call runs; steady: the environment has the valid token.
Recurse(u) ==
    /\ request[u] = NoAsk /\ asks < MaxAsks
    /\ asks' = asks + 1
    /\ request' = [v \in Users |->
          IF v = u THEN [pc |-> "sent", token |-> token, alone |-> ~Busy(u),
                         steady |-> environ = valid]
          ELSE IF Recursing(v) THEN [request[v] EXCEPT !.alone = FALSE] ELSE request[v]]
    /\ UNCHANGED <<embedderVars, clientVars>>

Served(u) ==
    /\ request[u].pc \in {"sent", "resent"} /\ request[u].token = valid
    /\ Ends(u, "answer")
    /\ UNCHANGED <<asks, embedderVars, clientVars>>

\* A 401.
Unauthorized(u) ==
    /\ request[u].pc \in {"sent", "resent"} /\ request[u].token # valid
    /\ IF request[u].pc = "sent" /\ environ # token
       THEN request' = [request EXCEPT ![u].pc = "adopt", ![u].token = environ]
       ELSE Ends(u, "expired")
    /\ UNCHANGED <<asks, embedderVars, clientVars>>

\* The token that is sent again.  Mutant: the one that was refused.
FreshOld(u) == token
Fresh(u) == request[u].token
Adopt(u) ==
    /\ request[u].pc = "adopt"
    /\ token' = request[u].token
    /\ request' = [request EXCEPT ![u].pc = "resent", ![u].token = Fresh(u)]
    /\ UNCHANGED <<asks, embedderVars, environ, valid, troubles>>

\* An HTTP error of the second request is reported as an expired token, every other one
\* as what it is.
Trouble(u) ==
    /\ request[u].pc \in {"sent", "resent"} /\ troubles < MaxTroubles
    /\ troubles' = troubles + 1
    /\ \E how \in {"failed"} \union (IF request[u].pc = "resent" THEN {"expired"} ELSE {}) :
          Ends(u, how)
    /\ UNCHANGED <<asks, embedderVars, token, environ, valid>>

Unsteady ==
    [u \in Users |-> IF Recursing(u) THEN [request[u] EXCEPT !.steady = FALSE] ELSE request[u]]
Rotate ==
    /\ valid < MaxTokens
    /\ valid' = valid + 1
    /\ request' = Unsteady
    /\ UNCHANGED <<asks, embedderVars, token, environ, troubles>>
Deploy ==
    /\ environ # valid
    /\ environ' = valid
    /\ UNCHANGED <<request, asks, embedderVars, token, valid, troubles>>

BackendsNext ==
    \/ \E u \in Users :
          \/ AskModel(u) \/ Attempt(u)
          \/ Embed(u) \/ TakeLock(u) \/ Load(u) \/ GiveUp(u) \/ Encode(u)
          \/ Recurse(u) \/ Served(u) \/ Unauthorized(u) \/ Adopt(u) \/ Trouble(u)
          \/ Forget(u)
    \/ Rotate \/ Deploy

BackendsSpec == BackendsInit /\ [][BackendsNext]_backendsVars
-----------------------------------------------------------------------------
(* Reranking.                                                              *)

\* rerank of Haiku and Gemma on the indices that the model answered: out of range and
\* repeated ones are dropped.  Mutant: repeated ones stay.
TakenAll(indices, n, k) ==
    LET good == SelectSeq(indices, LAMBDA i : i \in 0..n - 1)
    IN  SubSeq(good, 1, IF k < Len(good) THEN k ELSE Len(good))
Taken(indices, n, k) ==
    LET good == {p \in DOMAIN indices : /\ indices[p] \in 0..n - 1
                                        /\ \A q \in 1..p - 1 : indices[q] # indices[p]}
        chosen == {p \in good : Cardinality({q \in good : q <= p}) <= k}
    IN  [j \in 1..Cardinality(chosen) |->
           indices[CHOOSE p \in chosen : Cardinality({q \in chosen : q <= p}) = j]]

\* HaikuReranker.rerank: what the model left out follows in its old order.
Reranked(indices, n, k) ==
    LET first == Taken(indices, n, k)
        rest == SelectSeq([i \in 1..n |-> i - 1],
                          LAMBDA i : \A p \in DOMAIN first : first[p] # i)
        all == first \o rest
    IN  SubSeq(all, 1, IF k < Len(all) THEN k ELSE Len(all))

-----------------------------------------------------------------------------
BackendsTypeOK ==
    /\ \A u \in Users :
          request[u].pc \in {"idle", "try", "wait", "load", "encode", "give_up", "flag",
                             "sent", "adopt", "resent", "ended"}
    /\ asks \in 0..MaxAsks /\ loads \in Nat /\ troubles \in 0..MaxTroubles
    /\ loading \in Users \union {Nobody} /\ {loaded, unloadable} \subseteq BOOLEAN
    /\ {token, environ, valid} \subseteq 1..MaxTokens
    /\ loading # Nobody <=> \E u \in Users : request[u].pc \in {"load", "flag"}

\* A caller of a chain never sees a limit, an overload or a timeout, and what does nothing
\* answers only when every real backend failed in this very request.  (FallbackChain.)
ChainHolds ==
    \A u \in Users : request[u].pc = "ended" /\ "chain" \in DOMAIN request[u].was =>
       LET was == request[u].was IN
       Len(was.chain) > 1 =>
          /\ request[u].how # "typed"
          /\ was.at = Len(was.chain) => was.failed = {"gemma", "haiku"}

\* The model is loaded once, whoever asks first.  (LocalEmbeddingBackend._get_model.)
LoadedOnce == loads = IF loaded THEN 1 ELSE 0

\* A call is told that the token expired only if that is so: another call got in between,
\* the environment had no valid token all the time, or the service failed.
\* (_run_via_skillforge: "attempts a single token refresh".)
ExpiredIsTrue ==
    \A u \in Users : request[u].pc = "ended" /\ request[u].how = "expired" /\ troubles = 0 =>
       ~request[u].was.alone \/ ~request[u].was.steady

\* Whatever the model answers, the caller gets as many different blocks as it asked for
\* and there are, those that the model named first and in its order.  (rerank.)
RerankSound ==
    \A n, k \in 1..RankBound, l \in 0..RankBound : \A indices \in [1..l -> -1..n] :
       LET result == Reranked(indices, n, k)
           Place(i) == CHOOSE p \in DOMAIN indices :
                          indices[p] = i /\ \A q \in 1..p - 1 : indices[q] # i
           named == {i \in 0..n - 1 : \E p \in DOMAIN indices : indices[p] = i}
       IN  /\ Len(result) = IF k < n THEN k ELSE n
           /\ IsInjective(result) /\ \A p \in DOMAIN result : result[p] \in 0..n - 1
           /\ \A p \in 1..Len(result) - 1 :
                 IF result[p + 1] \in named
                 THEN result[p] \in named /\ Place(result[p]) < Place(result[p + 1])
                 ELSE result[p] \in named \/ result[p] < result[p + 1]

BackendsSound == ChainHolds /\ LoadedOnce /\ ExpiredIsTrue
=============================================================================
