------------------------------- MODULE Identity -------------------------------
(***************************************************************************)
(* Who calls: bearer tokens under the cached key set of the identity       *)
(* provider, and the credential with which a device enrolls itself.        *)
(***************************************************************************)
EXTENDS Integers, FiniteSets, FiniteSetsExt, TLC

-----------------------------------------------------------------------------
(***************************************************************************)
(* Validation of bearer tokens (identity/token_validator.py) against the   *)
(* cached key set of the identity provider (identity/jwks_cache.py).       *)
(* Requests run on one event loop: a step of a request ends where it       *)
(* awaits the lock or the provider.  Of a token only its key id counts.    *)
(***************************************************************************)

CONSTANTS
    Bearers,     \* requests that can be under way
    Kids,        \* key ids
    KeyTtl,      \* ttl_seconds
    FetchTime,   \* timeout: the longest a fetch takes
    LastMoment,  \* bound: the clock
    NoBearer     \* nobody holds the lock

ASSUME KeySetBounds ==
    KeyTtl \in Nat \ {0} /\ FetchTime \in Nat /\ LastMoment \in Nat
ASSUME NoBearerAssumption == NoBearer \notin Bearers

VARIABLES
    moment,     \* the clock, time.time and time.monotonic alike
    published,  \* the kids the provider has in its document
    keys,       \* _keys
    fetchedAt,  \* _fetched_at
    holder,     \* who holds _lock
    bearer,     \* what each request is doing
    seen,       \* history: when each kid was last in the provider's document
    verdicts    \* history: what was found wrong with an answer

keySetVars == <<moment, published, keys, fetchedAt, holder, bearer, seen, verdicts>>

\* steady: the provider had the token's key at every moment since the request came.
Resting == [pc |-> "resting"]
Waiting(kid) == [pc |-> "lock", kid |-> kid, steady |-> kid \in published]
Fetching(b) == [pc |-> "asked", kid |-> bearer[b].kid, steady |-> bearer[b].steady,
                since |-> moment]

\* Mutant: the keys serve until the next fetch.
StaleWhenEmpty == keys = {}
Stale == keys = {} \/ moment - fetchedAt >= KeyTtl

KeySetInit ==
    /\ moment = 0
    /\ published \in SUBSET Kids \ {{}}
    /\ keys = {}
    /\ fetchedAt = 0
    /\ holder = NoBearer
    /\ bearer = [b \in Bearers |-> Resting]
    /\ seen = [k \in Kids |-> 0]
    /\ verdicts = {}

\* validate after get_key returned the key: the signature and the claims of the token are
\* as they are, and when nothing else is wrong it is accepted.  An acceptance by a key
\* that the provider took back too long ago is noted.
Judge(b, kid) ==
    /\ bearer' = [bearer EXCEPT ![b] = Resting]
    /\ verdicts' = verdicts \union
          (IF kid \notin published /\ moment >= seen[kid] + KeyTtl + FetchTime
           THEN {"withdrawn"} ELSE {})

\* JwksFetchError: there is no such key.
Unknown(b) ==
    /\ bearer' = [bearer EXCEPT ![b] = Resting]
    /\ verdicts' = verdicts \union (IF bearer[b].steady THEN {"unknown"} ELSE {})

Arrive(b, kid) ==
    /\ bearer[b].pc = "resting"
    /\ IF ~Stale /\ kid \in keys
       THEN Judge(b, kid)
       ELSE bearer' = [bearer EXCEPT ![b] = Waiting(kid)] /\ UNCHANGED verdicts
    /\ UNCHANGED <<moment, published, keys, fetchedAt, holder, seen>>

\* The lock is free: the second look, and a fetch when it finds nothing either.
\* Mutant: who waited for another's fetch does not fetch again.
EnterOnce(b) ==
    /\ bearer[b].pc = "lock" /\ holder = NoBearer
    /\ IF ~Stale
       THEN /\ IF bearer[b].kid \in keys THEN Judge(b, bearer[b].kid) ELSE Unknown(b)
            /\ UNCHANGED holder
       ELSE holder' = b /\ bearer' = [bearer EXCEPT ![b] = Fetching(b)] /\ UNCHANGED verdicts
    /\ UNCHANGED <<moment, published, keys, fetchedAt, seen>>
Enter(b) ==
    /\ bearer[b].pc = "lock" /\ holder = NoBearer
    /\ IF ~Stale /\ bearer[b].kid \in keys
       THEN Judge(b, bearer[b].kid) /\ UNCHANGED holder
       ELSE holder' = b /\ bearer' = [bearer EXCEPT ![b] = Fetching(b)] /\ UNCHANGED verdicts
    /\ UNCHANGED <<moment, published, keys, fetchedAt, seen>>

\* The provider reads its document.
Served(b) ==
    /\ bearer[b].pc = "asked"
    /\ published # {}
    /\ bearer' = [bearer EXCEPT ![b] = [pc |-> "reply", kid |-> @.kid, steady |-> @.steady,
                                       since |-> @.since, reply |-> published]]
    /\ UNCHANGED <<moment, published, keys, fetchedAt, holder, seen, verdicts>>

\* Its answer arrives: _refresh replaces the keys, and get_key looks for its own.
Refreshed(b) ==
    /\ bearer[b].pc = "reply"
    /\ keys' = bearer[b].reply
    /\ fetchedAt' = moment
    /\ holder' = NoBearer
    /\ IF bearer[b].kid \in keys' THEN Judge(b, bearer[b].kid) ELSE Unknown(b)
    /\ UNCHANGED <<moment, published, seen>>

\* The fetch fails, times out or has no keys: JwksFetchError, and the keys stay.
FetchFails(b) ==
    /\ bearer[b].pc \in {"asked", "reply"}
    /\ holder' = NoBearer
    /\ bearer' = [bearer EXCEPT ![b] = Resting]
    /\ UNCHANGED <<moment, published, keys, fetchedAt, seen, verdicts>>

\* The provider publishes a key or takes one back.
ProviderPublishes(k) ==
    /\ k \notin published
    /\ published' = published \union {k}
    /\ UNCHANGED <<moment, keys, fetchedAt, holder, bearer, seen, verdicts>>

ProviderWithdraws(k) ==
    /\ k \in published
    /\ published' = published \ {k}
    /\ seen' = [seen EXCEPT ![k] = moment]
    /\ bearer' = [b \in Bearers |->
          IF bearer[b].pc # "resting" /\ bearer[b].kid = k
          THEN [bearer[b] EXCEPT !.steady = FALSE] ELSE bearer[b]]
    /\ UNCHANGED <<moment, keys, fetchedAt, holder, verdicts>>

Elapse ==
    /\ moment < LastMoment
    /\ \A b \in Bearers : bearer[b].pc \in {"asked", "reply"} =>
          moment < bearer[b].since + FetchTime
    /\ moment' = moment + 1
    /\ UNCHANGED <<published, keys, fetchedAt, holder, bearer, seen, verdicts>>

KeySetNext ==
    \/ \E b \in Bearers :
          \/ \E k \in Kids : Arrive(b, k)
          \/ Enter(b) \/ Served(b) \/ Refreshed(b) \/ FetchFails(b)
    \/ \E k \in Kids : ProviderPublishes(k) \/ ProviderWithdraws(k)
    \/ Elapse

KeySetSpec == KeySetInit /\ [][KeySetNext]_keySetVars
-----------------------------------------------------------------------------
KeySetTypeOK ==
    /\ moment \in 0..LastMoment
    /\ published \subseteq Kids
    /\ keys \subseteq Kids
    /\ fetchedAt \in 0..moment
    /\ holder \in Bearers \union {NoBearer}
    /\ bearer \in [Bearers -> {Resting}
          \union [pc: {"lock"}, kid: Kids, steady: BOOLEAN]
          \union [pc: {"asked"}, kid: Kids, steady: BOOLEAN, since: 0..moment]
          \union [pc: {"reply"}, kid: Kids, steady: BOOLEAN, since: 0..moment,
                  reply: SUBSET Kids]]
    /\ seen \in [Kids -> 0..moment]
    /\ verdicts \subseteq {"withdrawn", "unknown"}

\* A token is not refused as unknown while the provider publishes its key, though the
\* key set was fetched, by whoever, just before the key appeared ("covering key-rotation
\* where a new key id appears before the TTL elapses"); and no token is accepted with a
\* key that the provider took back longer ago than a fetched set lives and its fetch took.
\* (JwksCache.get_key, JwksCache._refresh.)
KeysFollowProvider == verdicts = {}

-----------------------------------------------------------------------------
(***************************************************************************)
(* Enrolment of a device: DeviceKeychain.ensure_enrolled and enroll        *)
(* (identity/device_keychain.py) with the device-code login of OidcClient  *)
(* (identity/oidc_client.py).  Programs of one machine share its keychain; *)
(* an action ends where the code awaits an answer or a sleep.  The         *)
(* identity provider and the enrolment endpoint are external: they answer  *)
(* what they like, within the time limit of a request.                     *)
(***************************************************************************)

CONSTANTS
    Programs,      \* programs of the machine
    DeviceIds,     \* ids that the endpoint may assign
    NoDevice,      \* no credential
    Intervals,     \* the poll intervals a provider advertises
    MaxWait,       \* max_wait
    Slower,        \* what slow_down adds to the interval
    RequestTime,   \* timeout of a request
    MaxSlowDowns,  \* bound: slow_down answers
    LastSecond     \* bound: the clock

ASSUME LoginBounds ==
    /\ Intervals \subseteq Nat /\ Intervals # {} /\ MaxWait \in Nat /\ Slower \in Nat
    /\ {RequestTime, MaxSlowDowns, LastSecond} \subseteq Nat
ASSUME NoDeviceAssumption == NoDevice \notin DeviceIds

VARIABLES
    second,    \* the clock
    login,     \* what each program is doing
    keychain,  \* the device whose credential the keychain holds
    readable,  \* the keychain answers
    devices,   \* the devices table: active or revoked
    paces,     \* the provider: the last poll of each login, and how long it asked to wait
    hasty      \* history: a poll came sooner than the provider had asked

loginVars == <<second, login, keychain, readable, devices, paces, hasty>>

Off == [pc |-> "off"]
Never == -1

LoginInit ==
    /\ second = 0
    /\ login = [p \in Programs |-> Off]
    /\ keychain = NoDevice
    /\ readable = TRUE
    /\ devices = [d \in DeviceIds |-> "unknown"]
    /\ paces = [p \in Programs |-> [last |-> Never, asked |-> 0]]
    /\ hasty = FALSE

-----------------------------------------------------------------------------
(* Time.  Whoever is due acts before it passes.                            *)

Urgent(p) ==
    \/ login[p].pc \in {"poll", "enroll", "save"}
    \/ login[p].pc \in {"asked", "polled", "enrolling"} /\ second >= login[p].at + RequestTime
    \/ login[p].pc = "asleep" /\ second >= login[p].wake

SecondPasses ==
    /\ second < LastSecond
    /\ \A p \in Programs : ~Urgent(p)
    /\ second' = second + 1
    /\ UNCHANGED <<login, keychain, readable, devices, paces, hasty>>

-----------------------------------------------------------------------------
(* ensure_enrolled                                                         *)

Became(p, rec) == login' = [login EXCEPT ![p] = rec]

\* A keychain that does not answer is taken for one without a credential.
Stored == IF readable THEN keychain ELSE NoDevice

EnsureEnrolled(p) ==
    /\ login[p].pc = "off"
    /\ Stored = NoDevice
    /\ Became(p, [pc |-> "asked", at |-> second])
    /\ UNCHANGED <<second, keychain, readable, devices, paces, hasty>>

\* start_device_code, and the start of poll_device_code.
StartDeviceCode(p, interval) ==
    /\ login[p].pc = "asked"
    /\ Became(p, [pc |-> "poll", interval |-> Max({interval, 1}), deadline |-> second + MaxWait,
                  slowed |-> 0])
    /\ paces' = [paces EXCEPT ![p] = [last |-> Never, asked |-> interval]]
    /\ UNCHANGED <<second, keychain, readable, devices, hasty>>

\* The top of the loop: give up at the deadline, else ask for the token.
Poll(p) ==
    /\ login[p].pc = "poll"
    /\ IF second >= login[p].deadline
       THEN Became(p, Off) /\ UNCHANGED <<paces, hasty>>
       ELSE /\ login' = [login EXCEPT ![p] =
                  [pc |-> "polled", at |-> second, interval |-> login[p].interval,
                   deadline |-> login[p].deadline, slowed |-> login[p].slowed]]
            /\ hasty' = (hasty \/ (paces[p].last # Never
                                   /\ second - paces[p].last < paces[p].asked))
            /\ paces' = [paces EXCEPT ![p].last = second]
    /\ UNCHANGED <<second, keychain, readable, devices>>

Sleeping(p, interval, slowed) ==
    [pc |-> "asleep", wake |-> second + interval, interval |-> interval,
     deadline |-> login[p].deadline, slowed |-> slowed]

\* authorization_pending
Pending(p) ==
    /\ login[p].pc = "polled"
    /\ Became(p, Sleeping(p, login[p].interval, login[p].slowed))
    /\ UNCHANGED <<second, keychain, readable, devices, paces, hasty>>

\* slow_down, for this login and from here on.
\* Mutant: the wait after it is longer, but not the ones that follow.
SlowerOnce(p) == [Sleeping(p, login[p].interval + Slower, login[p].slowed + 1)
                    EXCEPT !.interval = login[p].interval]
SlowerNow(p) == Sleeping(p, login[p].interval + Slower, login[p].slowed + 1)

SlowDown(p) ==
    /\ login[p].pc = "polled" /\ login[p].slowed < MaxSlowDowns
    /\ Became(p, SlowerNow(p))
    /\ paces' = [paces EXCEPT ![p].asked = @ + Slower]
    /\ UNCHANGED <<second, keychain, readable, devices, hasty>>

Wake(p) ==
    /\ login[p].pc = "asleep" /\ second >= login[p].wake
    /\ Became(p, [pc |-> "poll", interval |-> login[p].interval,
                  deadline |-> login[p].deadline, slowed |-> login[p].slowed])
    /\ UNCHANGED <<second, keychain, readable, devices, paces, hasty>>

\* A token that is valid: the principal is known, and the device is enrolled.
Authorized(p) ==
    /\ login[p].pc = "polled"
    /\ Became(p, [pc |-> "enrolling", at |-> second])
    /\ UNCHANGED <<second, keychain, readable, devices, paces, hasty>>

\* Any other answer, no answer in time, or a token that is not valid: an OidcFlowError.
LoginFails(p) ==
    /\ login[p].pc \in {"asked", "polled"}
    /\ Became(p, Off)
    /\ UNCHANGED <<second, keychain, readable, devices, paces, hasty>>

-----------------------------------------------------------------------------
(* enroll, with DeviceRegistry at the other end.                           *)

Register(d) ==
    /\ devices[d] = "unknown"
    /\ devices' = [devices EXCEPT ![d] = "active"]

Enroll(p, d) ==
    /\ login[p].pc = "enrolling"
    /\ Register(d)
    /\ \/ Became(p, [pc |-> "save", device |-> d])
       \/ Became(p, Off)                \* the answer is lost, or is not understood
    /\ UNCHANGED <<second, keychain, readable, paces, hasty>>

EnrollFails(p) ==
    /\ login[p].pc = "enrolling"
    /\ Became(p, Off)
    /\ UNCHANGED <<second, keychain, readable, devices, paces, hasty>>

\* A keychain that cannot be written raises: the device is registered, and nobody has its
\* credential.
Save(p) ==
    /\ login[p].pc = "save"
    /\ keychain' = IF readable THEN login[p].device ELSE keychain
    /\ Became(p, Off)
    /\ UNCHANGED <<second, readable, devices, paces, hasty>>

-----------------------------------------------------------------------------
(* The keychain and the administrator.                                     *)

Delete ==
    /\ \A p \in Programs : login[p].pc = "off"
    /\ keychain' = NoDevice
    /\ UNCHANGED <<second, login, readable, devices, paces, hasty>>

KeychainChanges ==
    /\ readable' = ~readable
    /\ UNCHANGED <<second, login, keychain, devices, paces, hasty>>

Revoke(d) ==
    /\ devices[d] = "active"
    /\ devices' = [devices EXCEPT ![d] = "revoked"]
    /\ UNCHANGED <<second, login, keychain, readable, paces, hasty>>

LoginNext ==
    \/ SecondPasses
    \/ \E p \in Programs :
          \/ EnsureEnrolled(p) \/ (\E i \in Intervals : StartDeviceCode(p, i)) \/ Poll(p)
          \/ Pending(p) \/ SlowDown(p) \/ Wake(p) \/ Authorized(p) \/ LoginFails(p)
          \/ (\E d \in DeviceIds : Enroll(p, d)) \/ EnrollFails(p) \/ Save(p)
    \/ Delete \/ KeychainChanges \/ (\E d \in DeviceIds : Revoke(d))

LoginSpec == LoginInit /\ [][LoginNext]_loginVars

-----------------------------------------------------------------------------
(* Properties.                                                             *)

\* Every variable has its type.
LoginTypeOK ==
    /\ second \in 0..LastSecond
    /\ \A p \in Programs :
          /\ login[p].pc \in {"off", "asked", "poll", "polled", "asleep", "enrolling", "save"}
          /\ paces[p].last \in {Never} \union 0..second /\ paces[p].asked \in Nat
    /\ keychain \in DeviceIds \union {NoDevice}
    /\ readable \in BOOLEAN /\ hasty \in BOOLEAN
    /\ devices \in [DeviceIds -> {"unknown", "active", "revoked"}]

\* A login waits between two polls as long as the provider asks, also after it asked for
\* more, and it is over soon after max_wait, whatever the provider answers: one interval
\* and one request later at most.
PolledInTime ==
    /\ ~hasty
    /\ \A p \in Programs :
          login[p].pc \in {"polled", "asleep"} =>
              second <= login[p].deadline + login[p].interval + RequestTime
=============================================================================
