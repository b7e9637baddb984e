------------------------------ MODULE LLMClient ------------------------------
(***************************************************************************)
(* core/llm_client.py: the clients of a batch, one per instance, share the *)
(* index into the pool of accounts.  A client takes an entry when it is    *)
(* made and another one whenever an account refuses it.  A chat makes a    *)
(* bounded number of attempts.                                             *)
(***************************************************************************)
EXTENDS Integers, Sequences, Functions

CONSTANTS
    Clients, Keys, Urls, Models,
    ApiKeys,        \* values of --api_key; None if it is not given
    Pool,           \* configured_apis: key, URL and model of each entry, None for an
                    \*   empty URL or model
    EnvKeys,        \* DEEPSEEK_API_KEYS
    Default,        \* key, URL and model of load_llm_config
    MaxAttempts,    \* BRT3_LLM_MAX_ATTEMPTS
    None,
    MaxChats        \* bound: chats of each client

Account == [key : Keys, url : Urls \cup {None}, model : Models \cup {None}]

ASSUME PoolAssumption == Pool \in Seq(Account) /\ EnvKeys \in Seq(Keys)
ASSUME NoneAssumption == None \notin Keys \cup Urls \cup Models \cup Clients
ASSUME KeysAssumption == ApiKeys \subseteq Keys \cup {None}
ASSUME DefaultAssumption == Default \in [key : Keys \cup {None}, url : Urls, model : Models]
ASSUME BoundsAssumption == MaxAttempts \in Nat \ {0} /\ MaxChats \in Nat

VARIABLES
    api_key,        \* --api_key of the batch
    index,          \* _key_index
    client,         \* key, URL and model of each client
    pc,
    attempt,
    request,        \* what each client has sent last
    chats,          \* chats begun
    last,           \* history: who has taken an entry last
    tried,          \*   keys of the requests of the present chat
    refused,        \*   every answer of the chat was a refusal
    disturbed       \*   another client has taken an entry since the client's own

history == <<last, tried, refused, disturbed>>
vars    == <<api_key, index, client, pc, attempt, request, chats, history>>

UsesPool == api_key = None /\ Pool # << >>

\* What the shared index runs over: the pool, or the keys of the environment.
Entries ==
    IF UsesPool THEN Pool
    ELSE [k \in DOMAIN EnvKeys |-> [key |-> EnvKeys[k], url |-> None, model |-> None]]

\* max_attempts of a chat.
Attempts == CHOOSE n \in {MaxAttempts, Len(Pool), Len(EnvKeys)} :
                \A m \in {MaxAttempts, Len(Pool), Len(EnvKeys)} : m <= n

\* An entry's own URL and model replace those of the client.
With(account, entry) ==
    [key   |-> entry.key,
     url   |-> IF entry.url = None THEN account.url ELSE entry.url,
     model |-> IF entry.model = None THEN account.model ELSE entry.model]

\* Mutant: without the lock two clients may read the same index.
PickFrom_Unlocked(n) == index' \in {n, n + 1}

\* Under _key_lock the entry is read and the index moved in one step.
PickFrom(n) == index' = n + 1

\* _pick_local_api, _pick_env_key: client c takes the entry the index is at.
Pick(c) ==
    /\ PickFrom(index)
    /\ client' = [client EXCEPT ![c] = With(@, Entries[1 + (index % Len(Entries))])]
    /\ last' = c

-----------------------------------------------------------------------------
Init ==
    /\ api_key \in ApiKeys
    /\ index = 0
    /\ client = [c \in Clients |-> Default]
    /\ pc = [c \in Clients |-> "new"]
    /\ attempt = [c \in Clients |-> 0]
    /\ request = [c \in Clients |-> Default]
    /\ chats = [c \in Clients |-> 0]
    /\ last = None
    /\ tried = [c \in Clients |-> {}]
    /\ refused = [c \in Clients |-> TRUE]
    /\ disturbed = [c \in Clients |-> FALSE]

Goes(c, from, to) == pc[c] = from /\ pc' = [pc EXCEPT ![c] = to]

\* Everybody else has been disturbed by a pick of c.
Disturbs(c) == disturbed' = [d \in Clients |-> d # c \/ disturbed[c]]

\* The constructor takes an entry unless it is given a key ...
CreateWithEntry(c) ==
    /\ api_key = None
    /\ Entries # << >>
    /\ Goes(c, "new", "idle")
    /\ Pick(c)
    /\ Disturbs(c)
    /\ UNCHANGED <<api_key, attempt, request, chats, tried, refused>>

\* ... or there is none, and without any key it raises.
CreateWithKey(c) ==
    /\ api_key # None \/ Entries = << >>
    /\ LET key == IF api_key # None THEN api_key ELSE Default.key IN
          /\ client' = [client EXCEPT ![c].key = key]
          /\ Goes(c, "new", IF key = None THEN "unusable" ELSE "idle")
    /\ UNCHANGED <<api_key, index, attempt, request, chats, history>>

Chat(c) ==
    /\ chats[c] < MaxChats
    /\ pc[c] \in {"idle", "raised"}
    /\ pc' = [pc EXCEPT ![c] = "send"]
    /\ attempt' = [attempt EXCEPT ![c] = 0]
    /\ chats' = [chats EXCEPT ![c] = @ + 1]
    /\ tried' = [tried EXCEPT ![c] = {}]
    /\ refused' = [refused EXCEPT ![c] = TRUE]
    /\ disturbed' = [disturbed EXCEPT ![c] = last # c]
    /\ UNCHANGED <<api_key, index, client, request, last>>

\* Mutant: the header is made once, before the loop.
Request_OldHeader(c) ==
    IF attempt[c] = 0 THEN client[c] ELSE [client[c] EXCEPT !.key = request[c].key]

\* Model, URL and header are taken from the client at each attempt.
Request(c) == client[c]

Send(c) ==
    /\ Goes(c, "send", "sent")
    /\ request' = [request EXCEPT ![c] = Request(c)]
    /\ tried' = [tried EXCEPT ![c] = @ \cup {Request(c).key}]
    /\ UNCHANGED <<api_key, index, client, attempt, chats, last, refused, disturbed>>

Answered(c) ==
    /\ Goes(c, "sent", "idle")
    /\ UNCHANGED <<api_key, index, client, attempt, request, chats, history>>

\* Mutant: the comparison is off by one.
Fails_OneMore(c) == Goes(c, "sent", IF attempt[c] <= Attempts - 1 THEN "wait" ELSE "raised")

\* The client waits before another attempt; after the last one it raises at once.
Fails(c) == Goes(c, "sent", IF attempt[c] < Attempts - 1 THEN "wait" ELSE "raised")

\* HTTP 401, 403 or 429: another entry, if there are any.
Refused(c) ==
    /\ Fails(c)
    /\ IF Entries # << >> THEN Pick(c) /\ Disturbs(c)
       ELSE UNCHANGED <<index, client, last, disturbed>>
    /\ UNCHANGED <<api_key, attempt, request, chats, tried, refused>>

\* Another HTTP error, a timeout, an answer that cannot be read.
Faulty(c) ==
    /\ Fails(c)
    /\ refused' = [refused EXCEPT ![c] = FALSE]
    /\ UNCHANGED <<api_key, index, client, attempt, request, chats, last, tried, disturbed>>

\* The wait is over.
Retry(c) ==
    /\ Goes(c, "wait", "send")
    /\ attempt' = [attempt EXCEPT ![c] = @ + 1]
    /\ UNCHANGED <<api_key, index, client, request, chats, history>>

Step(c) ==
    \/ CreateWithEntry(c) \/ CreateWithKey(c) \/ Chat(c)
    \/ Send(c) \/ Answered(c) \/ Refused(c) \/ Faulty(c) \/ Retry(c)

Next == \E c \in Clients : Step(c)

Spec == Init /\ [][Next]_vars

-----------------------------------------------------------------------------
(* Properties.                                                             *)

AccountSet == [key : Keys \cup {None}, url : Urls, model : Models]

\* Every variable holds a value of its kind.
TypeOK ==
    /\ api_key \in ApiKeys
    /\ index \in Nat
    /\ client \in [Clients -> AccountSet]
    /\ pc \in [Clients -> {"new", "idle", "send", "sent", "wait", "raised", "unusable"}]
    /\ attempt \in [Clients -> 0..(Attempts - 1)]
    /\ request \in [Clients -> AccountSet]
    /\ chats \in [Clients -> 0..MaxChats]
    /\ last \in Clients \cup {None}
    /\ tried \in [Clients -> SUBSET Keys]
    /\ refused \in [Clients -> BOOLEAN]
    /\ disturbed \in [Clients -> BOOLEAN]

\* Accounts are not mixed: at whatever attempt, a request has the key of one entry with
\* the URL and the model of that entry, as far as it has its own, or all three of the
\* configuration.  (After a rotation to an entry without a URL the client goes on with
\* the URL it had.)
RequestIsOfOneAccount ==
    \A c \in Clients :
        pc[c] = "sent" =>
            \/ \E k \in DOMAIN Entries : With(request[c], Entries[k]) = request[c]
            \/ request[c] = [Default EXCEPT !.key = IF api_key # None THEN api_key ELSE @]

\* A chat that is refused at every attempt, by a client that nobody comes between,
\* has tried every account before it raises.  (Between other clients' picks the
\* index may lead a client back to the account that refused it.)
LoneClientTriesEveryAccount ==
    \A c \in Clients :
        pc[c] = "raised" /\ refused[c] /\ ~disturbed[c] =>
            \A k \in DOMAIN Entries : Entries[k].key \in tried[c]
=============================================================================
