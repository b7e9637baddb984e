--------------------------- MODULE LLMClientProofs ---------------------------
(***************************************************************************)
(* What is proved of LLMClient, for any clients, accounts, keys of the     *)
(* environment, attempts and chats.                                        *)
(***************************************************************************)
EXTENDS LLMClient, TLAPS

-----------------------------------------------------------------------------
(* Attempts and entries.                                                   *)

\* A chat makes at least one attempt, and one for each entry.
LEMMA AttemptsSuffice ==
    /\ Attempts \in Nat \ {0}
    /\ Len(Pool) <= Attempts
    /\ Len(EnvKeys) <= Attempts
<1>1. MaxAttempts \in Nat \ {0} /\ Len(Pool) \in Nat /\ Len(EnvKeys) \in Nat
  BY BoundsAssumption, PoolAssumption
<1>2. \E n \in {MaxAttempts, Len(Pool), Len(EnvKeys)} :
         \A m \in {MaxAttempts, Len(Pool), Len(EnvKeys)} : m <= n
  <2>1. CASE Len(Pool) <= MaxAttempts /\ Len(EnvKeys) <= MaxAttempts
    BY <1>1, <2>1
  <2>2. CASE MaxAttempts <= Len(Pool) /\ Len(EnvKeys) <= Len(Pool)
    BY <1>1, <2>2
  <2>3. CASE MaxAttempts <= Len(EnvKeys) /\ Len(Pool) <= Len(EnvKeys)
    BY <1>1, <2>3
  <2> QED
    BY <1>1, <2>1, <2>2, <2>3
<1>3. /\ Attempts \in {MaxAttempts, Len(Pool), Len(EnvKeys)}
      /\ \A m \in {MaxAttempts, Len(Pool), Len(EnvKeys)} : m <= Attempts
  BY <1>2 DEF Attempts
<1> QED
  BY <1>1, <1>3

\* The entries are accounts, and the index is always at one of them.
LEMMA EntriesAreAccounts ==
    /\ Entries \in Seq(Account)
    /\ Len(Entries) <= Attempts
    /\ \A n \in Nat : Entries # << >> => 1 + (n % Len(Entries)) \in DOMAIN Entries
<1>1. Entries \in Seq(Account) /\ Len(Entries) <= Attempts
  <2>1. CASE UsesPool
    BY <2>1, PoolAssumption, AttemptsSuffice DEF Entries
  <2>2. CASE ~UsesPool
    <3>1. Entries = [k \in 1..Len(EnvKeys) |-> [key |-> EnvKeys[k], url |-> None, model |-> None]]
      BY <2>2, PoolAssumption DEF Entries
    <3>2. \A k \in 1..Len(EnvKeys) : [key |-> EnvKeys[k], url |-> None, model |-> None] \in Account
      BY PoolAssumption DEF Account
    <3>3. Len(EnvKeys) \in Nat
      BY PoolAssumption
    <3>4. Entries \in Seq(Account) /\ Len(Entries) = Len(EnvKeys)
      BY <3>1, <3>2, <3>3
    <3> QED
      BY <3>4, AttemptsSuffice
  <2> QED
    BY <2>1, <2>2
<1>2. ASSUME NEW n \in Nat, Entries # << >> PROVE 1 + (n % Len(Entries)) \in DOMAIN Entries
  <2>1. Len(Entries) \in Nat \ {0} /\ DOMAIN Entries = 1..Len(Entries)
    BY <1>1, <1>2
  <2>2. n % Len(Entries) \in 0..(Len(Entries) - 1)
    BY <2>1
  <2> QED
    BY <2>1, <2>2
<1> QED
  BY <1>1, <1>2

\* An entry is used with its own URL and model, or with those of the client.
LEMMA WithType ==
    ASSUME NEW account \in AccountSet, NEW entry \in Account
    PROVE  /\ With(account, entry) \in AccountSet
           /\ With(account, entry).key \in Keys
           /\ With(With(account, entry), entry) = With(account, entry)
BY DEF With, AccountSet, Account

\* What a pick does to the client.
LEMMA PickType ==
    ASSUME index \in Nat, client \in [Clients -> AccountSet], Entries # << >>,
           NEW c \in Clients, Pick(c)
    PROVE  /\ index' \in Nat
           /\ client' \in [Clients -> AccountSet]
           /\ client'[c].key \in Keys
           /\ \E k \in DOMAIN Entries : With(client'[c], Entries[k]) = client'[c]
           /\ \A d \in Clients \ {c} : client'[d] = client[d]
<1> DEFINE k == 1 + (index % Len(Entries))
<1>1. k \in DOMAIN Entries /\ Entries[k] \in Account
  <2>1. k \in DOMAIN Entries
    BY EntriesAreAccounts
  <2> QED
    BY <2>1, EntriesAreAccounts
<1>2. client' = [client EXCEPT ![c] = With(client[c], Entries[k])]
  BY DEF Pick
<1>3. client'[c] = With(client[c], Entries[k])
  BY <1>2
<1>4. /\ client'[c] \in AccountSet /\ client'[c].key \in Keys
      /\ With(client'[c], Entries[k]) = client'[c]
  BY <1>1, <1>3, WithType
<1>5. index' \in Nat
  BY DEF Pick, PickFrom
<1> QED
  BY <1>1, <1>2, <1>4, <1>5

-----------------------------------------------------------------------------
(* Types and accounts.                                                     *)

\* The account of an entry, or of the configuration.
IsOneAccount(account) ==
    \/ \E k \in DOMAIN Entries : With(account, Entries[k]) = account
    \/ account = [Default EXCEPT !.key = IF api_key # None THEN api_key ELSE @]

Usable == {"idle", "send", "sent", "wait", "raised"}

\* A client that can be used has a key, and it is one account's; while it waits it has
\* attempts left; what was sent is what the client was.  A new client is as configured.
ClientInv ==
    \A c \in Clients :
        /\ pc[c] = "new" => client[c] = Default
        /\ pc[c] \in Usable => client[c].key \in Keys /\ IsOneAccount(client[c])
        /\ pc[c] = "wait" => attempt[c] < Attempts - 1
        /\ pc[c] = "sent" => request[c] = client[c]

IInv == TypeOK /\ ClientInv

LEMMA InitIInv == Init => IInv
<1> SUFFICES ASSUME Init PROVE IInv
  OBVIOUS
<1>1. Default \in AccountSet
  BY DefaultAssumption DEF AccountSet
<1>2. 0 \in 0..(Attempts - 1)
  BY AttemptsSuffice
<1>3. 0 \in 0..MaxChats
  BY BoundsAssumption
<1>4. TypeOK
  BY <1>1, <1>2, <1>3 DEF Init, TypeOK
<1> QED
  BY <1>4 DEF Init, IInv, ClientInv, Usable

\* Each step of a client preserves it, and touches no other client.
LEMMA StepIInv == IInv /\ [Next]_vars => IInv'
<1> SUFFICES ASSUME IInv, [Next]_vars PROVE IInv'
  OBVIOUS
<1>0. TypeOK /\ ClientInv /\ Attempts \in Nat \ {0}
  BY AttemptsSuffice DEF IInv
<1> USE DEF Usable, Goes
<1>1. ASSUME NEW c \in Clients, CreateWithEntry(c) PROVE IInv'
  <2>1. /\ index' \in Nat /\ client' \in [Clients -> AccountSet] /\ client'[c].key \in Keys
        /\ \E k \in DOMAIN Entries : With(client'[c], Entries[k]) = client'[c]
        /\ \A d \in Clients \ {c} : client'[d] = client[d]
    BY <1>0, <1>1, PickType DEF CreateWithEntry, TypeOK
  <2>2. Entries' = Entries
    BY <1>1 DEF CreateWithEntry, Entries, UsesPool
  <2>3. TypeOK'
    BY <1>0, <1>1, <2>1 DEF TypeOK, CreateWithEntry, Pick, Disturbs
  <2>4. IsOneAccount(client[c])'
    BY <2>1, <2>2 DEF IsOneAccount
  <2>5. \A d \in Clients \ {c} : IsOneAccount(client[d]) => IsOneAccount(client[d])'
    BY <1>1, <2>1, <2>2 DEF IsOneAccount, CreateWithEntry
  <2>6. ClientInv'
    BY <1>0, <1>1, <2>1, <2>4, <2>5 DEF ClientInv, TypeOK, CreateWithEntry
  <2> QED
    BY <2>3, <2>6 DEF IInv
<1>2. ASSUME NEW c \in Clients, CreateWithKey(c) PROVE IInv'
  <2> DEFINE key == IF api_key # None THEN api_key ELSE Default.key
  <2>1. /\ client' = [client EXCEPT ![c].key = key]
        /\ pc' = [pc EXCEPT ![c] = IF key = None THEN "unusable" ELSE "idle"]
        /\ pc[c] = "new"
        /\ UNCHANGED <<api_key, index, attempt, request, chats, history>>
    BY <1>2 DEF CreateWithKey
  <2>2. key \in Keys \cup {None}
    BY <1>0, KeysAssumption, DefaultAssumption DEF TypeOK
  <2>3. client'[c] = [Default EXCEPT !.key = key] /\ client[c] = Default
    BY <1>0, <2>1 DEF TypeOK, ClientInv
  <2>4. client'[c] \in AccountSet /\ client'[c].key = key
    BY <2>2, <2>3, DefaultAssumption DEF AccountSet
  <2>5. client' \in [Clients -> AccountSet] /\ \A d \in Clients \ {c} : client'[d] = client[d]
    BY <1>0, <2>1, <2>4 DEF TypeOK
  <2>6. TypeOK'
    BY <1>0, <2>1, <2>5 DEF TypeOK, history
  <2>7. IsOneAccount(client[c])'
    BY <2>1, <2>3 DEF IsOneAccount
  <2>8. Entries' = Entries
    BY <2>1 DEF Entries, UsesPool
  <2>9. ClientInv'
    BY <1>0, <2>1, <2>2, <2>4, <2>5, <2>7, <2>8 DEF ClientInv, TypeOK, IsOneAccount
  <2> QED
    BY <2>6, <2>9 DEF IInv
<1>3. ASSUME NEW c \in Clients, Chat(c) PROVE IInv'
  <2>1. Entries' = Entries
    BY <1>3 DEF Chat, Entries, UsesPool
  <2>2. 0 \in 0..(Attempts - 1) /\ chats[c] + 1 \in 0..MaxChats
    BY <1>0, <1>3, BoundsAssumption DEF Chat, TypeOK
  <2>3. TypeOK'
    BY <1>0, <1>3, <2>2 DEF TypeOK, Chat
  <2>4. ClientInv'
    BY <1>0, <1>3, <2>1 DEF ClientInv, TypeOK, Chat, IsOneAccount
  <2> QED
    BY <2>3, <2>4 DEF IInv
<1>4. ASSUME NEW c \in Clients, Send(c) PROVE IInv'
  <2>1. Entries' = Entries
    BY <1>4 DEF Send, Entries, UsesPool
  <2>2. client[c] \in AccountSet /\ client[c].key \in Keys
    BY <1>0, <1>4 DEF TypeOK, ClientInv, Send
  <2>3. TypeOK'
    BY <1>0, <1>4, <2>2 DEF TypeOK, Send, Request
  <2>4. ClientInv'
    BY <1>0, <1>4, <2>1 DEF ClientInv, TypeOK, Send, Request, IsOneAccount
  <2> QED
    BY <2>3, <2>4 DEF IInv
<1>5. ASSUME NEW c \in Clients, Answered(c) PROVE IInv'
  <2>1. Entries' = Entries
    BY <1>5 DEF Answered, Entries, UsesPool
  <2>2. TypeOK'
    BY <1>0, <1>5 DEF TypeOK, Answered, history
  <2>3. ClientInv'
    BY <1>0, <1>5, <2>1 DEF ClientInv, TypeOK, Answered, IsOneAccount
  <2> QED
    BY <2>2, <2>3 DEF IInv
<1>6. ASSUME NEW c \in Clients, Refused(c) PROVE IInv'
  <2>1. Entries' = Entries
    BY <1>6 DEF Refused, Entries, UsesPool
  <2>2. /\ index' \in Nat /\ client' \in [Clients -> AccountSet] /\ client'[c].key \in Keys
        /\ IsOneAccount(client[c])'
        /\ \A d \in Clients \ {c} : client'[d] = client[d]
    <3>1. CASE Entries # << >>
      BY <1>0, <1>6, <2>1, <3>1, PickType DEF Refused, TypeOK, IsOneAccount
    <3>2. CASE Entries = << >>
      BY <1>0, <1>6, <2>1, <3>2 DEF Refused, Fails, TypeOK, ClientInv, IsOneAccount
    <3> QED
      BY <3>1, <3>2
  <2>3. last' \in Clients \cup {None} /\ disturbed' \in [Clients -> BOOLEAN]
    BY <1>0, <1>6 DEF Refused, Pick, Disturbs, TypeOK
  <2>4. TypeOK'
    BY <1>0, <1>6, <2>2, <2>3 DEF TypeOK, Refused, Fails
  <2>5. \A d \in Clients \ {c} : IsOneAccount(client[d]) => IsOneAccount(client[d])'
    BY <1>6, <2>1, <2>2 DEF IsOneAccount, Refused
  <2>6. ClientInv'
    BY <1>0, <1>6, <2>2, <2>5 DEF ClientInv, TypeOK, Refused, Fails
  <2> QED
    BY <2>4, <2>6 DEF IInv
<1>7. ASSUME NEW c \in Clients, Faulty(c) PROVE IInv'
  <2>1. Entries' = Entries
    BY <1>7 DEF Faulty, Entries, UsesPool
  <2>2. TypeOK'
    BY <1>0, <1>7 DEF TypeOK, Faulty, Fails
  <2>3. ClientInv'
    BY <1>0, <1>7, <2>1 DEF ClientInv, TypeOK, Faulty, Fails, IsOneAccount
  <2> QED
    BY <2>2, <2>3 DEF IInv
<1>8. ASSUME NEW c \in Clients, Retry(c) PROVE IInv'
  <2>1. Entries' = Entries
    BY <1>8 DEF Retry, Entries, UsesPool
  <2>2. attempt[c] + 1 \in 0..(Attempts - 1)
    BY <1>0, <1>8 DEF TypeOK, ClientInv, Retry
  <2>3. TypeOK'
    BY <1>0, <1>8, <2>2 DEF TypeOK, Retry, history
  <2>4. ClientInv'
    BY <1>0, <1>8, <2>1 DEF ClientInv, TypeOK, Retry, IsOneAccount
  <2> QED
    BY <2>3, <2>4 DEF IInv
<1>9. CASE UNCHANGED vars
  BY <1>0, <1>9 DEF vars, history, IInv, TypeOK, ClientInv, IsOneAccount, Entries, UsesPool
<1> QED
  BY <1>1, <1>2, <1>3, <1>4, <1>5, <1>6, <1>7, <1>8, <1>9 DEF Next, Step

\* It holds of every behavior.
THEOREM Invariance == Spec => []IInv
BY InitIInv, StepIInv, PTL DEF Spec

\* TypeOK holds of every behavior; in particular no chat makes more attempts than
\* it may.
THEOREM TypeCorrect == Spec => []TypeOK
<1>1. IInv => TypeOK
  BY DEF IInv
<1> QED
  BY <1>1, Invariance, PTL

\* Accounts are never mixed, however clients rotate.
THEOREM RequestsAreUnmixed == Spec => []RequestIsOfOneAccount
<1>1. IInv => RequestIsOfOneAccount
  BY DEF IInv, ClientInv, Usable, IsOneAccount, RequestIsOfOneAccount
<1> QED
  BY <1>1, Invariance, PTL

-----------------------------------------------------------------------------
(* Every account is tried.                                                 *)

\* Division with remainder.
LEMMA DivMod ==
    ASSUME NEW n \in Nat \ {0}, NEW x \in Nat
    PROVE  x \div n \in Nat /\ x % n \in 0..(n - 1) /\ x = n * (x \div n) + (x % n)
OBVIOUS

\* The remainder is the only one.
LEMMA ModIsUnique ==
    ASSUME NEW n \in Nat \ {0}, NEW q \in Nat, NEW r \in 0..(n - 1)
    PROVE  (n * q + r) % n = r
<1> DEFINE p == (n * q + r) \div n
           s == (n * q + r) % n
<1>1. n * q + r \in Nat
  OBVIOUS
<1>2. p \in Nat /\ s \in 0..(n - 1) /\ n * q + r = n * p + s
  BY <1>1, DivMod
<1> HIDE DEF p, s
<1>3. CASE q >= p + 1
  <2>1. n * q >= n * (p + 1) /\ n * (p + 1) = n * p + n
    BY <1>2, <1>3
  <2> QED
    BY <1>2, <2>1
<1>4. CASE p >= q + 1
  <2>1. n * p >= n * (q + 1) /\ n * (q + 1) = n * q + n
    BY <1>2, <1>4
  <2> QED
    BY <1>2, <2>1
<1>5. CASE p = q
  <2>1. r = s
    BY <1>2, <1>5
  <2> QED
    BY <2>1 DEF s
<1> QED
  BY <1>2, <1>3, <1>4, <1>5

\* Among n consecutive numbers there is one of every residue.
LEMMA ResiduesAreCovered ==
    ASSUME NEW n \in Nat \ {0}, NEW x \in Nat, n - 1 <= x, NEW r \in 0..(n - 1)
    PROVE  \E j \in 0..(n - 1) : (x - j) % n = r
<1> DEFINE q == (x - r) \div n
           j == (x - r) % n
<1>1. x - r \in Nat
  OBVIOUS
<1>2. q \in Nat /\ j \in 0..(n - 1) /\ x - r = n * q + j
  BY <1>1, DivMod
<1> HIDE DEF q, j
<1>3. x - j = n * q + r
  BY <1>2
<1>4. (n * q + r) % n = r
  BY <1>2, ModIsUnique
<1> QED
  BY <1>2, <1>3, <1>4

\* The key the index was at n picks ago, counting from 0.
KeyBefore(n) == Entries[1 + ((index - 1 - n) % Len(Entries))].key

\* The chat of c has tried the entries of the picks from lo to hi ago.
Covered(c, lo, hi) ==
    \A n \in lo..hi : n < index /\ KeyBefore(n) \in tried[c]

InChat == {"send", "sent", "wait", "raised"}

\* Who has picked last has the key of that pick; an undisturbed client in a chat is the
\* one who picked last; and its refused requests have gone to the entries right before.
RotationOf(c) ==
    /\ pc[c] = "new" => last # c
    /\ last = c => index > 0 /\ client[c].key = KeyBefore(0)
    /\ pc[c] \in InChat /\ ~disturbed[c] => last = c
    /\ refused[c] /\ ~disturbed[c] =>
          /\ pc[c] = "send" => Covered(c, 1, attempt[c])
          /\ pc[c] = "sent" => Covered(c, 0, attempt[c])
          /\ pc[c] \in {"wait", "raised"} => Covered(c, 1, attempt[c] + 1)
    /\ pc[c] = "raised" => attempt[c] = Attempts - 1

RotationInv == Entries # << >> => \A c \in Clients : RotationOf(c)

LEMMA InitRotation == Init => RotationInv
BY NoneAssumption DEF Init, RotationInv, RotationOf, InChat

\* Nothing is lost for a client while the index and what is its own stay.
LEMMA OthersKeepRotation ==
    ASSUME NEW c \in Clients, RotationOf(c), UNCHANGED <<api_key, index, last>>,
           pc'[c] = pc[c], client'[c] = client[c], attempt'[c] = attempt[c],
           tried'[c] = tried[c], refused'[c] = refused[c], disturbed'[c] = disturbed[c]
    PROVE  RotationOf(c)'
BY DEF RotationOf, Covered, KeyBefore, InChat, Entries, UsesPool

\* Another client's pick disturbs a client.
LEMMA PickDisturbs ==
    ASSUME NEW c \in Clients, NEW d \in Clients \ {c}, RotationOf(d), api_key' = api_key,
           last' = c, disturbed'[d] = TRUE, pc'[d] = pc[d], attempt'[d] = attempt[d]
    PROVE  RotationOf(d)'
BY DEF RotationOf, InChat, Entries, UsesPool

\* After a pick the client has the key the index was at, and the picks before it are
\* one further back.
LEMMA PickMoves ==
    ASSUME TypeOK, Entries # << >>, api_key' = api_key, NEW c \in Clients, Pick(c)
    PROVE  /\ index' = index + 1 /\ last' = c
           /\ client'[c].key = KeyBefore(0)'
           /\ \A n \in Nat : KeyBefore(n + 1)' = KeyBefore(n)
<1>1. index \in Nat /\ index' = index + 1 /\ last' = c
  BY DEF Pick, PickFrom, TypeOK
<1>2. Entries' = Entries
  BY DEF Entries, UsesPool
<1>3. client'[c].key = Entries[1 + (index % Len(Entries))].key
  BY DEF Pick, With, TypeOK
<1>4. index' - 1 - 0 = index /\ \A n \in Nat : index' - 1 - (n + 1) = index - 1 - n
  BY <1>1
<1> QED
  BY <1>1, <1>2, <1>3, <1>4 DEF KeyBefore

LEMMA StepRotation == IInv /\ RotationInv /\ [Next]_vars => RotationInv'
<1> SUFFICES ASSUME IInv, RotationInv, [Next]_vars, Entries' # << >> PROVE RotationInv'
  BY DEF RotationInv
<1>0. TypeOK /\ ClientInv /\ Attempts \in Nat \ {0} /\ api_key' = api_key /\ Entries' = Entries
  BY AttemptsSuffice
     DEF IInv, Next, Step, CreateWithEntry, CreateWithKey, Chat, Send, Answered, Refused, Faulty,
         Retry, vars, Entries, UsesPool
<1>00. \A d \in Clients : RotationOf(d)
  BY <1>0 DEF RotationInv
<1> SUFFICES ASSUME NEW d \in Clients PROVE RotationOf(d)'
  BY DEF RotationInv
<1>000. RotationOf(d)
  BY <1>00
<1> USE DEF Goes
<1>1. ASSUME NEW c \in Clients, CreateWithEntry(c) PROVE RotationOf(d)'
  <2>1. CASE d = c
    <3>0. Pick(c) /\ index \in Nat
      BY <1>0, <1>1 DEF CreateWithEntry, TypeOK
    <3>1. index' = index + 1 /\ client'[c].key = KeyBefore(0)'
      BY <1>0, <3>0, PickMoves
    <3>2. pc'[c] = "idle"
      BY <1>0, <1>1 DEF CreateWithEntry, TypeOK
    <3> QED
      BY <2>1, <3>0, <3>1, <3>2 DEF RotationOf, InChat
  <2>2. CASE d # c
    BY <1>0, <1>000, <1>1, <2>2, PickDisturbs DEF CreateWithEntry, Pick, Disturbs, TypeOK
  <2> QED
    BY <2>1, <2>2
<1>2. ASSUME NEW c \in Clients, CreateWithKey(c) PROVE RotationOf(d)'
  <2>1. CASE d = c
    <3>1. last' # c /\ pc'[c] \in {"unusable", "idle"}
      BY <1>0, <1>000, <1>2, <2>1 DEF CreateWithKey, RotationOf, history, TypeOK
    <3> QED
      BY <2>1, <3>1 DEF RotationOf, InChat
  <2>2. CASE d # c
    BY <1>0, <1>000, <1>2, <2>2, OthersKeepRotation DEF CreateWithKey, history, TypeOK
  <2> QED
    BY <2>1, <2>2
<1>3. ASSUME NEW c \in Clients, Chat(c) PROVE RotationOf(d)'
  <2>1. CASE d = c
    <3>1. /\ pc'[c] = "send" /\ attempt'[c] = 0 /\ (~disturbed'[c] => last = c)
          /\ last' = last /\ index' = index /\ client' = client
      BY <1>0, <1>3 DEF Chat, TypeOK
    <3>2. Covered(c, 1, attempt[c])'
      BY <3>1 DEF Covered
    <3>3. KeyBefore(0)' = KeyBefore(0)
      BY <1>0, <3>1 DEF KeyBefore
    <3> QED
      BY <1>000, <2>1, <3>1, <3>2, <3>3 DEF RotationOf, InChat
  <2>2. CASE d # c
    BY <1>0, <1>000, <1>3, <2>2, OthersKeepRotation DEF Chat, TypeOK
  <2> QED
    BY <2>1, <2>2
<1>4. ASSUME NEW c \in Clients, Send(c) PROVE RotationOf(d)'
  <2>1. CASE d = c
    <3>1. /\ pc[c] = "send" /\ pc'[c] = "sent"
          /\ tried'[c] = tried[c] \cup {client[c].key}
          /\ UNCHANGED <<index, last, client, attempt, refused, disturbed>>
      BY <1>0, <1>4 DEF Send, Request, TypeOK
    <3>2. \A n \in Nat : KeyBefore(n)' = KeyBefore(n)
      BY <1>0, <3>1 DEF KeyBefore
    <3>3. refused[c] /\ ~disturbed[c] => Covered(c, 0, attempt[c])'
      <4> SUFFICES ASSUME refused[c], ~disturbed[c], NEW n \in 0..attempt[c]
                   PROVE  n < index /\ KeyBefore(n) \in tried'[c]
        BY <3>1, <3>2 DEF Covered
      <4>1. CASE n = 0
        BY <1>000, <2>1, <3>1, <4>1 DEF RotationOf, InChat
      <4>2. CASE n # 0
        <5>1. n \in 1..attempt[c]
          BY <1>0, <4>2 DEF TypeOK
        <5> QED
          BY <1>000, <2>1, <3>1, <5>1 DEF RotationOf, Covered
      <4> QED
        BY <4>1, <4>2
    <3>4. KeyBefore(0)' = KeyBefore(0)
      BY <3>2
    <3> QED
      BY <1>000, <2>1, <3>1, <3>3, <3>4 DEF RotationOf, InChat
  <2>2. CASE d # c
    BY <1>0, <1>000, <1>4, <2>2, OthersKeepRotation DEF Send, TypeOK
  <2> QED
    BY <2>1, <2>2
<1>5. ASSUME NEW c \in Clients, Answered(c) PROVE RotationOf(d)'
  <2>1. CASE d = c
    <3>1. pc'[c] = "idle" /\ UNCHANGED <<index, last, client>>
      BY <1>0, <1>5 DEF Answered, TypeOK, history
    <3>2. KeyBefore(0)' = KeyBefore(0)
      BY <1>0, <3>1 DEF KeyBefore
    <3> QED
      BY <1>000, <2>1, <3>1, <3>2 DEF RotationOf, InChat
  <2>2. CASE d # c
    BY <1>0, <1>000, <1>5, <2>2, OthersKeepRotation DEF Answered, TypeOK, history
  <2> QED
    BY <2>1, <2>2
<1>6. ASSUME NEW c \in Clients, Refused(c) PROVE RotationOf(d)'
  <2>1. CASE d = c
    <3>0. /\ Fails(c) /\ Pick(c) /\ Disturbs(c)
          /\ attempt[c] \in 0..(Attempts - 1) /\ index \in Nat
          /\ UNCHANGED <<attempt, tried, refused>>
      BY <1>0, <1>6 DEF Refused, TypeOK
    <3>1. /\ pc[c] = "sent" /\ pc'[c] \in {"wait", "raised"} /\ Pick(c)
          /\ pc'[c] = "raised" => attempt[c] = Attempts - 1
          /\ attempt[c] \in Nat /\ index \in Nat
          /\ disturbed'[c] = disturbed[c] /\ UNCHANGED <<attempt, tried, refused>>
      BY <1>0, <3>0 DEF Fails, Disturbs, TypeOK
    <3>2. /\ index' = index + 1 /\ last' = c
          /\ client'[c].key = KeyBefore(0)'
          /\ \A n \in Nat : KeyBefore(n + 1)' = KeyBefore(n)
      BY <1>0, <3>1, PickMoves
    <3>3. refused[c] /\ ~disturbed[c] => Covered(c, 1, attempt[c] + 1)'
      <4> SUFFICES ASSUME refused[c], ~disturbed[c], NEW n \in 1..(attempt[c] + 1)
                   PROVE  n < index' /\ KeyBefore(n)' \in tried[c]
        BY <3>1 DEF Covered
      <4>1. n - 1 \in 0..attempt[c] /\ n - 1 \in Nat /\ (n - 1) + 1 = n
        BY <3>1
      <4>2. n - 1 < index /\ KeyBefore(n - 1) \in tried[c]
        BY <1>000, <2>1, <3>1, <4>1 DEF RotationOf, Covered
      <4>3. KeyBefore((n - 1) + 1)' = KeyBefore(n - 1)
        BY <3>2, <4>1
      <4> QED
        BY <3>1, <3>2, <4>1, <4>2, <4>3
    <3>4. index' > 0
      BY <3>1, <3>2
    <3> QED
      BY <2>1, <3>1, <3>2, <3>3, <3>4 DEF RotationOf, InChat
  <2>2. CASE d # c
    BY <1>0, <1>000, <1>6, <2>2, PickDisturbs DEF Refused, Fails, Pick, Disturbs, TypeOK
  <2> QED
    BY <2>1, <2>2
<1>7. ASSUME NEW c \in Clients, Faulty(c) PROVE RotationOf(d)'
  <2>1. CASE d = c
    <3>1. /\ pc[c] = "sent" /\ pc'[c] \in {"wait", "raised"} /\ ~refused'[c]
          /\ pc'[c] = "raised" => attempt[c] = Attempts - 1
          /\ UNCHANGED <<index, last, client, attempt, disturbed>>
      BY <1>0, <1>7 DEF Faulty, Fails, TypeOK
    <3>2. KeyBefore(0)' = KeyBefore(0)
      BY <1>0, <3>1 DEF KeyBefore
    <3> QED
      BY <1>000, <2>1, <3>1, <3>2 DEF RotationOf, InChat
  <2>2. CASE d # c
    BY <1>0, <1>000, <1>7, <2>2, OthersKeepRotation DEF Faulty, Fails, TypeOK
  <2> QED
    BY <2>1, <2>2
<1>8. ASSUME NEW c \in Clients, Retry(c) PROVE RotationOf(d)'
  <2>1. CASE d = c
    <3>1. /\ pc[c] = "wait" /\ pc'[c] = "send" /\ attempt'[c] = attempt[c] + 1
          /\ UNCHANGED <<index, last, client, tried, refused, disturbed>>
      BY <1>0, <1>8 DEF Retry, TypeOK, history
    <3>2. \A n \in Nat : KeyBefore(n)' = KeyBefore(n)
      BY <1>0, <3>1 DEF KeyBefore
    <3>3. Covered(c, 1, attempt[c] + 1) => Covered(c, 1, attempt[c])'
      BY <1>0, <3>1 DEF Covered, KeyBefore
    <3>4. KeyBefore(0)' = KeyBefore(0)
      BY <3>2
    <3> QED
      BY <1>000, <2>1, <3>1, <3>3, <3>4 DEF RotationOf, InChat
  <2>2. CASE d # c
    BY <1>0, <1>000, <1>8, <2>2, OthersKeepRotation DEF Retry, TypeOK, history
  <2> QED
    BY <2>1, <2>2
<1>9. CASE UNCHANGED vars
  BY <1>000, <1>9, OthersKeepRotation DEF vars, history
<1> QED
  BY <1>1, <1>2, <1>3, <1>4, <1>5, <1>6, <1>7, <1>8, <1>9 DEF Next, Step

\* A chat that was refused Attempts times in a row has been to every entry.
LEMMA RefusedHasTriedAll ==
    ASSUME TypeOK, RotationInv, NEW c \in Clients, pc[c] = "raised", refused[c], ~disturbed[c],
           NEW k \in DOMAIN Entries
    PROVE  Entries[k].key \in tried[c]
<1> DEFINE n == Len(Entries)
<1>1. n \in Nat \ {0} /\ k \in 1..n /\ Entries # << >> /\ n <= Attempts
  <2>1. Entries \in Seq(Account) /\ n <= Attempts
    BY EntriesAreAccounts
  <2>2. n \in Nat /\ k \in 1..n
    BY <2>1
  <2> QED
    BY <2>1, <2>2
<1>2. Attempts \in Nat /\ index \in Nat
  BY AttemptsSuffice DEF TypeOK
<1>3. Covered(c, 1, Attempts)
  <2>1. attempt[c] = Attempts - 1 /\ Covered(c, 1, attempt[c] + 1)
    BY <1>1 DEF RotationInv, RotationOf
  <2>2. attempt[c] + 1 = Attempts
    BY <1>2, <2>1
  <2> QED
    BY <2>1, <2>2
<1> HIDE DEF n
<1>4. n < index
  BY <1>1, <1>2, <1>3 DEF Covered
<1>5. PICK j \in 0..(n - 1) : ((index - 2) - j) % n = k - 1
  <2>1. index - 2 \in Nat /\ n - 1 <= index - 2 /\ k - 1 \in 0..(n - 1)
    BY <1>1, <1>2, <1>4
  <2> QED
    BY <1>1, <2>1, ResiduesAreCovered
<1>6. j + 1 \in 1..Attempts /\ index - 1 - (j + 1) = (index - 2) - j
  BY <1>1, <1>2
<1>7. KeyBefore(j + 1) \in tried[c]
  BY <1>3, <1>6 DEF Covered
<1>8. KeyBefore(j + 1) = Entries[1 + (k - 1)].key
  BY <1>5, <1>6 DEF KeyBefore, n
<1> QED
  BY <1>1, <1>7, <1>8

\* A client that nobody comes between does not give up before it has tried every account.
THEOREM LoneClientsTryAll == Spec => []LoneClientTriesEveryAccount
<1>1. IInv /\ RotationInv => LoneClientTriesEveryAccount
  BY RefusedHasTriedAll DEF IInv, LoneClientTriesEveryAccount
<1> QED
  BY <1>1, InitRotation, StepRotation, Invariance, PTL DEF Spec

-----------------------------------------------------------------------------
(* The end of a chat.                                                      *)

InAttempt == {"send", "sent", "wait"}

\* What an attempt has before it.
StepsLeft(place) == CASE place = "send" -> 2 [] place = "sent" -> 1 [] OTHER -> 0

\* A step leaves the chat of client c alone, ends it, takes it to the next attempt
\* or takes its attempt to a later place.
Advances(c) ==
    \/ pc'[c] = pc[c] /\ attempt'[c] = attempt[c]
    \/ pc'[c] \in {"idle", "raised"}
    \/ attempt'[c] = attempt[c] + 1
    \/ attempt'[c] = attempt[c] /\ StepsLeft(pc'[c]) < StepsLeft(pc[c])

ChatsAdvance == \A c \in Clients : pc[c] \in InAttempt => Advances(c) /\ chats'[c] = chats[c]

\* Nothing but the end of it takes a client out of a chat, and no step sets one back.
ChatGoesOn == [][ChatsAdvance]_vars

LEMMA StepAdvances ==
    ASSUME IInv, NEW c \in Clients, pc[c] \in InAttempt, NEW d \in Clients, Step(d)
    PROVE  Advances(c) /\ chats'[c] = chats[c]
<1> USE DEF Goes, InAttempt
<1>0. /\ pc \in [Clients -> {"new", "idle", "send", "sent", "wait", "raised", "unusable"}]
      /\ DOMAIN attempt = Clients /\ DOMAIN chats = Clients
  BY DEF IInv, TypeOK
<1>1. CASE c # d
  <2>1. pc'[c] = pc[c] /\ attempt'[c] = attempt[c] /\ chats'[c] = chats[c]
    BY <1>0, <1>1 DEF Step, CreateWithEntry, CreateWithKey, Chat, Send, Answered,
                      Refused, Faulty, Fails, Retry
  <2> QED
    BY <2>1 DEF Advances
<1>2. CASE c = d
  <2>1. CASE CreateWithEntry(d) \/ CreateWithKey(d) \/ Chat(d)
    BY <1>2, <2>1 DEF CreateWithEntry, CreateWithKey, Chat
  <2>2. CASE Send(d)
    BY <1>0, <1>2, <2>2 DEF Send, Advances, StepsLeft
  <2>3. CASE Answered(d)
    BY <1>0, <1>2, <2>3 DEF Answered, Advances
  <2>4. CASE Refused(d) \/ Faulty(d)
    <3>1. pc[c] = "sent" /\ pc'[c] \in {"wait", "raised"} /\ attempt' = attempt /\ chats' = chats
      BY <1>0, <1>2, <2>4 DEF Refused, Faulty, Fails
    <3> QED
      BY <3>1 DEF Advances, StepsLeft
  <2>5. CASE Retry(d)
    BY <1>0, <1>2, <2>5 DEF Retry, Advances
  <2> QED
    BY <2>1, <2>2, <2>3, <2>4, <2>5 DEF Step
<1> QED
  BY <1>1, <1>2

\* A chat ends whatever the endpoint answers and whatever the other clients take: in
\* lexicographic order of attempts and places each of its steps goes on, no step of
\* another client touches it, and the attempts are numbered below max_attempts, so
\* that is the most it sends.
THEOREM ChatsAreBounded ==
    Spec => ChatGoesOn /\ [](\A c \in Clients : attempt[c] \in 0..(Attempts - 1))
<1>1. IInv /\ [Next]_vars => [ChatsAdvance]_vars
  BY StepAdvances DEF Next, ChatsAdvance
<1>2. IInv => \A c \in Clients : attempt[c] \in 0..(Attempts - 1)
  BY DEF IInv, TypeOK
<1> QED
  BY <1>1, <1>2, Invariance, PTL DEF Spec, ChatGoesOn
=============================================================================
