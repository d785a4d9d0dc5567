------------------------ MODULE ResourceCacheProofs ------------------------
(***************************************************************************)
(* Proofs about ResourceCache, for any accounts, regions and resources,    *)
(* and for every kind of resource.                                         *)
(***************************************************************************)
EXTENDS ResourceCache, TLAPS

Inv == TypeOK /\ StandingInv /\ RunsInv /\ ListedInv /\ CopiesInv

\* What a hash, and the objects in S3, are.
Fields == [Accounts -> (SUBSET Entries) \cup {None}]

\* Nothing that a hash held is gone, while the caches are calm.
Grows == calm /\ calm' => \A s \in Sites, a \in Accounts :
                              Held(hash[s][a]) \subseteq Held(hash'[s][a])

-----------------------------------------------------------------------------
(* Listing, storing and ageing.                                            *)

\* What AWS lists are entries, live ones, one at most for each region.
LEMMA ListedEntries ==
  ASSUME aws \subseteq Places, NEW a
  PROVE  /\ Listed(a) \in SUBSET Entries /\ Listed(a) # None
         /\ \A e \in Listed(a), n \in Listed(a) : e[1] = n[1] => e = n
         /\ \A e \in Listed(a) : e[2] = "live"
<1>1. Listed(a) \in SUBSET Entries
  BY DEF Listed, Entries, Regions
<1>2. Listed(a) # None
  BY <1>1, NoneAssumption
<1> QED
  BY <1>1, <1>2 DEF Listed

\* What a field holds.
LEMMA HeldEntries ==
  ASSUME NEW h \in Fields, NEW a \in Accounts
  PROVE  Held(h[a]) \in SUBSET Entries
<1>1. h[a] \in (SUBSET Entries) \cup {None}
  BY DEF Fields
<1>2. CASE h[a] = None
  BY <1>2 DEF Held
<1>3. CASE h[a] # None
  BY <1>1, <1>3 DEF Held
<1> QED
  BY <1>2, <1>3

\* Storing fields in a hash.
LEMMA HmsetFields ==
  ASSUME NEW old \in Fields, NEW new \in Fields
  PROVE  /\ Hmset(old, new) \in Fields
         /\ \A a \in Accounts :
              /\ new[a] = None => Hmset(old, new)[a] = old[a]
              /\ new[a] # None => Hmset(old, new)[a] # None
              /\ new[a] # None /\ kind # FromAwsConfig => Hmset(old, new)[a] = new[a]
              /\ new[a] # None /\ kind = FromAwsConfig =>
                   Hmset(old, new)[a] =
                     {e \in Held(old[a]) : \A n \in new[a] : n[1] # e[1]} \cup new[a]
<1>1. \A a \in Accounts :
         Hmset(old, new)[a] =
           IF new[a] = None THEN old[a]
           ELSE IF kind = FromAwsConfig
                THEN {e \in Held(old[a]) : \A n \in new[a] : n[1] # e[1]} \cup new[a]
                ELSE new[a]
  BY DEF Hmset
<1>2. ASSUME NEW a \in Accounts, new[a] # None
      PROVE  {e \in Held(old[a]) : \A n \in new[a] : n[1] # e[1]} \cup new[a]
               \in SUBSET Entries
  <2>1. new[a] \in SUBSET Entries
    BY <1>2 DEF Fields
  <2>2. Held(old[a]) \in SUBSET Entries
    BY HeldEntries
  <2> QED
    BY <2>1, <2>2
<1>3. ASSUME NEW a \in Accounts
      PROVE  /\ Hmset(old, new)[a] \in (SUBSET Entries) \cup {None}
             /\ new[a] # None => Hmset(old, new)[a] # None
  <2>1. old[a] \in (SUBSET Entries) \cup {None} /\ new[a] \in (SUBSET Entries) \cup {None}
    BY DEF Fields
  <2>2. CASE new[a] = None
    BY <1>1, <2>1, <2>2
  <2>3. CASE new[a] # None /\ kind = FromAwsConfig
    <3>1. Hmset(old, new)[a] =
            {e \in Held(old[a]) : \A n \in new[a] : n[1] # e[1]} \cup new[a]
      BY <1>1, <2>3
    <3>2. Hmset(old, new)[a] \in SUBSET Entries
      BY <1>2, <2>3, <3>1
    <3> QED
      BY <3>2, NoneAssumption
  <2>4. CASE new[a] # None /\ kind # FromAwsConfig
    BY <1>1, <2>1, <2>4
  <2> QED
    BY <2>2, <2>3, <2>4
<1>4. Hmset(old, new) \in Fields
  BY <1>3 DEF Hmset, Fields
<1> QED
  BY <1>1, <1>3, <1>4

\* A hash that holds what exists still does when more of that is stored.
LEMMA HmsetStands ==
  ASSUME NEW old \in Fields, NEW new \in Fields, Stands(old), Stands(new)
  PROVE  Stands(Hmset(old, new))
<1> SUFFICES ASSUME NEW a \in Accounts
             PROVE  Held(Hmset(old, new)[a]) \subseteq Listed(a)
  BY DEF Stands
<1>1. Held(old[a]) \subseteq Listed(a) /\ Held(new[a]) \subseteq Listed(a)
  BY DEF Stands
<1>2. CASE new[a] = None
  BY <1>1, <1>2, HmsetFields
<1>3. CASE new[a] # None /\ kind # FromAwsConfig
  BY <1>1, <1>3, HmsetFields
<1>4. CASE new[a] # None /\ kind = FromAwsConfig
  <2>1. Hmset(old, new)[a] =
          {e \in Held(old[a]) : \A n \in new[a] : n[1] # e[1]} \cup new[a]
    BY <1>4, HmsetFields
  <2>2. Hmset(old, new)[a] # None /\ Held(new[a]) = new[a]
    BY <1>4, HmsetFields DEF Held
  <2> QED
    BY <1>1, <2>1, <2>2 DEF Held
<1> QED
  BY <1>2, <1>3, <1>4

\* Storing what exists loses nothing of AWS Config, and of the others nothing
\* that is stored again.
LEMMA HmsetGrows ==
  ASSUME NEW old \in Fields, NEW new \in Fields, Stands(old), Stands(new),
         aws \subseteq Places, NEW a \in Accounts,
         kind = FromAwsConfig \/ new[a] = None \/ Held(old[a]) \subseteq new[a]
  PROVE  Held(old[a]) \subseteq Held(Hmset(old, new)[a])
<1>1. Held(old[a]) \subseteq Listed(a) /\ Held(new[a]) \subseteq Listed(a)
  BY DEF Stands
<1>2. CASE new[a] = None
  BY <1>2, HmsetFields
<1>3. CASE new[a] # None /\ kind # FromAwsConfig
  BY <1>3, HmsetFields DEF Held
<1>4. CASE new[a] # None /\ kind = FromAwsConfig
  <2>1. Hmset(old, new)[a] =
          {e \in Held(old[a]) : \A n \in new[a] : n[1] # e[1]} \cup new[a]
    BY <1>4, HmsetFields
  <2>2. Hmset(old, new)[a] # None /\ Held(new[a]) = new[a]
    BY <1>4, HmsetFields DEF Held
  <2>3. ASSUME NEW e \in Held(old[a]), NEW n \in new[a], n[1] = e[1]
        PROVE  e = n
    BY <1>1, <2>2, <2>3, ListedEntries
  <2>4. \A e \in Held(old[a]) : e \in Hmset(old, new)[a]
    BY <2>1, <2>3
  <2> QED
    BY <2>2, <2>4 DEF Held
<1> QED
  BY <1>2, <1>3, <1>4

\* Dropping what has expired, where nothing has.
LEMMA UnexpiredKeeps ==
  ASSUME NEW h \in Fields
  PROVE  /\ Unexpired(h) \in Fields
         /\ \A a \in Accounts : Held(Unexpired(h)[a]) \subseteq Held(h[a])
         /\ aws \subseteq Places /\ Stands(h) =>
              \A a \in Accounts : Held(h[a]) \subseteq Held(Unexpired(h)[a])
<1>1. \A a \in Accounts :
         Unexpired(h)[a] = IF h[a] = None THEN None ELSE {e \in h[a] : e[2] = "live"}
  BY DEF Unexpired
<1>2. ASSUME NEW a \in Accounts
      PROVE  /\ Unexpired(h)[a] \in (SUBSET Entries) \cup {None}
             /\ Held(Unexpired(h)[a]) \subseteq Held(h[a])
             /\ aws \subseteq Places /\ Stands(h) => Held(h[a]) \subseteq Held(Unexpired(h)[a])
  <2>1. CASE h[a] = None
    BY <1>1, <2>1 DEF Held
  <2>2. CASE h[a] # None
    <3>1. h[a] \in SUBSET Entries
      BY <2>2 DEF Fields
    <3>0. Unexpired(h)[a] = {e \in h[a] : e[2] = "live"}
      BY <1>1, <2>2
    <3>2. Unexpired(h)[a] = {e \in h[a] : e[2] = "live"} /\ Unexpired(h)[a] \in SUBSET Entries
      BY <3>0, <3>1
    <3>3. Unexpired(h)[a] # None
      BY <3>2, NoneAssumption
    <3>4. Held(Unexpired(h)[a]) = {e \in h[a] : e[2] = "live"} /\ Held(h[a]) = h[a]
      BY <2>2, <3>2, <3>3 DEF Held
    <3>5. aws \subseteq Places /\ Stands(h) => \A e \in h[a] : e[2] = "live"
      BY <3>4, ListedEntries DEF Stands
    <3> QED
      BY <3>2, <3>4, <3>5
  <2> QED
    BY <2>1, <2>2
<1>3. Unexpired(h) \in Fields
  BY <1>2 DEF Unexpired, Fields
<1> QED
  BY <1>2, <1>3

\* Of a hash that holds what exists, nothing that is gone can age.
LEMMA AgedStands ==
  ASSUME NEW h \in Fields, NEW p \in Places
  PROVE  /\ Aged(h, p) \in Fields
         /\ \A a \in Accounts : h[a] # None => Aged(h, p)[a] # None
         /\ aws \subseteq Places /\ p \notin aws /\ Stands(h) => Aged(h, p) = h
<1> DEFINE aged(e) == IF e[1] = p[2] THEN <<e[1], "expired">> ELSE e
<1>1. p = <<p[1], p[2]>> /\ p[1] \in Accounts /\ p[2] \in Regions
  BY PlacesAssumption DEF Accounts, Regions
<1>2. \A e \in Entries : e[1] \in Regions /\ aged(e) \in Entries
  BY DEF Entries
<1>3. /\ \A a \in Accounts : a # p[1] => Aged(h, p)[a] = h[a]
      /\ Aged(h, p)[p[1]] = IF h[p[1]] = None THEN None ELSE {aged(e) : e \in h[p[1]]}
      /\ h = [a \in Accounts |-> h[a]]
      /\ Aged(h, p) = [a \in Accounts |-> Aged(h, p)[a]]
  BY <1>1 DEF Aged, Fields
<1>4. h[p[1]] # None => {aged(e) : e \in h[p[1]]} \in SUBSET Entries
  <2> SUFFICES ASSUME h[p[1]] # None PROVE {aged(e) : e \in h[p[1]]} \in SUBSET Entries
    OBVIOUS
  <2>1. h[p[1]] \in SUBSET Entries
    BY <1>1 DEF Fields
  <2> HIDE DEF aged
  <2> QED
    BY <1>2, <2>1
<1>5. \A a \in Accounts : /\ Aged(h, p)[a] \in (SUBSET Entries) \cup {None}
                          /\ h[a] # None => Aged(h, p)[a] # None
  <2> SUFFICES ASSUME NEW a \in Accounts
               PROVE  /\ Aged(h, p)[a] \in (SUBSET Entries) \cup {None}
                      /\ h[a] # None => Aged(h, p)[a] # None
    OBVIOUS
  <2> HIDE DEF aged
  <2>1. CASE a # p[1]
    BY <1>3, <2>1 DEF Fields
  <2>2. CASE a = p[1] /\ h[p[1]] = None
    BY <1>3, <2>2
  <2>3. CASE a = p[1] /\ h[p[1]] # None
    BY <1>3, <1>4, <2>3, NoneAssumption
  <2> QED
    BY <2>1, <2>2, <2>3
<1>6. Aged(h, p) \in Fields
  BY <1>3, <1>5 DEF Fields
<1>7. ASSUME aws \subseteq Places, p \notin aws, Stands(h)
      PROVE  Aged(h, p) = h
  <2>1. CASE h[p[1]] = None
    BY <1>3, <2>1
  <2>2. CASE h[p[1]] # None
    <3>1. h[p[1]] \subseteq Listed(p[1])
      BY <1>1, <1>7, <2>2 DEF Stands, Held
    <3>2. ASSUME NEW e \in h[p[1]]
          PROVE  e[1] # p[2]
      <4> SUFFICES ASSUME e[1] = p[2] PROVE FALSE
        OBVIOUS
      <4>1. PICK q \in aws : q[1] = p[1] /\ e = <<q[2], "live">>
        BY <3>1 DEF Listed
      <4>2. q = <<q[1], q[2]>>
        BY <1>7, PlacesAssumption
      <4>3. q = p
        BY <1>1, <4>1, <4>2
      <4> QED
        BY <1>7, <4>3
    <3>3. {aged(e) : e \in h[p[1]]} = h[p[1]]
      BY <3>2
    <3> HIDE DEF aged
    <3>4. Aged(h, p)[p[1]] = h[p[1]]
      BY <1>3, <2>2, <3>3
    <3>5. \A a \in Accounts : Aged(h, p)[a] = h[a]
      BY <1>3, <3>4
    <3> QED
      BY <1>3, <3>5
  <2> QED
    BY <2>1, <2>2
<1> QED
  BY <1>5, <1>6, <1>7

-----------------------------------------------------------------------------
(* The invariant, and what a step keeps.                                   *)

\* What the invariant says of the values the actions use.
LEMMA InvFacts ==
  ASSUME Inv
  PROVE  /\ aws \subseteq Places
         /\ \A s \in Sites : hash[s] \in Fields
         /\ combined # None => combined \in Fields
         /\ file \in Fields
         /\ \A s \in Sites : run[s] = "list" => listing[s] \in Fields
         /\ \A a \in Accounts : Listed(a) \in SUBSET Entries
<1>1. aws \subseteq Places
  BY DEF Inv, TypeOK
<1>2. \A s \in Sites : run[s] = "list" => listing[s] \in [Accounts -> SUBSET Entries]
  BY DEF Inv, RunsInv
<1>3. [Accounts -> SUBSET Entries] \subseteq Fields
  BY DEF Fields
<1>4. \A a \in Accounts : Listed(a) \in SUBSET Entries
  BY <1>1, ListedEntries
<1> QED
  BY <1>1, <1>2, <1>3, <1>4 DEF Inv, TypeOK, Fields

\* The initial states satisfy it.
LEMMA InitInv == Init => Inv
<1> SUFFICES ASSUME Init PROVE Inv
  OBVIOUS
<1> USE DEF Init
<1>1. aws \subseteq Places
  OBVIOUS
<1>2. \A a \in Accounts : /\ Listed(a) \in SUBSET Entries /\ Listed(a) # None
                          /\ Held(Listed(a)) = Listed(a)
  BY <1>1, ListedEntries DEF Held
<1>3. \A a \in Accounts : Held(Blank[a]) = {}
  BY DEF Held, Blank
<1>4. Blank \in Fields /\ \A a \in Accounts : Blank[a] = None
  BY DEF Blank, Fields
<1>5. /\ combined # None => combined \in Fields /\ combined = [a \in Accounts |-> Listed(a)]
      /\ file \in Fields
      /\ \A a \in Accounts : file[a] = None \/ file[a] = Listed(a)
  BY <1>2, <1>4 DEF Fields
<1>6. TypeOK
  <2>1. hash \in [Sites -> Fields]
    BY <1>4
  <2>2. combined \in Fields \cup {None}
    BY <1>5
  <2>3. listing \in [Sites -> [Accounts -> SUBSET Entries] \cup {None}]
    OBVIOUS
  <2>4. sub \in [Sites -> [Accounts -> {"none", "queued", "failed"}]]
    OBVIOUS
  <2> QED
    BY <1>5, <2>1, <2>2, <2>3, <2>4, BoundsAssumption DEF TypeOK, Fields
<1>7. StandingInv
  <2>1. \A s \in Sites : Stands(hash[s])
    BY <1>3 DEF Stands
  <2>2. Stands(file)
    BY <1>2, <1>5 DEF Stands, Held
  <2>3. combined # None => Stands(combined)
    BY <1>2, <1>5 DEF Stands
  <2> QED
    BY <2>1, <2>2, <2>3 DEF StandingInv
<1>8. RunsInv
  BY DEF RunsInv, Sites
<1>9. ListedInv
  BY DEF ListedInv, Sites
<1>10. CopiesInv
  <2>1. \A s \in Sites, a \in Accounts : hash[s][a] = None /\ Held(hash[s][a]) = {}
    BY <1>3, <1>4
  <2>2. Active \in Sites /\ Passive \in Sites
    BY DEF Sites
  <2> QED
    BY <2>1, <2>2 DEF CopiesInv
<1> QED
  BY <1>6, <1>7, <1>8, <1>9, <1>10 DEF Inv

\* What the site that lists for the others is, of each kind.
LEMMA KindsDiffer ==
  /\ Managed \notin Fanned /\ FromAwsConfig \notin Fanned
  /\ \A k \in OfOrganizations : k \notin Fanned /\ k # FromAwsConfig
  /\ Managed \notin OfOrganizations /\ FromAwsConfig \notin OfOrganizations
BY DEF Managed, Fanned, FromAwsConfig, OfOrganizations, Regional

LEMMA CacheCloudAccountsKeeps ==
  ASSUME Inv, NEW s \in Sites, CacheCloudAccounts(s)
  PROVE  Inv' /\ Grows
<1> USE DEF CacheCloudAccounts, AccountsOfOrganization
<1>1. known' \in [Sites -> SUBSET Accounts] /\ \A t \in Sites : members \subseteq known'[t]
                                                          /\ known'[t] \subseteq known[t] \cup members
  BY DEF Inv, TypeOK, RunsInv
<1>2. TypeOK'
  BY <1>1 DEF Inv, TypeOK
<1>3. StandingInv'
  BY DEF Inv, StandingInv, Stands, Listed
<1>4. RunsInv'
  BY <1>1 DEF Inv, RunsInv
<1>5. ListedInv'
  <2>1. known'[Active] \subseteq known[Active]
    BY <1>1 DEF Inv, RunsInv, Sites
  <2> QED
    BY <2>1 DEF Inv, ListedInv, ActiveAccounts
<1>6. CopiesInv'
  BY DEF Inv, CopiesInv
<1> QED
  BY <1>2, <1>3, <1>4, <1>5, <1>6 DEF Inv, Grows

LEMMA FanOutKeeps ==
  ASSUME Inv, NEW s \in Sites, NEW pc \in {"idle", "join"}, FanOut(s, pc),
         kind \in Fanned => s = Active
  PROVE  Inv' /\ Grows
<1> USE DEF FanOut
<1>1. /\ run' \in [Sites -> {"idle", "list", "join"}]
      /\ sub' \in [Sites -> [Accounts -> {"none", "queued", "failed"}]]
      /\ \A t \in Sites : t # s => run'[t] = run[t] /\ sub'[t] = sub[t]
      /\ run'[s] # "list"
      /\ \A a \in Accounts : sub'[s][a] = IF a \in ActiveAccounts(s) THEN "queued" ELSE "none"
  BY DEF Inv, TypeOK
<1>2. TypeOK'
  BY <1>1 DEF Inv, TypeOK
<1>3. StandingInv'
  BY <1>1 DEF Inv, StandingInv, Stands, Listed
<1>4. RunsInv'
  BY <1>1, SitesAssumption DEF Inv, RunsInv, Sites
<1>5. ListedInv'
  <2> SUFFICES ASSUME kind \in Fanned, run'[Active] = "join",
                      NEW a \in Accounts, a \in known[Active], sub'[Active][a] = "none"
               PROVE  hash[Active][a] # None
    BY DEF Inv, TypeOK, ListedInv, ActiveAccounts, Sites
  <2> QED
    BY <1>1 DEF ActiveAccounts
<1>6. CopiesInv'
  BY <1>1 DEF Inv, CopiesInv
<1> QED
  BY <1>2, <1>3, <1>4, <1>5, <1>6 DEF Inv, Grows

LEMMA CopyCombinedKeeps ==
  ASSUME Inv, CopyCombined(Passive), kind \in Fanned
  PROVE  Inv' /\ Grows
<1> USE DEF CopyCombined
<1>0. Passive \in Sites /\ Active \in Sites /\ Active # Passive
  BY SitesAssumption DEF Sites
<1> DEFINE new == Hmset(hash[Passive], combined)
<1>1. hash[Passive] \in Fields /\ combined \in Fields /\ new \in Fields
  BY <1>0, InvFacts, HmsetFields
<1>2. /\ hash' \in [Sites -> Fields] /\ hash'[Passive] = new
      /\ \A t \in Sites : t # Passive => hash'[t] = hash[t]
  BY <1>0, <1>1, InvFacts DEF Inv, TypeOK, Fields
<1>3. kind # FromAwsConfig /\ \A t \in Sites : run[t] # "list"
  BY KindsDiffer DEF Inv, RunsInv
<1>4. \A a \in Accounts : new[a] = IF combined[a] = None THEN hash[Passive][a] ELSE combined[a]
  BY <1>1, <1>3, HmsetFields
<1> HIDE DEF new
<1>5. TypeOK'
  BY <1>2 DEF Inv, TypeOK, Fields
<1>6. StandingInv'
  <2> SUFFICES ASSUME calm PROVE \A t \in Sites : Stands(hash'[t])
    BY <1>3 DEF Inv, StandingInv, Stands, Listed
  <2>1. Stands(hash[Passive]) /\ Stands(combined) /\ \A t \in Sites : Stands(hash[t])
    BY <1>0 DEF Inv, StandingInv
  <2>2. Stands(new)
    BY <1>1, <2>1, HmsetStands DEF new
  <2> QED
    BY <1>2, <2>1, <2>2
<1>7. RunsInv'
  BY DEF Inv, RunsInv
<1>8. ListedInv'
  BY <1>0, <1>2 DEF Inv, ListedInv, ActiveAccounts
<1>9. CopiesInv'
  <2> SUFFICES ASSUME calm, NEW a \in Accounts
               PROVE  /\ hash[Active][a] # None =>
                           /\ Held(new[a]) \subseteq hash[Active][a]
                           /\ Held(combined[a]) \subseteq hash[Active][a]
                      /\ combined[a] # None => Held(new[a]) \subseteq combined[a]
    BY <1>0, <1>2, <1>3 DEF CopiesInv
  <2>1. /\ hash[Active][a] # None =>
             /\ Held(hash[Passive][a]) \subseteq hash[Active][a]
             /\ Held(combined[a]) \subseteq hash[Active][a]
        /\ combined[a] # None => Held(hash[Passive][a]) \subseteq combined[a]
    BY DEF Inv, CopiesInv
  <2>2. combined[a] # None => Held(combined[a]) = combined[a]
    BY DEF Held
  <2> QED
    BY <1>4, <2>1, <2>2
<1>10. Grows
  <2> SUFFICES ASSUME calm, NEW a \in Accounts
               PROVE  Held(hash[Passive][a]) \subseteq Held(new[a])
    BY <1>2 DEF Grows
  <2>1. combined[a] # None => Held(hash[Passive][a]) \subseteq combined[a]
    BY DEF Inv, CopiesInv
  <2> QED
    BY <1>4, <2>1 DEF Held
<1> QED
  BY <1>5, <1>6, <1>7, <1>8, <1>9, <1>10 DEF Inv

LEMMA GotKeeps ==
  ASSUME Inv, NEW s \in Sites, NEW a \in Accounts, NEW entries \in SUBSET Entries,
         Got(s, a, entries), kind \notin OfOrganizations,
         refusals' \in 0 .. MaxRefusals,
         file' \in Fields, calm' => Stands(file'), calm' \in BOOLEAN,
         calm' => /\ calm
                  /\ entries \subseteq Listed(a)
                  /\ kind = FromAwsConfig \/ entries = Listed(a)
  PROVE  Inv' /\ Grows
<1> USE DEF Got
<1> DEFINE new == [Blank EXCEPT ![a] = entries]
           h   == Hmset(hash[s], new)
<1>1. entries # None
  BY NoneAssumption
<1>2. /\ new \in Fields /\ new[a] = entries /\ \A b \in Accounts : b # a => new[b] = None
      /\ hash[s] \in Fields
  BY InvFacts DEF Blank, Fields
<1> HIDE DEF new
<1>3. h \in Fields
  BY <1>2, HmsetFields
<1>4. /\ \A b \in Accounts : b # a => h[b] = hash[s][b]
      /\ h[a] # None
      /\ kind # FromAwsConfig => h[a] = entries
  BY <1>1, <1>2, HmsetFields
<1>5. calm' => Stands(new) /\ Stands(hash[s])
  <2>1. \A b \in Accounts : Held(new[b]) = IF b = a THEN entries ELSE {}
    BY <1>1, <1>2 DEF Held
  <2> QED
    BY <2>1 DEF Inv, StandingInv, Stands
<1>6. /\ hash' \in [Sites -> Fields] /\ hash'[s] = h
      /\ \A t \in Sites : t # s => hash'[t] = hash[t]
  BY <1>3 DEF Inv, TypeOK, Fields, new
<1>7. /\ sub' \in [Sites -> [Accounts -> {"none", "queued", "failed"}]]
      /\ \A t \in Sites, b \in Accounts : <<t, b>> # <<s, a>> => sub'[t][b] = sub[t][b]
      /\ sub'[s][a] = "none"
  BY DEF Inv, TypeOK
<1>8. \A t \in Sites : run[t] # "list"
  BY DEF Inv, RunsInv
<1>9. kind \in Fanned => s = Active /\ kind # FromAwsConfig
  BY KindsDiffer DEF Inv, RunsInv, Sites
<1>10. calm' => Stands(h)
  BY <1>2, <1>5, HmsetStands DEF h
<1>11. calm' => \A b \in Accounts : Held(hash[s][b]) \subseteq Held(h[b])
  <2> SUFFICES ASSUME calm', NEW b \in Accounts
               PROVE  Held(hash[s][b]) \subseteq Held(h[b])
    OBVIOUS
  <2>1. CASE b # a
    BY <1>4, <2>1
  <2>2. CASE b = a
    <3>1. kind = FromAwsConfig \/ Held(hash[s][b]) \subseteq new[b]
      BY <1>2, <1>5, <2>2 DEF Stands
    <3> QED
      BY <1>2, <1>5, <3>1, InvFacts, HmsetGrows DEF h
  <2> QED
    BY <2>1, <2>2
<1> HIDE DEF h
<1>12. TypeOK'
  BY <1>6, <1>7 DEF Inv, TypeOK, Fields
<1>13. StandingInv'
  BY <1>6, <1>8, <1>10 DEF Inv, StandingInv, Stands, Listed
<1>14. RunsInv'
  BY <1>7, <1>9, SitesAssumption DEF Inv, RunsInv
<1>18. kind' = kind /\ run' = run /\ known' = known /\ known[Active] \subseteq Accounts
  BY DEF Inv, TypeOK, Sites
<1>15. ListedInv'
  <2> SUFFICES ASSUME kind \in Fanned, run[Active] = "join",
                      NEW b \in Accounts, b \in ActiveAccounts(Active), sub'[Active][b] = "none"
               PROVE  hash'[Active][b] # None
    <3> HIDE DEF Got
    <3> QED
      BY <1>18 DEF ListedInv, ActiveAccounts
  <2>1. CASE b = a
    BY <1>4, <1>6, <1>9, <2>1
  <2>2. CASE b # a
    BY <1>4, <1>6, <1>7, <1>9, <2>2 DEF Inv, ListedInv, Sites
  <2> QED
    BY <2>1, <2>2
<1>16. CopiesInv'
  <2> SUFFICES ASSUME calm', kind \in Fanned, NEW b \in Accounts
               PROVE  /\ hash'[Active][b] # None =>
                           /\ Held(hash'[Passive][b]) \subseteq hash'[Active][b]
                           /\ combined # None => Held(combined[b]) \subseteq hash'[Active][b]
                      /\ combined # None /\ combined[b] # None =>
                           Held(hash'[Passive][b]) \subseteq combined[b]
    BY <1>8 DEF CopiesInv
  <2>1. hash'[Active] = h /\ hash'[Passive] = hash[Passive] /\ s = Active
    BY <1>6, <1>9, SitesAssumption DEF Sites
  <2>2. /\ hash[Active][b] # None =>
             /\ Held(hash[Passive][b]) \subseteq hash[Active][b]
             /\ combined # None => Held(combined[b]) \subseteq hash[Active][b]
        /\ combined # None /\ combined[b] # None =>
             Held(hash[Passive][b]) \subseteq combined[b]
    BY DEF Inv, CopiesInv
  <2>3. CASE b # a
    BY <1>4, <2>1, <2>2, <2>3
  <2>4. CASE b = a
    <3>1. h[b] = Listed(b)
      BY <1>4, <1>9, <2>4
    <3>2. /\ Held(hash[Passive][b]) \subseteq Listed(b)
          /\ combined # None => Held(combined[b]) \subseteq Listed(b)
      BY DEF Inv, StandingInv, Stands, Sites
    <3> QED
      BY <2>1, <2>2, <3>1, <3>2
  <2> QED
    BY <2>3, <2>4
<1>17. Grows
  BY <1>6, <1>11 DEF Grows
<1> QED
  BY <1>12, <1>13, <1>14, <1>15, <1>16, <1>17 DEF Inv

LEMMA ForAccountKeeps ==
  ASSUME Inv, NEW s \in Sites, NEW a \in Accounts, ForAccount(s, a)
  PROVE  Inv' /\ Grows
<1>1. /\ Listed(a) \in SUBSET Entries /\ file \in Fields
      /\ refusals \in 0 .. MaxRefusals /\ MaxRefusals \in Nat /\ calm \in BOOLEAN
      /\ calm => Stands(file)
  BY InvFacts, BoundsAssumption DEF Inv, TypeOK, StandingInv
<1>2. ASSUME kind \in Regional, ByRegion(s, a)
      PROVE  Inv' /\ Grows
  <2>1. kind \notin OfOrganizations
    BY <1>2, KindsDiffer DEF Fanned
  <2>2. PICK refused \in SUBSET {p[2] : p \in {q \in Places : q[1] = a}} :
           /\ refused # {} => refusals < MaxRefusals
           /\ Got(s, a, Answered(a, refused)) /\ UNCHANGED file
           /\ refusals' = IF refused = {} THEN refusals ELSE refusals + 1
           /\ calm' = (calm /\ refused = {})
    BY <1>2 DEF ByRegion
  <2>3. /\ Answered(a, refused) \in SUBSET Entries
        /\ refused = {} => Answered(a, refused) = Listed(a)
    BY <1>1 DEF Answered
  <2>4. refusals' \in 0 .. MaxRefusals
    BY <1>1, <2>2
  <2>5. calm' \in BOOLEAN /\ (calm' => calm /\ refused = {})
    BY <2>2
  <2>6. file' = file /\ Got(s, a, Answered(a, refused))
    BY <2>2
  <2>7. aws' = aws
    BY <2>6 DEF Got
  <2>8. file' \in Fields /\ (calm' => Stands(file'))
    BY <1>1, <2>5, <2>6
  <2> QED
    BY <2>1, <2>3, <2>4, <2>5, <2>6, <2>8, GotKeeps
<1>3. ASSUME kind \in {"AWS::S3::Bucket", Managed}, InOneCall(s, a)
      PROVE  Inv' /\ Grows
  <2>1. kind \notin OfOrganizations
    BY <1>3, KindsDiffer DEF Fanned
  <2> QED
    BY <1>1, <1>3, <2>1, GotKeeps DEF InOneCall
<1>4. ASSUME CacheConfigForAccount(s, a)
      PROVE  Inv' /\ Grows
  <2>1. kind = FromAwsConfig /\ kind \notin OfOrganizations
    BY <1>4, KindsDiffer DEF CacheConfigForAccount
  <2>2. refusals' = refusals /\ calm' = calm
    BY <1>4 DEF CacheConfigForAccount
  <2>3. CASE s = Active
    <3>1. Got(s, a, Listed(a)) /\ file' = IF Listed(a) = {} THEN file ELSE [file EXCEPT ![a] = Listed(a)]
      BY <1>4, <2>3 DEF CacheConfigForAccount
    <3>2. file' \in Fields /\ (calm => Stands(file'))
      <4>1. Held(Listed(a)) = Listed(a)
        BY <1>1, NoneAssumption DEF Held
      <4> QED
        BY <1>1, <3>1, <4>1 DEF Fields, Stands
    <3> QED
      BY <1>1, <2>1, <2>2, <3>1, <3>2, GotKeeps
  <2>4. CASE s # Active
    <3>1. file[a] # None /\ Got(s, a, file[a]) /\ file' = file
      BY <1>4, <2>4 DEF CacheConfigForAccount
    <3>2. file[a] \in SUBSET Entries /\ (calm => file[a] \subseteq Listed(a))
      BY <1>1, <3>1 DEF Fields, Stands, Held
    <3> QED
      BY <1>1, <2>1, <2>2, <3>1, <3>2, GotKeeps
  <2> QED
    BY <2>3, <2>4
<1>5. ASSUME SubtaskFails(s, a)
      PROVE  Inv' /\ Grows
  <2> USE <1>5 DEF SubtaskFails
  <2>1. refusals' \in 0 .. MaxRefusals
    BY <1>1
  <2>2. /\ sub' \in [Sites -> [Accounts -> {"none", "queued", "failed"}]]
        /\ \A t \in Sites, b \in Accounts :
             sub'[t][b] = IF t = s /\ b = a THEN "failed" ELSE sub[t][b]
    BY DEF Inv, TypeOK
  <2>3. TypeOK'
    BY <2>1, <2>2 DEF Inv, TypeOK
  <2>4. StandingInv'
    BY DEF Inv, StandingInv, Stands, Listed
  <2>5. RunsInv'
    BY <2>2, SitesAssumption DEF Inv, RunsInv, Sites
  <2>6. ListedInv'
    BY <2>2 DEF Inv, ListedInv, ActiveAccounts, Sites
  <2>7. CopiesInv'
    BY DEF Inv, CopiesInv
  <2> QED
    BY <2>3, <2>4, <2>5, <2>6, <2>7 DEF Inv, Grows
<1> QED
  BY <1>2, <1>3, <1>4, <1>5
     DEF ForAccount, CacheQueuesForAccount, CacheTopicsForAccount, CacheBucketsForAccount,
         CachePoliciesForAccount, Regional

LEMMA JoinedKeeps ==
  ASSUME Inv, NEW s \in Sites,
         JoinFails(s) \/ StoreCombined(s) \/ SweepAndStoreCombined(s)
  PROVE  /\ Inv' /\ Grows
         /\ combined' # combined /\ kind \in Fanned =>
              \A a \in ActiveAccounts(Active) : combined'[a] # None
<1>1. Joined(s)
  BY DEF JoinFails, StoreCombined, SweepAndStoreCombined
<1>2. /\ run' \in [Sites -> {"idle", "list", "join"}]
      /\ \A t \in Sites : run'[t] = IF t = s THEN "idle" ELSE run[t]
  BY <1>1 DEF Inv, TypeOK, Joined
<1>3. /\ UNCHANGED <<kind, aws, members, known, file, sub, listing, reader, changes,
                     refusals, calm>>
      /\ run[s] = "join" /\ \A a \in Accounts : sub[s][a] # "queued"
  BY <1>1 DEF Joined
<1>4. RunsInv'
  BY <1>2, <1>3 DEF Inv, RunsInv, Sites
<1>5. kind \in Fanned => s = Active /\ kind # FromAwsConfig
  BY <1>3, KindsDiffer DEF Inv, RunsInv, Sites
<1>6. kind \in Fanned => ListedInv'
  BY <1>2, <1>5 DEF ListedInv
<1>7. kind \notin Fanned => ListedInv'
  BY <1>3 DEF ListedInv
<1>8. ASSUME JoinFails(s)
      PROVE  Inv' /\ Grows /\ combined' = combined
  <2>1. hash' = hash /\ combined' = combined
    BY <1>8 DEF JoinFails
  <2>2. TypeOK'
    BY <1>2, <1>3, <2>1 DEF Inv, TypeOK
  <2>3. StandingInv'
    BY <1>2, <1>3, <2>1 DEF Inv, StandingInv, Stands, Listed
  <2>4. CopiesInv'
    BY <1>2, <1>3, <2>1 DEF Inv, CopiesInv
  <2> QED
    BY <1>4, <1>6, <1>7, <2>1, <2>2, <2>3, <2>4 DEF Inv, Grows
<1>9. ASSUME StoreCombined(s)
      PROVE  /\ Inv' /\ Grows
             /\ \A a \in ActiveAccounts(Active) : combined'[a] # None
  <2>1. hash' = hash /\ combined' = hash[Active] /\ kind \in Fanned /\ s = Active
    BY <1>5, <1>9 DEF StoreCombined
  <2>2. hash[Active] \in Fields
    BY <2>1, InvFacts
  <2>3. TypeOK'
    BY <1>2, <1>3, <2>1, <2>2 DEF Inv, TypeOK, Fields
  <2>4. StandingInv'
    BY <1>2, <1>3, <2>1 DEF Inv, StandingInv, Stands, Listed
  <2>5. CopiesInv'
    <3>1. \A t \in Sites : run'[t] # "list"
      BY <1>2, <2>1, KindsDiffer DEF Inv, RunsInv
    <3> SUFFICES ASSUME calm, NEW a \in Accounts, hash[Active][a] # None
                 PROVE  /\ Held(hash[Passive][a]) \subseteq hash[Active][a]
                        /\ Held(hash[Active][a]) \subseteq hash[Active][a]
      BY <1>3, <2>1, <3>1 DEF CopiesInv, Held
    <3> QED
      BY <2>1 DEF Inv, CopiesInv, Held
  <2>6. \A a \in ActiveAccounts(Active) : hash[Active][a] # None
    <3> SUFFICES ASSUME NEW a \in ActiveAccounts(Active)
                 PROVE  hash[Active][a] # None
      OBVIOUS
    <3>1. a \in Accounts /\ sub[Active] \in [Accounts -> {"none", "queued", "failed"}]
      BY <2>1 DEF Inv, TypeOK, ActiveAccounts
    <3>2. sub[Active][a] = "none"
      BY <1>3, <1>9, <2>1, <3>1 DEF StoreCombined, SomeFailed
    <3> QED
      BY <1>3, <2>1, <3>1, <3>2 DEF Inv, ListedInv
  <2> QED
    BY <1>4, <1>6, <2>1, <2>3, <2>4, <2>5, <2>6 DEF Inv, Grows
<1>10. ASSUME SweepAndStoreCombined(s)
       PROVE  Inv' /\ Grows /\ kind \notin Fanned
  <2> DEFINE swept == Unexpired(hash[s])
  <2>1. /\ hash' = [hash EXCEPT ![s] = swept]
        /\ combined' = combined \/ combined' = hash'[s]
        /\ kind = FromAwsConfig /\ kind \notin Fanned /\ kind \notin OfOrganizations
    BY <1>10, KindsDiffer DEF SweepAndStoreCombined
  <2>2. hash[s] \in Fields /\ aws \subseteq Places
    BY InvFacts
  <2>3. /\ swept \in Fields
        /\ \A a \in Accounts : Held(swept[a]) \subseteq Held(hash[s][a])
        /\ Stands(hash[s]) => \A a \in Accounts : Held(hash[s][a]) \subseteq Held(swept[a])
    BY <2>2, UnexpiredKeeps
  <2> HIDE DEF swept
  <2>4. /\ hash' \in [Sites -> Fields] /\ hash'[s] = swept
        /\ \A t \in Sites : t # s => hash'[t] = hash[t]
    BY <2>1, <2>3 DEF Inv, TypeOK, Fields
  <2>5. \A t \in Sites : run[t] # "list"
    BY <2>1 DEF Inv, RunsInv
  <2>6. TypeOK'
    BY <1>2, <1>3, <2>1, <2>3, <2>4 DEF Inv, TypeOK, Fields
  <2>7. calm => Stands(swept)
    BY <2>3 DEF Inv, StandingInv, Stands
  <2>8. StandingInv'
    <3> SUFFICES ASSUME calm
                 PROVE  /\ \A t \in Sites : Stands(hash'[t])
                        /\ Stands(file) /\ (combined' # None => Stands(combined'))
      BY <1>2, <1>3, <2>5 DEF StandingInv, Stands, Listed
    <3> QED
      BY <2>1, <2>4, <2>7 DEF Inv, StandingInv
  <2>9. CopiesInv'
    BY <1>2, <1>3, <2>1, <2>5 DEF CopiesInv
  <2>10. Grows
    BY <2>3, <2>4 DEF Grows, Inv, StandingInv
  <2> QED
    BY <1>4, <1>7, <2>1, <2>6, <2>8, <2>9, <2>10 DEF Inv
<1> QED
  BY <1>8, <1>9, <1>10

LEMMA JoinTimesOutKeeps ==
  ASSUME Inv, NEW s \in Sites, JoinTimesOut(s)
  PROVE  Inv' /\ Grows
<1> USE DEF JoinTimesOut
<1>1. /\ run' \in [Sites -> {"idle", "list", "join"}]
      /\ \A t \in Sites : run'[t] = IF t = s THEN "idle" ELSE run[t]
      /\ refusals' \in 0 .. MaxRefusals
  BY BoundsAssumption DEF Inv, TypeOK
<1>2. TypeOK'
  BY <1>1 DEF Inv, TypeOK
<1>3. StandingInv'
  BY <1>1 DEF Inv, StandingInv, Stands, Listed
<1>4. RunsInv'
  BY <1>1 DEF Inv, RunsInv
<1>5. ListedInv'
  BY <1>1 DEF Inv, ListedInv, ActiveAccounts, Sites
<1>6. CopiesInv'
  BY <1>1 DEF Inv, CopiesInv
<1> QED
  BY <1>2, <1>3, <1>4, <1>5, <1>6 DEF Inv, Grows

LEMMA ListOrganizationsKeeps ==
  ASSUME Inv, NEW s \in Sites, ListOrganizations(s), kind \in OfOrganizations
  PROVE  Inv' /\ Grows
<1> USE DEF ListOrganizations
<1>1. AllListed \in [Accounts -> SUBSET Entries] /\ \A a \in Accounts : AllListed[a] = Listed(a)
  BY InvFacts DEF AllListed
<1>2. /\ run' \in [Sites -> {"idle", "list", "join"}]
      /\ listing' \in [Sites -> [Accounts -> SUBSET Entries] \cup {None}]
      /\ listing'[s] = AllListed
      /\ \A t \in Sites : t # s => run'[t] = run[t] /\ listing'[t] = listing[t]
  BY <1>1 DEF Inv, TypeOK
<1>3. kind \notin Fanned
  BY KindsDiffer
<1>4. \A a \in Accounts : Held(Listed(a)) = Listed(a)
  BY <1>1, InvFacts, NoneAssumption DEF Held
<1>5. TypeOK'
  BY <1>2 DEF Inv, TypeOK
<1>6. StandingInv'
  <2> SUFFICES ASSUME calm, NEW t \in Sites, run'[t] = "list"
               PROVE  Stands(listing'[t])
    BY DEF Inv, StandingInv, Stands, Listed
  <2>1. Stands(AllListed)
    BY <1>1, <1>4 DEF Stands
  <2> QED
    BY <1>2, <2>1 DEF Inv, StandingInv
<1>7. RunsInv'
  BY <1>1, <1>2, <1>3 DEF Inv, RunsInv
<1>8. ListedInv'
  BY <1>3 DEF ListedInv
<1>9. CopiesInv'
  <2> SUFFICES ASSUME calm, NEW t \in Sites, run'[t] = "list", NEW a \in Accounts
               PROVE  Held(hash[t][a]) \subseteq listing'[t][a]
    BY <1>3 DEF CopiesInv
  <2>1. CASE t = s
    BY <1>1, <1>2, <2>1 DEF Inv, StandingInv, Stands
  <2>2. CASE t # s
    BY <1>2, <2>2 DEF Inv, CopiesInv
  <2> QED
    BY <2>1, <2>2
<1> QED
  BY <1>5, <1>6, <1>7, <1>8, <1>9 DEF Inv, Grows

LEMMA EndListingKeeps ==
  ASSUME Inv, NEW s \in Sites, ListingRefused(s) \/ StoreListing(s)
  PROVE  Inv' /\ Grows /\ kind \notin Fanned
<1>1. EndListing(s)
  BY DEF ListingRefused, StoreListing
<1>2. /\ run' \in [Sites -> {"idle", "list", "join"}]
      /\ listing' \in [Sites -> [Accounts -> SUBSET Entries] \cup {None}]
      /\ \A t \in Sites : t # s => run'[t] = run[t] /\ listing'[t] = listing[t]
      /\ run'[s] = "idle" /\ run[s] = "list"
  BY <1>1 DEF Inv, TypeOK, EndListing
<1>3. UNCHANGED <<kind, aws, members, known, file, sub, reader, changes, calm>>
  BY <1>1 DEF EndListing
<1>4. kind \in OfOrganizations /\ kind \notin Fanned /\ kind # FromAwsConfig
  BY <1>2, KindsDiffer DEF Inv, RunsInv
<1>5. RunsInv'
  BY <1>2, <1>3, <1>4 DEF Inv, RunsInv
<1>6. ListedInv'
  BY <1>3, <1>4 DEF ListedInv
<1>7. ASSUME ListingRefused(s)
      PROVE  Inv' /\ Grows
  <2>1. hash' = hash /\ combined' = combined /\ refusals' \in 0 .. MaxRefusals
    BY <1>7, BoundsAssumption DEF ListingRefused, Inv, TypeOK
  <2>2. TypeOK'
    BY <1>2, <1>3, <2>1 DEF Inv, TypeOK
  <2>3. StandingInv'
    BY <1>2, <1>3, <2>1 DEF Inv, StandingInv, Stands, Listed
  <2>4. CopiesInv'
    BY <1>2, <1>3, <1>4, <2>1 DEF Inv, CopiesInv
  <2> QED
    BY <1>5, <1>6, <2>1, <2>2, <2>3, <2>4 DEF Inv, Grows
<1>8. ASSUME StoreListing(s)
      PROVE  Inv' /\ Grows
  <2> DEFINE new == Hmset(hash[s], listing[s])
  <2>1. /\ hash' = [hash EXCEPT ![s] = new]
        /\ combined' = combined \/ combined' = listing[s]
        /\ refusals' = refusals
    BY <1>8 DEF StoreListing
  <2>2. hash[s] \in Fields /\ listing[s] \in Fields /\ aws \subseteq Places
    BY <1>2, InvFacts
  <2>3. new \in Fields
    BY <2>2, HmsetFields
  <2>4. calm => Stands(hash[s]) /\ Stands(listing[s])
    BY <1>2 DEF Inv, StandingInv
  <2>5. calm => Stands(new)
    BY <2>2, <2>4, HmsetStands
  <2>6. calm => \A a \in Accounts : Held(hash[s][a]) \subseteq Held(new[a])
    <3> SUFFICES ASSUME calm, NEW a \in Accounts
                 PROVE  Held(hash[s][a]) \subseteq Held(new[a])
      OBVIOUS
    <3>1. Held(hash[s][a]) \subseteq listing[s][a]
      BY <1>2 DEF Inv, CopiesInv
    <3> QED
      BY <2>2, <2>4, <3>1, HmsetGrows
  <2> HIDE DEF new
  <2>7. /\ hash' \in [Sites -> Fields] /\ hash'[s] = new
        /\ \A t \in Sites : t # s => hash'[t] = hash[t]
    BY <2>1, <2>3 DEF Inv, TypeOK, Fields
  <2>8. TypeOK'
    BY <1>2, <1>3, <2>1, <2>2, <2>7 DEF Inv, TypeOK, Fields
  <2>9. StandingInv'
    <3> SUFFICES ASSUME calm
                 PROVE  /\ \A t \in Sites : Stands(hash'[t])
                        /\ Stands(file) /\ (combined' # None => Stands(combined'))
                        /\ \A t \in Sites : run'[t] = "list" => Stands(listing'[t])
      BY <1>3 DEF StandingInv, Stands, Listed
    <3> QED
      BY <1>2, <2>1, <2>4, <2>5, <2>7 DEF Inv, StandingInv
  <2>10. CopiesInv'
    BY <1>2, <1>3, <1>4, <2>7 DEF Inv, CopiesInv
  <2>11. Grows
    BY <2>6, <2>7 DEF Grows
  <2> QED
    BY <1>5, <1>6, <2>8, <2>9, <2>10, <2>11 DEF Inv
<1> QED
  BY <1>4, <1>7, <1>8

LEMMA ReadingKeeps ==
  ASSUME Inv, NEW s \in Sites, ReadResources(s) \/ GetAllScps(s) \/ GetOrgStructure(s)
  PROVE  Inv' /\ Grows
<1>1. PICK r : /\ reader' = r
               /\ r \in [site : Sites, snap : Fields, own : BOOLEAN]
               /\ r.own => kind \in OfOrganizations
  <2>1. CASE ReadResources(s)
    <3>1. combined \in Fields
      BY <2>1, InvFacts DEF ReadResources
    <3> DEFINE r == [site |-> s, snap |-> combined, own |-> FALSE]
    <3>2. reader' = r
      BY <2>1 DEF ReadResources
    <3>3. r \in [site : Sites, snap : Fields, own : BOOLEAN] /\ ~r.own
      BY <3>1
    <3> QED
      BY <3>2, <3>3
  <2>2. CASE GetAllScps(s) \/ GetOrgStructure(s)
    <3>1. AllListed \in Fields
      BY InvFacts DEF AllListed, Fields
    <3>2. kind \in OfOrganizations /\ ListForPage(s)
      BY <2>2 DEF GetAllScps, GetOrgStructure, OfOrganizations
    <3> DEFINE r == [site |-> s, snap |-> AllListed, own |-> TRUE]
    <3>3. reader' = r
      BY <3>2 DEF ListForPage
    <3>4. r \in [site : Sites, snap : Fields, own : BOOLEAN]
      BY <3>1
    <3> QED
      BY <3>2, <3>3, <3>4
  <2> QED
    BY <2>1, <2>2
<1>2. UNCHANGED <<kind, aws, members, known, hash, combined, file, run, sub, listing,
                  changes, refusals, calm>>
  BY DEF ReadResources, GetAllScps, GetOrgStructure, ListForPage
<1>3. TypeOK'
  BY <1>1, <1>2 DEF Inv, TypeOK, Fields
<1>4. StandingInv'
  BY <1>2 DEF Inv, StandingInv, Stands, Listed
<1>5. RunsInv'
  BY <1>1, <1>2 DEF Inv, RunsInv
<1>6. ListedInv'
  BY <1>2 DEF Inv, ListedInv, ActiveAccounts
<1>7. CopiesInv'
  BY <1>2 DEF Inv, CopiesInv
<1> QED
  BY <1>2, <1>3, <1>4, <1>5, <1>6, <1>7 DEF Inv, Grows

LEMMA StoreWhatWasReadKeeps ==
  ASSUME Inv, StoreWhatWasRead
  PROVE  Inv' /\ Grows /\ (combined' # combined => kind \notin Fanned)
<1> DEFINE s   == reader.site
           new == Hmset(hash[s], reader.snap)
<1>1. reader \in [site : Sites, snap : Fields, own : BOOLEAN]
  BY DEF Inv, TypeOK, Fields, StoreWhatWasRead
<1>2. s \in Sites /\ reader.snap \in Fields /\ hash[s] \in Fields
  BY <1>1, InvFacts
<1>3. new \in Fields /\ \A a \in Accounts : hash[s][a] # None => new[a] # None
  BY <1>2, HmsetFields
<1>4. /\ hash' = [hash EXCEPT ![s] = new]
      /\ combined' = combined \/ (combined' = reader.snap /\ reader.own)
      /\ calm' = FALSE /\ reader' = None
      /\ UNCHANGED <<kind, aws, members, known, file, run, sub, listing, changes, refusals>>
  BY DEF StoreWhatWasRead
<1>5. combined' # combined => kind \notin Fanned
  BY <1>4, KindsDiffer DEF StoreWhatWasRead, Inv, RunsInv
<1> HIDE DEF s, new
<1>6. /\ hash' \in [Sites -> Fields] /\ hash'[s] = new
      /\ \A t \in Sites : t # s => hash'[t] = hash[t]
  BY <1>2, <1>3, <1>4 DEF Inv, TypeOK, Fields
<1>7. TypeOK'
  BY <1>2, <1>4, <1>6 DEF Inv, TypeOK, Fields
<1>8. StandingInv' /\ CopiesInv' /\ Grows
  BY <1>4 DEF StandingInv, CopiesInv, Grows
<1>9. RunsInv'
  BY <1>4 DEF Inv, RunsInv
<1>10. ListedInv'
  <2> SUFFICES ASSUME kind \in Fanned, run[Active] = "join",
                      NEW a \in ActiveAccounts(Active), sub[Active][a] = "none"
               PROVE  hash'[Active][a] # None
    BY <1>4 DEF ListedInv, ActiveAccounts
  <2>1. Active \in Sites /\ a \in Accounts
    BY DEF Sites, Inv, TypeOK, ActiveAccounts
  <2>2. hash[Active][a] # None
    BY DEF Inv, ListedInv
  <2> QED
    BY <1>3, <1>6, <2>1, <2>2
<1> QED
  BY <1>5, <1>7, <1>8, <1>9, <1>10 DEF Inv

LEMMA AwsChangesKeeps ==
  ASSUME Inv, AwsChanges
  PROVE  Inv' /\ Grows
<1>1. /\ changes' \in 0 .. MaxChanges
      /\ UNCHANGED <<kind, known, hash, combined, file, run, sub, listing, reader, refusals>>
  BY BoundsAssumption DEF AwsChanges, Inv, TypeOK
<1>2. /\ aws' \subseteq Places /\ members' \subseteq members
      /\ calm' \in BOOLEAN /\ (calm' => calm /\ aws \subseteq aws')
  <2>1. aws \subseteq Places /\ calm \in BOOLEAN
    BY DEF Inv, TypeOK
  <2>2. CASE \E p \in Places \ aws : aws' = aws \cup {p} /\ UNCHANGED <<members, calm>>
    BY <2>1, <2>2
  <2>3. CASE \E p \in aws : aws' = aws \ {p} /\ calm' = FALSE /\ UNCHANGED members
    BY <2>1, <2>3
  <2>4. CASE \E a \in members : /\ kind \notin OfOrganizations
                                /\ members' = members \ {a} /\ UNCHANGED <<aws, calm>>
    <3>1. aws' = aws /\ members' \subseteq members
      BY <2>4
    <3>2. calm' = calm
      BY <2>4, Zenon
    <3> QED
      BY <2>1, <3>1, <3>2
  <2> QED
    BY <2>2, <2>3, <2>4 DEF AwsChanges
<1>3. TypeOK'
  BY <1>1, <1>2 DEF Inv, TypeOK
<1>4. StandingInv'
  <2> SUFFICES ASSUME calm'
               PROVE  /\ \A s \in Sites : Stands(hash[s])'
                      /\ Stands(file)' /\ (combined # None => Stands(combined)')
                      /\ \A s \in Sites : run[s] = "list" => Stands(listing[s])'
    BY <1>1 DEF StandingInv
  <2>1. \A a \in Accounts : Listed(a) \subseteq Listed(a)'
    BY <1>2 DEF Listed
  <2> QED
    BY <1>1, <1>2, <2>1 DEF Inv, StandingInv, Stands
<1>5. RunsInv'
  BY <1>1, <1>2 DEF Inv, RunsInv
<1>6. ListedInv'
  BY <1>1 DEF Inv, ListedInv, ActiveAccounts
<1>7. CopiesInv'
  BY <1>1, <1>2 DEF Inv, CopiesInv
<1> QED
  BY <1>1, <1>3, <1>4, <1>5, <1>6, <1>7 DEF Inv, Grows

LEMMA ExpireKeeps ==
  ASSUME Inv, NEW p \in Places, Expire(p)
  PROVE  Inv' /\ Grows
<1>1. /\ kind = FromAwsConfig /\ p \notin aws
      /\ hash' = [s \in Sites |-> Aged(hash[s], p)]
      /\ file' = Aged(file, p)
      /\ combined' = IF combined = None THEN None ELSE Aged(combined, p)
      /\ hash' # hash \/ file' # file \/ combined' # combined
      /\ UNCHANGED <<kind, aws, members, known, run, sub, listing, reader, changes,
                     refusals, calm>>
  BY DEF Expire
<1>2. kind \notin Fanned /\ kind \notin OfOrganizations
  BY <1>1, KindsDiffer
<1>3. \A s \in Sites : Aged(hash[s], p) \in Fields
  BY InvFacts, AgedStands
<1>4. file' \in Fields /\ (combined' # None => combined' \in Fields)
  BY <1>1, InvFacts, AgedStands
<1>5. ~calm
  <2> SUFFICES ASSUME calm PROVE FALSE
    OBVIOUS
  <2>1. \A s \in Sites : Aged(hash[s], p) = hash[s]
    BY <1>1, InvFacts, AgedStands DEF Inv, StandingInv
  <2>2. hash' = hash
    <3>1. hash = [s \in Sites |-> hash[s]]
      BY DEF Inv, TypeOK
    <3> QED
      BY <1>1, <2>1, <3>1
  <2>3. file' = file
    BY <1>1, InvFacts, AgedStands DEF Inv, StandingInv
  <2>4. combined' = combined
    BY <1>1, InvFacts, AgedStands DEF Inv, StandingInv
  <2> QED
    BY <1>1, <2>2, <2>3, <2>4
<1>6. TypeOK'
  BY <1>1, <1>3, <1>4 DEF Inv, TypeOK, Fields
<1>7. StandingInv' /\ CopiesInv' /\ Grows
  BY <1>1, <1>5 DEF StandingInv, CopiesInv, Grows
<1>8. RunsInv'
  BY <1>1 DEF Inv, RunsInv
<1>9. ListedInv'
  BY <1>1, <1>2 DEF ListedInv
<1> QED
  BY <1>6, <1>7, <1>8, <1>9 DEF Inv

-----------------------------------------------------------------------------
(* Every step, and the theorems.                                           *)

\* A step keeps the invariant and what the hashes hold, and what is combined
\* is complete.
LEMMA StepKeeps ==
  ASSUME Inv, [Next]_vars
  PROVE  /\ Inv' /\ Grows
         /\ combined' # combined /\ kind \in Fanned =>
              \A a \in ActiveAccounts(Active) : combined'[a] # None
<1> DEFINE Kept == /\ Inv' /\ Grows
                   /\ combined' # combined /\ kind \in Fanned =>
                        \A a \in ActiveAccounts(Active) : combined'[a] # None
<1> SUFFICES Kept
  OBVIOUS
<1>1. ASSUME NEW s \in Sites, Across(s)
      PROVE  Kept
  <2>1. ASSUME FanOut(s, "join") \/ FanOut(s, "idle"), kind \in Fanned => s = Active
        PROVE  Kept
    <3>1. combined' = combined
      BY <2>1 DEF FanOut
    <3> QED
      BY <2>1, <3>1, FanOutKeeps
  <2>2. ASSUME kind \in Fanned, ListOrCopy(s)
        PROVE  Kept
    <3>1. CASE s = Active
      BY <2>1, <2>2, <3>1 DEF ListOrCopy
    <3>2. CASE s # Active
      <4>1. CopyCombined(Passive) /\ combined' = combined
        BY <2>2, <3>2 DEF ListOrCopy, Sites, CopyCombined
      <4> QED
        BY <2>2, <4>1, CopyCombinedKeeps
    <3> QED
      BY <3>1, <3>2
  <2>3. CASE \/ CacheQueuesAcrossAccounts(s) \/ CacheTopicsAcrossAccounts(s)
             \/ CacheBucketsAcrossAccounts(s)
    BY <2>2, <2>3 DEF CacheQueuesAcrossAccounts, CacheTopicsAcrossAccounts,
                      CacheBucketsAcrossAccounts, Fanned, Regional
  <2>4. CASE CachePoliciesAcrossAccounts(s) \/ CacheConfigAcrossAccounts(s)
    <3>1. kind \notin Fanned
      BY <2>4, KindsDiffer DEF CachePoliciesAcrossAccounts, CacheConfigAcrossAccounts
    <3> QED
      BY <2>1, <2>4, <3>1 DEF CachePoliciesAcrossAccounts, CacheConfigAcrossAccounts
  <2>5. CASE CacheAllScps(s) \/ CacheOrgStructure(s)
    <3>1. kind \in OfOrganizations /\ kind \notin Fanned
      BY <2>5, KindsDiffer DEF CacheAllScps, CacheOrgStructure, OfOrganizations
    <3>2. ListOrganizations(s) \/ StoreListing(s)
      BY <2>5 DEF CacheAllScps, CacheOrgStructure
    <3> QED
      BY <3>1, <3>2, ListOrganizationsKeeps, EndListingKeeps
  <2>6. CASE JoinFails(s) \/ StoreCombined(s) \/ SweepAndStoreCombined(s)
    BY <2>6, JoinedKeeps
  <2> QED
    BY <1>1, <2>3, <2>4, <2>5, <2>6 DEF Across
<1>2. ASSUME NEW s \in Sites, NEW a \in Accounts, ForAccount(s, a)
      PROVE  Kept
  <2>1. combined' = combined
    BY <1>2 DEF ForAccount, CacheQueuesForAccount, CacheTopicsForAccount,
                CacheBucketsForAccount, CachePoliciesForAccount, CacheConfigForAccount,
                SubtaskFails, ByRegion, InOneCall, Got
  <2> QED
    BY <1>2, <2>1, ForAccountKeeps
<1>3. ASSUME NEW s \in Sites, JoinTimesOut(s)
      PROVE  Kept
  BY <1>3, JoinTimesOutKeeps DEF JoinTimesOut
<1>4. ASSUME NEW s \in Sites, ListingRefused(s)
      PROVE  Kept
  BY <1>4, EndListingKeeps
<1>5. ASSUME NEW s \in Sites, CacheCloudAccounts(s)
      PROVE  Kept
  BY <1>5, CacheCloudAccountsKeeps DEF CacheCloudAccounts
<1>6. ASSUME NEW s \in Sites, ReadResources(s) \/ GetAllScps(s) \/ GetOrgStructure(s)
      PROVE  Kept
  <2>1. combined' = combined
    BY <1>6 DEF ReadResources, GetAllScps, GetOrgStructure, ListForPage
  <2> QED
    BY <1>6, <2>1, ReadingKeeps
<1>7. ASSUME StoreWhatWasRead
      PROVE  Kept
  BY <1>7, StoreWhatWasReadKeeps
<1>8. ASSUME AwsChanges
      PROVE  Kept
  BY <1>8, AwsChangesKeeps DEF AwsChanges
<1>9. ASSUME NEW p \in Places, Expire(p)
      PROVE  Kept
  <2>1. kind \notin Fanned
    BY <1>9, KindsDiffer DEF Expire
  <2> QED
    BY <1>9, <2>1, ExpireKeeps
<1>10. ASSUME UNCHANGED vars
       PROVE  Kept
  <2> USE <1>10 DEF vars
  <2>1. TypeOK'
    BY DEF Inv, TypeOK
  <2>2. StandingInv'
    BY DEF Inv, StandingInv, Stands, Listed
  <2>3. RunsInv' /\ ListedInv' /\ CopiesInv'
    BY DEF Inv, RunsInv, ListedInv, CopiesInv, ActiveAccounts
  <2> QED
    BY <2>1, <2>2, <2>3 DEF Inv, Grows
<1> HIDE DEF Kept
<1> QED
  BY <1>1, <1>2, <1>3, <1>4, <1>5, <1>6, <1>7, <1>8, <1>9, <1>10 DEF Next, Collect

\* The invariant: what the caches hold exists while nothing was deleted, only
\* the active site lists for the others, what a run listed is in the hash, and
\* what is copied next holds all that the copies hold.
THEOREM Invariant == Spec => []Inv
<1>1. Inv /\ [Next]_vars => Inv'
  BY StepKeeps
<1> QED
  BY <1>1, InitInv, PTL DEF Spec

\* The caches, the runs and the pages hold what their types say.
THEOREM TypeCorrect == Spec => []TypeOK
<1>1. Inv => TypeOK
  BY DEF Inv
<1> QED
  BY <1>1, Invariant, PTL

\* The object the passive sites copy (cache_sqs_queues_across_accounts and its
\* like) is never stored by the active site without every account it knows.
THEOREM PublishedIsCompleteAlways == Spec => PublishedIsComplete
<1>1. Inv /\ [Next]_vars =>
        [combined' # combined /\ kind \in Fanned =>
           \A a \in ActiveAccounts(Active) : combined'[a] # None]_vars
  BY StepKeeps
<1> QED
  BY <1>1, Invariant, PTL DEF Spec, PublishedIsComplete

\* No run of a task, failed, late or partial, takes a resource that stays where
\* it is out of the policies table of a site.
THEOREM StandingResourcesStayAlways == Spec => StandingResourcesStay
<1>1. Inv /\ [Next]_vars =>
        [calm /\ calm' => \A s \in Sites : PoliciesTable(s) \cap aws \subseteq PoliciesTable(s)']_vars
  <2> SUFFICES ASSUME Inv, [Next]_vars, calm, calm', NEW s \in Sites,
                      NEW p \in PoliciesTable(s)
               PROVE  p \in PoliciesTable(s)'
    OBVIOUS
  <2>1. p \in Places /\ p[1] \in Accounts
    BY DEF PoliciesTable, Rows, Accounts
  <2>2. Held(hash[s][p[1]]) \subseteq Held(hash'[s][p[1]])
    BY <2>1, StepKeeps DEF Grows
  <2> QED
    BY <2>2 DEF PoliciesTable, Rows
<1> QED
  BY <1>1, Invariant, PTL DEF Spec, StandingResourcesStay
=============================================================================
