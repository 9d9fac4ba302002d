---------------------------- MODULE AccessProofs ----------------------------
(***************************************************************************)
(* Theorems about Access: for every configuration, environment, chain and  *)
(* history of the RBAC contract.                                           *)
(***************************************************************************)
EXTENDS Access, FiniteSetTheorems, TLAPS

-----------------------------------------------------------------------------
(* Least and greatest elements, which Min and Max choose. *)

Less == {p \in Nat \X Nat : p[1] < p[2]}

LEMMA MinIsLeast ==
    ASSUME NEW S \in SUBSET Nat, S # {}
    PROVE  Min(S) \in S /\ \A m \in S : Min(S) <= m
<1>1. IsWellFoundedOn(Less, Nat)
  BY NatLessThanWellFounded DEF OpToRel, Less
<1>2. PICK x \in S : \A y \in S : <<y, x>> \notin Less
  BY <1>1, WFMin
<1>3. ASSUME NEW y \in S
      PROVE  x <= y
  <2>1. x \in Nat /\ y \in Nat
    OBVIOUS
  <2>2. y < x => <<y, x>> \in Less
    BY <2>1 DEF Less
  <2> QED
    BY <1>2, <2>1, <2>2
<1> QED
  BY <1>3 DEF Min

LEMMA MaxIsGreatest ==
    ASSUME NEW n \in Nat, NEW S \in SUBSET (1 .. n), S # {}
    PROVE  Max(S) \in S /\ \A m \in S : Max(S) >= m
<1> DEFINE T == {k \in Nat : n - k \in S}
<1>1. T # {}
  <2>1. PICK m \in S : TRUE
    OBVIOUS
  <2>2. n - m \in Nat /\ n - (n - m) = m
    BY m \in 1 .. n
  <2> QED
    BY <2>1, <2>2
<1>2. PICK k \in T : \A j \in T : k <= j
  BY <1>1, MinIsLeast
<1>3. ASSUME NEW m \in S
      PROVE  n - k >= m
  <2>1. m \in 1 .. n /\ n - m \in Nat /\ n - (n - m) = m
    OBVIOUS
  <2>2. k <= n - m
    BY <1>2, <2>1
  <2> QED
    BY <2>1, <2>2
<1>4. n - k \in S
  OBVIOUS
<1> QED
  BY <1>3, <1>4 DEF Max

-----------------------------------------------------------------------------
(* A finite number of positions can be sorted. *)

\* B is a strict total order of the positions up to n.
Orders(n, B) ==
    /\ \A i \in 1 .. n : <<i, i>> \notin B
    /\ \A i, j, k \in 1 .. n : <<i, j>> \in B /\ <<j, k>> \in B => <<i, k>> \in B
    /\ \A i, j \in 1 .. n : i # j => <<i, j>> \in B \/ <<j, i>> \in B

Below(n, B, i) == {j \in 1 .. n : <<j, i>> \in B}

LEMMA BelowGrows ==
    ASSUME NEW n \in Nat, NEW B, Orders(n, B)
    PROVE  /\ \A i \in 1 .. n : Cardinality(Below(n, B, i)) \in 0 .. n - 1
           /\ \A i, j \in 1 .. n : <<i, j>> \in B =>
                  Cardinality(Below(n, B, i)) < Cardinality(Below(n, B, j))
<1>1. IsFiniteSet(1 .. n) /\ Cardinality(1 .. n) = n
  BY FS_Interval
<1>2. ASSUME NEW i \in 1 .. n
      PROVE  /\ IsFiniteSet(Below(n, B, i))
             /\ Cardinality(Below(n, B, i)) \in Nat
             /\ Cardinality(Below(n, B, i)) < n
  <2>1. Below(n, B, i) \in SUBSET (1 .. n) /\ Below(n, B, i) # 1 .. n
    BY DEF Below, Orders
  <2>2. /\ IsFiniteSet(Below(n, B, i))
        /\ Cardinality(Below(n, B, i)) <= n
        /\ Cardinality(Below(n, B, i)) # n
    BY <1>1, <2>1, FS_Subset
  <2>3. Cardinality(Below(n, B, i)) \in Nat
    BY <2>2, FS_CardinalityType
  <2> QED
    BY <2>2, <2>3
<1>3. ASSUME NEW i \in 1 .. n, NEW j \in 1 .. n, <<i, j>> \in B
      PROVE  Cardinality(Below(n, B, i)) < Cardinality(Below(n, B, j))
  <2>1. Below(n, B, i) \in SUBSET Below(n, B, j) /\ Below(n, B, i) # Below(n, B, j)
    BY <1>3 DEF Below, Orders
  <2>2. /\ Cardinality(Below(n, B, i)) <= Cardinality(Below(n, B, j))
        /\ Cardinality(Below(n, B, i)) # Cardinality(Below(n, B, j))
    BY <1>2, <2>1, FS_Subset
  <2> QED
    BY <1>2, <2>2
<1>4. \A i \in 1 .. n : Cardinality(Below(n, B, i)) \in 0 .. n - 1
  <2> TAKE i \in 1 .. n
  <2>1. Cardinality(Below(n, B, i)) \in Nat /\ Cardinality(Below(n, B, i)) < n
    BY <1>2
  <2> QED
    BY <2>1
<1> QED
  BY <1>3, <1>4

\* The positions in the order of B: the inverse of their ranks.
LEMMA SortExists ==
    ASSUME NEW n \in Nat, NEW B, Orders(n, B)
    PROVE  \E p \in [1 .. n -> 1 .. n] :
               \A i, j \in 1 .. n : i < j => <<p[i], p[j]>> \in B
<1> DEFINE D     == 1 .. n
           rank  == [i \in D |-> Cardinality(Below(n, B, i)) + 1]
<1>1. \A i \in D : Cardinality(Below(n, B, i)) + 1 \in D
  BY BelowGrows
<1>2. rank \in [D -> D] /\ \A i \in D : rank[i] = Cardinality(Below(n, B, i)) + 1
  BY <1>1
<1> HIDE DEF rank
<1>3. \A i, j \in D : <<i, j>> \in B => rank[i] < rank[j]
  <2> SUFFICES ASSUME NEW i \in D, NEW j \in D, <<i, j>> \in B PROVE rank[i] < rank[j]
    OBVIOUS
  <2> DEFINE x == Cardinality(Below(n, B, i))
             y == Cardinality(Below(n, B, j))
  <2>1. x \in Int /\ y \in Int /\ x < y /\ rank[i] = x + 1 /\ rank[j] = y + 1
    BY <1>2, BelowGrows
  <2> HIDE DEF x, y
  <2> QED
    BY <2>1
<1>4. ASSUME NEW i \in D, NEW j \in D, rank[i] = rank[j]
      PROVE  i = j
  <2>1. ~(rank[i] < rank[j]) /\ ~(rank[j] < rank[i])
    BY <1>2, <1>4
  <2>2. i # j => <<i, j>> \in B \/ <<j, i>> \in B
    BY DEF Orders
  <2> QED
    BY <1>3, <2>1, <2>2
<1>5. rank \in Injection(D, D)
  BY <1>2, <1>4 DEF Injection, IsInjective
<1>6. rank \in Surjection(D, D)
  BY <1>5, FS_Interval, FS_Injection
<1>7. \A m \in D : \E i \in D : rank[i] = m
  BY <1>6 DEF Surjection
<1> DEFINE p == [m \in D |-> CHOOSE i \in D : rank[i] = m]
<1>8. p \in [D -> D] /\ \A m \in D : rank[p[m]] = m
  BY <1>7
<1> HIDE DEF p
<1>9. ASSUME NEW i \in D, NEW j \in D, i < j
      PROVE  <<p[i], p[j]>> \in B
  <2>1. p[i] \in D /\ p[j] \in D /\ rank[p[i]] = i /\ rank[p[j]] = j
    BY <1>8
  <2>2. <<p[j], p[i]>> \notin B /\ p[i] # p[j]
    BY <1>3, <1>9, <2>1
  <2> QED
    BY <2>1, <2>2 DEF Orders
<1> QED
  BY <1>8, <1>9

-----------------------------------------------------------------------------
(* The registry *)

LEMMA ToolList ==
    ASSUME NEW c \in Configs
    PROVE  /\ Len(c.tools) \in Nat /\ DOMAIN c.tools = 1 .. Len(c.tools)
           /\ \A i \in DOMAIN c.tools :
                 /\ Len(c.tools[i].baseUrl) \in Nat
                 /\ c.tools[i] # None
BY ConfigAssumption DEF IsList

\* The sort has a result, and it is a permutation.
LEMMA Sorted ==
    ASSUME NEW c \in Configs
    PROVE  /\ SortOrder(c) \in [DOMAIN c.tools -> DOMAIN c.tools]
           /\ \A m, n \in DOMAIN c.tools :
                 m < n => SortsBefore(c, SortOrder(c)[m], SortOrder(c)[n])
           /\ \A i \in DOMAIN c.tools : \E m \in DOMAIN c.tools : SortOrder(c)[m] = i
<1> DEFINE n == Len(c.tools)
           D == 1 .. n
           B == {q \in D \X D : SortsBefore(c, q[1], q[2])}
<1>1. /\ n \in Nat /\ DOMAIN c.tools = D
      /\ \A i \in D : Len(c.tools[i].baseUrl) \in Nat
  BY ToolList
<1>2. \A i, j \in D : <<i, j>> \in B <=> SortsBefore(c, i, j)
  OBVIOUS
<1> HIDE DEF n, B
<1>3. Orders(n, B)
  <2>1. \A i \in D : <<i, i>> \notin B
    <3> SUFFICES ASSUME NEW i \in D PROVE ~SortsBefore(c, i, i)
      BY <1>2
    <3> DEFINE l == Len(c.tools[i].baseUrl)
    <3>1. l \in Nat /\ i \in Nat
      BY <1>1
    <3>2. ~(l > l) /\ ~(i < i)
      BY <3>1
    <3> QED
      BY <3>2 DEF SortsBefore
  <2>2. \A i, j, k \in D : <<i, j>> \in B /\ <<j, k>> \in B => <<i, k>> \in B
    <3> SUFFICES ASSUME NEW i \in D, NEW j \in D, NEW k \in D,
                        SortsBefore(c, i, j), SortsBefore(c, j, k)
                 PROVE  SortsBefore(c, i, k)
      BY <1>2
    <3>1. /\ Len(c.tools[i].baseUrl) \in Nat /\ Len(c.tools[j].baseUrl) \in Nat
          /\ Len(c.tools[k].baseUrl) \in Nat
          /\ i \in Int /\ j \in Int /\ k \in Int
      BY <1>1
    <3> DEFINE x == Len(c.tools[i].baseUrl)
               y == Len(c.tools[j].baseUrl)
               z == Len(c.tools[k].baseUrl)
    <3>2. /\ SortsBefore(c, i, j) <=> x > y \/ (x = y /\ i < j)
          /\ SortsBefore(c, j, k) <=> y > z \/ (y = z /\ j < k)
          /\ SortsBefore(c, i, k) <=> x > z \/ (x = z /\ i < k)
      BY DEF SortsBefore
    <3>3. x \in Int /\ y \in Int /\ z \in Int
      BY <3>1
    <3> HIDE DEF x, y, z
    <3>4. x > z \/ (x = z /\ i < k)
      BY <3>1, <3>2, <3>3
    <3> QED
      BY <3>2, <3>4
  <2>3. \A i, j \in D : i # j => <<i, j>> \in B \/ <<j, i>> \in B
    <3> SUFFICES ASSUME NEW i \in D, NEW j \in D, i # j
                 PROVE  SortsBefore(c, i, j) \/ SortsBefore(c, j, i)
      BY <1>2
    <3>1. Len(c.tools[i].baseUrl) \in Nat /\ Len(c.tools[j].baseUrl) \in Nat
      BY <1>1
    <3> QED
      BY <1>1, <3>1 DEF SortsBefore
  <2> QED
    BY <2>1, <2>2, <2>3 DEF Orders
<1>4. \E p \in [D -> D] : \A i, j \in D : i < j => <<p[i], p[j]>> \in B
  BY <1>1, <1>3, SortExists
<1>5. PICK p \in [D -> D] : \A i, j \in D : i < j => SortsBefore(c, p[i], p[j])
  BY <1>2, <1>4
<1>6. /\ SortOrder(c) \in [D -> D]
      /\ \A i, j \in D : i < j => SortsBefore(c, SortOrder(c)[i], SortOrder(c)[j])
  BY <1>1, <1>5 DEF SortOrder
<1>7. ASSUME NEW i \in D, NEW j \in D, SortOrder(c)[i] = SortOrder(c)[j]
      PROVE  i = j
  <2>1. \A k \in D : ~SortsBefore(c, k, k)
    BY <1>1 DEF SortsBefore
  <2>2. SortOrder(c)[i] \in D /\ SortOrder(c)[j] \in D
    BY <1>6
  <2>3. ~(i < j) /\ ~(j < i)
    BY <1>6, <1>7, <2>1, <2>2
  <2> QED
    BY <1>1, <2>3
<1>8. SortOrder(c) \in Injection(D, D)
  BY <1>6, <1>7 DEF Injection, IsInjective
<1>9. SortOrder(c) \in Surjection(D, D)
  BY <1>1, <1>8, FS_Interval, FS_Injection
<1> QED
  BY <1>1, <1>6, <1>9 DEF Surjection

LEMMA LastToolHasKey ==
    ASSUME NEW c \in Configs, NEW k \in ToolKeysOf(c)
    PROVE  \E i \in DOMAIN c.tools : LastTool(c, k) = c.tools[i] /\ c.tools[i].key = k
<1> DEFINE S == {i \in DOMAIN c.tools : c.tools[i].key = k}
<1>1. S # {} /\ S \in SUBSET (1 .. Len(c.tools)) /\ Len(c.tools) \in Nat
  BY ToolList DEF ToolKeysOf
<1>2. Max(S) \in S
  BY <1>1, MaxIsGreatest
<1> QED
  BY <1>2 DEF LastTool

\* What the start of the process leaves in the registry and the vault.
Started ==
    /\ config \in Configs
    /\ chain \in {"hedera", "base", "local"}
    /\ phase \in {"keyed", "serving"} => keys = KeysFromEnv(config, env)
    /\ phase = "serving" =>
           /\ tools = [k \in ToolKeysOf(config) |-> LastTool(config, k)]
           /\ baseUrls = SortedBaseUrls(config)

\* findTool() returns the tool whose base URL is the closest to the target.
LEMMA ClosestTool ==
    ASSUME Started, phase = "serving", NEW target
    PROVE  /\ Fits(target) = {} => FindTool(target) = None
           /\ Fits(target) # {} =>
                 LET i == Min(Longest(target)) IN
                 /\ i \in Longest(target)
                 /\ FindTool(target) = LastTool(config, config.tools[i].key)
<1> DEFINE D     == DOMAIN config.tools
           order == SortOrder(config)
           url(i) == config.tools[i].baseUrl
<1>1. /\ config \in Configs /\ D = 1 .. Len(config.tools) /\ Len(config.tools) \in Nat
      /\ \A i \in D : Len(url(i)) \in Nat
  BY ToolList DEF Started
<1>2. /\ order \in [D -> D]
      /\ \A m, n \in D : m < n => SortsBefore(config, order[m], order[n])
      /\ \A i \in D : \E m \in D : order[m] = i
  BY <1>1, Sorted
<1>3. /\ DOMAIN baseUrls = D
      /\ \A m \in D : /\ baseUrls[m].baseUrl = url(order[m])
                      /\ baseUrls[m].toolKey = config.tools[order[m]].key
  BY DEF Started, SortedBaseUrls
<1> HIDE DEF order
<1>4. Hits(target) = {m \in D : order[m] \in Fits(target)}
  BY <1>2, <1>3 DEF Hits, Fits
<1>5. Fits(target) \in SUBSET D
  BY DEF Fits
<1>6. CASE Fits(target) = {}
  BY <1>4, <1>6 DEF FindTool
<1>7. CASE Fits(target) # {}
  <2>1. Hits(target) # {} /\ Hits(target) \in SUBSET Nat
    BY <1>1, <1>2, <1>4, <1>5, <1>7
  <2> DEFINE m == Min(Hits(target))
             i == order[m]
  <2>2. m \in Hits(target) /\ \A n \in Hits(target) : m <= n
    BY <2>1, MinIsLeast
  <2> HIDE DEF m
  <2>3. m \in D /\ i \in D /\ i \in Fits(target)
    BY <1>2, <1>4, <2>2
  <2> HIDE DEF i
  <2>4. ASSUME NEW j \in Fits(target), j # i
        PROVE  SortsBefore(config, i, j)
    <3>1. PICK n \in D : order[n] = j
      BY <1>2, <1>5
    <3>2. n \in Hits(target) /\ n # m
      BY <1>4, <2>4, <3>1 DEF i
    <3>3. m < n
      BY <1>1, <2>2, <2>3, <3>2
    <3> QED
      BY <1>2, <2>3, <3>1, <3>3 DEF i
  <2>5. i \in Longest(target)
    <3> SUFFICES ASSUME NEW j \in Fits(target) PROVE Len(url(j)) <= Len(url(i))
      BY <2>3 DEF Longest
    <3>1. j \in D /\ Len(url(j)) \in Nat /\ Len(url(i)) \in Nat
      BY <1>1, <1>5, <2>3
    <3> QED
      BY <2>4, <3>1 DEF SortsBefore
  <2>6. ASSUME NEW j \in Longest(target)
        PROVE  i <= j
    <3>1. /\ i \in Nat /\ j \in Nat /\ j \in Fits(target)
          /\ Len(url(j)) = Len(url(i)) /\ Len(url(i)) \in Nat
      BY <1>1, <1>5, <2>3, <2>5 DEF Longest
    <3> QED
      BY <2>4, <3>1 DEF SortsBefore
  <2>7. Longest(target) \in SUBSET Nat /\ Longest(target) # {}
    BY <1>1, <1>5, <2>5 DEF Longest
  <2>8. Min(Longest(target)) = i
    <3>1. /\ Min(Longest(target)) \in Longest(target)
          /\ Min(Longest(target)) <= i
      BY <2>5, <2>7, MinIsLeast
    <3>2. i <= Min(Longest(target))
      BY <2>6, <3>1
    <3> QED
      BY <1>1, <2>3, <2>7, <3>1, <3>2
  <2>9. FindTool(target) = tools[config.tools[i].key]
    BY <1>3, <2>1, <2>3 DEF FindTool, m, i
  <2>10. config.tools[i].key \in ToolKeysOf(config)
    BY <2>3 DEF ToolKeysOf
  <2> QED
    BY <1>7, <2>5, <2>8, <2>9, <2>10 DEF Started
<1> QED
  BY <1>6, <1>7

-----------------------------------------------------------------------------
(* Roles *)

LEMMA RoleList ==
    ASSUME Started
    PROVE  /\ DOMAIN config.roles = 1 .. Len(config.roles) /\ Len(config.roles) \in Nat
           /\ \A i \in DOMAIN config.roles :
                 LET p == config.roles[i].permissions
                 IN  DOMAIN p = 1 .. Len(p) /\ Len(p) \in Nat
BY ConfigAssumption DEF Started, IsList

\* The map of the permissions holds the entry that comes last.
LEMMA MapHoldsAnEntry ==
    ASSUME Started, NEW i \in DOMAIN config.roles,
           NEW t \in DOMAIN PermissionMap(config.roles[i])
    PROVE  \E m \in DOMAIN config.roles[i].permissions :
               /\ config.roles[i].permissions[m].tool = t
               /\ PermissionMap(config.roles[i])[t] = config.roles[i].permissions[m].actions
<1> DEFINE p == config.roles[i].permissions
           S == {m \in DOMAIN p : p[m].tool = t}
<1>1. t \in {p[m].tool : m \in DOMAIN p} /\ PermissionMap(config.roles[i])[t] = p[Max(S)].actions
  BY DEF PermissionMap
<1>2. S # {} /\ S \in SUBSET (1 .. Len(p)) /\ Len(p) \in Nat
  BY <1>1, RoleList
<1>3. Max(S) \in S
  BY <1>2, MaxIsGreatest
<1> QED
  BY <1>1, <1>3

\* An active role has no permissions, or those of a role with the hash that was read.
LEMMA ActiveRole ==
    ASSUME Started, NEW h, RoleRead(h).isActive
    PROVE  \/ RoleRead(h).permissions = << >>
           \/ \E i \in DOMAIN config.roles, padded \in BOOLEAN :
                 /\ h = [id |-> config.roles[i].id, padded |-> padded]
                 /\ RoleRead(h).permissions = PermissionMap(config.roles[i])
<1>1. CASE chain = "hedera"
  <2> DEFINE S == {i \in DOMAIN config.roles : config.roles[i].id \in LongIds
                       \/ h = [id |-> config.roles[i].id, padded |-> TRUE]}
  <2>1. RoleRead(h) =
          IF S = {} THEN WithoutPermissions(h # Zero)
          ELSE IF config.roles[Min(S)].id \in LongIds THEN Unavailable
          ELSE [isActive |-> h # Zero, permissions |-> PermissionMap(config.roles[Min(S)])]
    BY <1>1 DEF RoleRead, HederaRole
  <2>2. S \in SUBSET Nat
    BY RoleList
  <2>3. S # {} => Min(S) \in S
    BY <2>2, MinIsLeast
  <2> DEFINE i == Min(S)
  <2>4. S # {} /\ config.roles[i].id \notin LongIds =>
            i \in DOMAIN config.roles /\ h = [id |-> config.roles[i].id, padded |-> TRUE]
    BY <2>3
  <2> HIDE DEF S, i
  <2>5. CASE S = {}
    BY <2>1, <2>5 DEF WithoutPermissions
  <2>6. CASE S # {} /\ config.roles[i].id \in LongIds
    <3>1. RoleRead(h) = Unavailable
      BY <2>1, <2>6 DEF i
    <3> QED
      BY <3>1 DEF Unavailable
  <2>7. CASE S # {} /\ config.roles[i].id \notin LongIds
    <3>1. RoleRead(h).permissions = PermissionMap(config.roles[i])
      BY <2>1, <2>7 DEF i
    <3> QED
      BY <2>4, <2>7, <3>1
  <2> QED
    BY <2>5, <2>6, <2>7
<1>2. CASE chain = "base"
  <2> DEFINE S == {i \in DOMAIN config.roles :
                       h = [id |-> config.roles[i].id, padded |-> FALSE]}
  <2>1. RoleRead(h) =
          IF S = {} THEN WithoutPermissions(h # Zero)
          ELSE [isActive |-> h # Zero, permissions |-> PermissionMap(config.roles[Min(S)])]
    BY <1>2 DEF RoleRead, EvmRole
  <2>2. S \in SUBSET Nat
    BY RoleList
  <2>3. S # {} => Min(S) \in S
    BY <2>2, MinIsLeast
  <2> DEFINE i == Min(S)
  <2>4. S # {} =>
            i \in DOMAIN config.roles /\ h = [id |-> config.roles[i].id, padded |-> FALSE]
    BY <2>3
  <2> HIDE DEF S, i
  <2>5. CASE S = {}
    BY <2>1, <2>5 DEF WithoutPermissions
  <2>6. CASE S # {}
    <3>1. RoleRead(h).permissions = PermissionMap(config.roles[i])
      BY <2>1, <2>6 DEF i
    <3> QED
      BY <2>4, <2>6, <3>1
  <2> QED
    BY <2>5, <2>6
<1>3. CASE chain = "local"
  BY <1>3 DEF RoleRead, LocalRole, WithoutPermissions
<1> QED
  BY <1>1, <1>2, <1>3 DEF Started

LEMMA ActiveIsGranted ==
    ASSUME Started, NEW a \in Agents, NEW h \in recent[a], RoleRead(h).isActive,
           NEW t \in DOMAIN RoleRead(h).permissions,
           NEW act \in RoleRead(h).permissions[t]
    PROVE  Granted(a, t, act)
<1>1. RoleRead(h).permissions # << >>
  OBVIOUS
<1>2. PICK i \in DOMAIN config.roles, padded \in BOOLEAN :
          /\ h = [id |-> config.roles[i].id, padded |-> padded]
          /\ RoleRead(h).permissions = PermissionMap(config.roles[i])
  BY <1>1, ActiveRole
<1>3. \E m \in DOMAIN config.roles[i].permissions :
          /\ config.roles[i].permissions[m].tool = t
          /\ act \in config.roles[i].permissions[m].actions
  BY <1>2, MapHoldsAnEntry
<1>4. Grants(i, t, act)
  BY <1>3 DEF Grants, ToSet
<1> QED
  BY <1>2, <1>4 DEF Granted

\* A lookup that finds a role, and not an error, finds that of a recent hash.
LEMMA LookupIsRead ==
    ASSUME NEW a \in Agents, NEW role \in Lookups(a), role # Unavailable
    PROVE  \E h \in recent[a] : role = RoleRead(h)
BY DEF Lookups

\* So whatever a lookup permits is granted.
LEMMA LookupIsGranted ==
    ASSUME Started, NEW a \in Agents, NEW role \in Lookups(a), role.isActive,
           NEW t \in DOMAIN role.permissions, NEW act \in role.permissions[t]
    PROVE  Granted(a, t, act)
<1>1. role # Unavailable
  BY DEF Unavailable
<1>2. PICK h \in recent[a] : role = RoleRead(h)
  BY <1>1, LookupIsRead
<1> QED
  BY <1>2, ActiveIsGranted

LEMMA OffersAreGranted ==
    ASSUME Started, NEW a \in Agents, NEW role \in Lookups(a), NEW o \in Offers(role)
    PROVE  /\ o \in [tool : DOMAIN tools, action : Actions]
           /\ Granted(a, o.tool, o.action)
<1>1. role.isActive /\ o \in Offer(role)
  BY DEF Offers
<1>2. PICK k \in DOMAIN role.permissions \intersect DOMAIN tools :
          \E act \in role.permissions[k] : o = [tool |-> k, action |-> act]
  BY <1>1 DEF Offer, OfferOf
<1>3. PICK act \in role.permissions[k] : o = [tool |-> k, action |-> act]
  BY <1>2
<1>4. Granted(a, k, act)
  BY <1>1, <1>2, <1>3, LookupIsGranted
<1>5. act \in Actions
  BY <1>4, PermissionAssumption DEF Granted, Grants, ToSet, Started
<1> QED
  BY <1>2, <1>3, <1>4, <1>5

-----------------------------------------------------------------------------
(* The invariant *)

\* The current hash is one of the recent ones.
RecentInv ==
    /\ recent \in [Agents -> SUBSET (Hash \union {Zero})]
    /\ \A a \in Agents : agentRoles[a] \in recent[a]

\* tools/list offered what it would offer now for a recent hash.
OffersInv ==
    \A a \in Agents : offered[a] # None =>
        /\ phase = "serving"
        /\ \E role \in Lookups(a) : role # Unavailable /\ offered[a] = Offers(role)

\* register-agents.ts registered roles that the Hedera driver can hash.
OwnInv ==
    /\ registered \in Nat
    /\ agentRoles \in [Agents -> Hash \union {Zero}]
    /\ own \in [Agents -> 0 .. registered]
    /\ \A i \in 1 .. registered :
          i \in DOMAIN config.roles /\ config.roles[i].id \notin LongIds
    /\ \A a \in Agents : own[a] # 0 =>
          agentRoles[a] = [id |-> config.roles[own[a]].id, padded |-> TRUE]

\* The answer is one that the same request could get now.
AnswerInv ==
    /\ Answered("forward") =>
          /\ phase = "serving"
          /\ \E a \in Agents, target \in Targets, m \in Methods : \E role \in Lookups(a) :
                 answer = ForwardAnswer(a, target, m, role)
    /\ Answered("list") =>
          /\ answer.agent \in Agents
          /\ \E role \in Lookups(answer.agent) : answer.tools = Offers(role)

AccessInv ==
    /\ Started
    /\ offered = [a \in Agents |-> offered[a]]
    /\ RecentInv /\ OffersInv /\ OwnInv /\ AnswerInv

LEMMA InitAccessInv == Init => AccessInv
<1> SUFFICES ASSUME Init PROVE AccessInv
  OBVIOUS
<1>1. Started
  BY ChainAssumption DEF Init, StartInit, Started
<1>2. OffersInv /\ offered = [a \in Agents |-> offered[a]]
  BY DEF Init, OffersInv
<1>3. OwnInv
  BY DEF Init, OwnInv
<1>4. AnswerInv
  BY DEF Init, AnswerInv, Answered
<1>5. RecentInv
  BY DEF Init, RecentInv
<1> QED
  BY <1>1, <1>2, <1>3, <1>4, <1>5 DEF AccessInv

-----------------------------------------------------------------------------
(* What a step does not change *)

LEMMA SameDrivers ==
    ASSUME config' = config, NEW h
    PROVE  HederaRole(h)' = HederaRole(h) /\ EvmRole(h)' = EvmRole(h)
BY DEF HederaRole, EvmRole

LEMMA SameRole ==
    ASSUME UNCHANGED <<startVars, chain>>
    PROVE  /\ \A h : RoleRead(h)' = RoleRead(h)
           /\ \A role : Offers(role)' = Offers(role)
<1>1. config' = config /\ chain' = chain /\ tools' = tools
  BY DEF startVars
<1>2. ASSUME NEW h PROVE RoleRead(h)' = RoleRead(h)
  BY <1>1, SameDrivers DEF RoleRead
<1>3. ASSUME NEW role PROVE Offers(role)' = Offers(role)
  BY <1>1 DEF Offers, Offer
<1> QED
  BY <1>2, <1>3

\* More recent hashes leave what lookups could find before.
LEMMA SameLookups ==
    ASSUME UNCHANGED <<startVars, chain>>, NEW a \in Agents, recent[a] \subseteq recent'[a]
    PROVE  Lookups(a) \subseteq Lookups(a)'
<1>1. chain' = chain /\ \A h : RoleRead(h)' = RoleRead(h)
  BY SameRole
<1> QED
  BY <1>1 DEF Lookups

LEMMA SameAnswer ==
    ASSUME UNCHANGED startVars, NEW a, NEW target, NEW m, NEW role
    PROVE  ForwardAnswer(a, target, m, role)' = ForwardAnswer(a, target, m, role)
<1>1. FindTool(target)' = FindTool(target)
  BY DEF FindTool, Hits, startVars
<1>2. keys' = keys
  BY DEF startVars
<1> QED
  BY <1>1, <1>2 DEF ForwardAnswer, Verdict, Inject

\* The offers of an agent whose recent hashes are only added to still stand.
LEMMA SameOffer ==
    ASSUME AccessInv, UNCHANGED <<startVars, chain>>, NEW a \in Agents, offered[a] # None,
           offered'[a] = offered[a], recent[a] \subseteq recent'[a]
    PROVE  /\ phase' = "serving"
           /\ \E role \in Lookups(a)' : role # Unavailable /\ offered'[a] = Offers(role)'
<1>1. PICK role \in Lookups(a) : role # Unavailable /\ offered[a] = Offers(role)
  BY DEF AccessInv, OffersInv
<1>2. phase = "serving" /\ phase' = phase
  BY DEF AccessInv, OffersInv, startVars
<1>3. role \in Lookups(a)' /\ Offers(role)' = Offers(role)
  BY SameLookups, SameRole
<1> QED
  BY <1>1, <1>2, <1>3

-----------------------------------------------------------------------------
(* The invariant is inductive. *)

LEMMA StartStep == ASSUME AccessInv, Starts PROVE AccessInv'
<1>1. phase # "serving" /\ answer' = None
      /\ UNCHANGED <<chain, agentRoles, recent, registered, own, offered, config, env>>
  BY DEF Starts, Start, LoadConfig, LoadKeys, CreateServer
<1>2. Started'
  <2>1. KeysFromEnv(config, env)' = KeysFromEnv(config, env)
    BY <1>1 DEF KeysFromEnv, ToolKeysOf, LastTool
  <2>2. SortedBaseUrls(config)' = SortedBaseUrls(config)
        /\ [k \in ToolKeysOf(config) |-> LastTool(config, k)]'
               = [k \in ToolKeysOf(config) |-> LastTool(config, k)]
    BY <1>1
  <2>3. CASE LoadConfig
    BY <1>1, <2>3 DEF AccessInv, Started, LoadConfig
  <2>4. CASE LoadKeys
    BY <1>1, <2>1, <2>4 DEF AccessInv, Started, LoadKeys
  <2>5. CASE CreateServer
    BY <1>1, <2>1, <2>2, <2>5 DEF AccessInv, Started, CreateServer
  <2> QED
    BY <2>3, <2>4, <2>5 DEF Starts, Start
<1>3. OffersInv'
  BY <1>1 DEF AccessInv, OffersInv
<1>4. OwnInv'
  BY <1>1 DEF AccessInv, OwnInv
<1>5. AnswerInv'
  BY <1>1 DEF AnswerInv, Answered
<1>6. RecentInv'
  BY <1>1 DEF AccessInv, RecentInv
<1> QED
  BY <1>1, <1>2, <1>3, <1>4, <1>5, <1>6 DEF AccessInv

\* The contract changes: by its owner (i = 0), or by register-agents.ts.
LEMMA ContractStep ==
    ASSUME AccessInv, NEW a \in Agents, NEW h \in Hash \union {Zero}, NEW i \in Nat,
           Changed(a, h, i),
           \/ i = 0 /\ registered' = registered
           \/ /\ i = registered + 1 /\ registered' = i
              /\ i \in DOMAIN config.roles /\ config.roles[i].id \notin LongIds
              /\ h = [id |-> config.roles[i].id, padded |-> TRUE]
    PROVE  AccessInv'
<1>1. /\ UNCHANGED <<startVars, chain>> /\ answer' = None
      /\ agentRoles' = [agentRoles EXCEPT ![a] = h]
      /\ recent' = [recent EXCEPT ![a] = @ \union {h}]
      /\ own' = [own EXCEPT ![a] = i]
      /\ offered' = [offered EXCEPT ![a] = None]
      /\ config' = config
  BY DEF Changed, startVars
<1>2. Started'
  BY <1>1 DEF AccessInv, Started, startVars
<1>3. offered' = [b \in Agents |-> offered'[b]]
  BY <1>1 DEF AccessInv
<1>4. OffersInv'
  <2> SUFFICES ASSUME NEW b \in Agents, offered'[b] # None
               PROVE  /\ phase' = "serving"
                      /\ \E role \in Lookups(b)' :
                             role # Unavailable /\ offered'[b] = Offers(role)'
    BY DEF OffersInv
  <2>1. b # a
    BY <1>1 DEF AccessInv
  <2>2. offered'[b] = offered[b] /\ recent'[b] = recent[b]
    BY <1>1, <2>1 DEF AccessInv, RecentInv
  <2> QED
    BY <1>1, <2>2, SameOffer
<1>5. OwnInv'
  <2>1. /\ registered \in Nat /\ registered' \in Nat /\ registered <= registered'
        /\ i \in 0 .. registered'
    BY DEF AccessInv, OwnInv
  <2>2. agentRoles' \in [Agents -> Hash \union {Zero}]
    BY <1>1 DEF AccessInv, OwnInv
  <2>3. own' \in [Agents -> 0 .. registered']
    <3>1. 0 .. registered \subseteq 0 .. registered'
      BY <2>1
    <3> QED
      BY <1>1, <2>1, <3>1 DEF AccessInv, OwnInv
  <2>4. \A j \in 1 .. registered' :
            j \in DOMAIN config'.roles /\ config'.roles[j].id \notin LongIds
    <3> SUFFICES ASSUME NEW j \in 1 .. registered'
                 PROVE  j \in DOMAIN config.roles /\ config.roles[j].id \notin LongIds
      BY <1>1
    <3>1. j \in 1 .. registered \/ (j = registered + 1 /\ i = j)
      BY <2>1
    <3> QED
      BY <3>1 DEF AccessInv, OwnInv
  <2>5. ASSUME NEW b \in Agents, own'[b] # 0
        PROVE  agentRoles'[b] = [id |-> config'.roles[own'[b]].id, padded |-> TRUE]
    <3>1. CASE b = a
      BY <1>1, <2>5, <3>1 DEF AccessInv, OwnInv
    <3>2. CASE b # a
      BY <1>1, <2>5, <3>2 DEF AccessInv, OwnInv
    <3> QED
      BY <3>1, <3>2
  <2> QED
    BY <2>1, <2>2, <2>3, <2>4, <2>5 DEF OwnInv
<1>6. AnswerInv'
  BY <1>1 DEF AnswerInv, Answered
<1>7. RecentInv'
  BY <1>1 DEF AccessInv, RecentInv, OwnInv
<1> QED
  BY <1>2, <1>3, <1>4, <1>5, <1>6, <1>7 DEF AccessInv

\* Only the current hash is left.
LEMMA ForgetsStep == ASSUME AccessInv, NEW a \in Agents, Forgets(a) PROVE AccessInv'
<1>1. /\ UNCHANGED <<startVars, chain, agentRoles, registered, own>> /\ answer' = None
      /\ recent' = [recent EXCEPT ![a] = {agentRoles[a]}]
      /\ offered' = [offered EXCEPT ![a] = None]
  BY DEF Forgets
<1>2. Started' /\ OwnInv'
  BY <1>1 DEF AccessInv, Started, OwnInv, startVars
<1>3. offered' = [b \in Agents |-> offered'[b]]
  BY <1>1 DEF AccessInv
<1>4. OffersInv'
  <2> SUFFICES ASSUME NEW b \in Agents, offered'[b] # None
               PROVE  /\ phase' = "serving"
                      /\ \E role \in Lookups(b)' :
                             role # Unavailable /\ offered'[b] = Offers(role)'
    BY DEF OffersInv
  <2>1. b # a
    BY <1>1 DEF AccessInv
  <2>2. offered'[b] = offered[b] /\ recent'[b] = recent[b]
    BY <1>1, <2>1 DEF AccessInv, RecentInv
  <2> QED
    BY <1>1, <2>2, SameOffer
<1>5. RecentInv'
  BY <1>1 DEF AccessInv, RecentInv, OwnInv
<1>6. AnswerInv'
  BY <1>1 DEF AnswerInv, Answered
<1> QED
  BY <1>2, <1>3, <1>4, <1>5, <1>6 DEF AccessInv

LEMMA RegisterStep == ASSUME AccessInv, RegisterNext PROVE AccessInv'
<1> DEFINE i == registered + 1
           h == [id |-> config.roles[i].id, padded |-> TRUE]
<1>1. /\ i \in Nat /\ i <= Len(Accounts) /\ i <= Len(config.roles)
      /\ config.roles[i].id \notin LongIds /\ registered' = i
      /\ Changed(Accounts[i], h, i)
  BY DEF RegisterNext, AccessInv, OwnInv
<1>2. i \in 1 .. Len(Accounts) /\ i \in DOMAIN config.roles /\ config \in Configs
  BY <1>1, AccountAssumption, RoleList DEF AccessInv, OwnInv, Started
<1>3. Accounts[i] \in Agents
  BY <1>2, AccountAssumption
<1>4. h \in Hash
  BY <1>2 DEF Hash, RoleIds
<1> HIDE DEF h
<1> QED
  BY <1>1, <1>2, <1>3, <1>4, ContractStep DEF h

\* A step that reads only.
LEMMA ReadStep ==
    ASSUME AccessInv, UNCHANGED <<startVars, chain, agentRoles, recent, registered, own>>
    PROVE  /\ Started' /\ OwnInv' /\ RecentInv'
           /\ \A a \in Agents : Lookups(a) \subseteq Lookups(a)'
<1>1. Started'
  BY DEF AccessInv, Started, startVars
<1>2. OwnInv'
  BY DEF AccessInv, OwnInv, startVars
<1>3. RecentInv'
  BY DEF AccessInv, RecentInv
<1> QED
  BY <1>1, <1>2, <1>3, SameLookups

LEMMA ListStep == ASSUME AccessInv, NEW a \in Agents, ToolsList(a) PROVE AccessInv'
<1>1. PICK role \in Lookups(a) :
          /\ offered' = [offered EXCEPT ![a] = IF role = Unavailable THEN @ ELSE Offers(role)]
          /\ answer' = [kind |-> "list", agent |-> a, status |-> 200, tools |-> Offers(role)]
  BY DEF ToolsList
<1>2. /\ UNCHANGED <<startVars, chain, agentRoles, recent, registered, own>>
      /\ phase = "serving" /\ phase' = phase
  BY DEF ToolsList, startVars
<1>3. Started' /\ OwnInv' /\ RecentInv' /\ \A b \in Agents : Lookups(b) \subseteq Lookups(b)'
  BY <1>2, ReadStep
<1>4. \A r : Offers(r)' = Offers(r)
  BY <1>2, SameRole
<1>5. offered' = [b \in Agents |-> offered'[b]]
  BY <1>1 DEF AccessInv
<1>6. OffersInv'
  <2> SUFFICES ASSUME NEW b \in Agents, offered'[b] # None
               PROVE  /\ phase' = "serving"
                      /\ \E r \in Lookups(b)' : r # Unavailable /\ offered'[b] = Offers(r)'
    BY DEF OffersInv
  <2>1. CASE b = a /\ role # Unavailable
    <3>1. offered'[b] = Offers(role)
      BY <1>1, <2>1 DEF AccessInv
    <3> QED
      BY <1>2, <1>3, <1>4, <2>1, <3>1
  <2>2. CASE b # a \/ role = Unavailable
    <3>1. offered'[b] = offered[b] /\ recent'[b] = recent[b]
      BY <1>1, <1>2, <2>2 DEF AccessInv
    <3> QED
      BY <1>2, <3>1, SameOffer
  <2> QED
    BY <2>1, <2>2
<1>7. AnswerInv'
  <2>1. answer'.kind = "list" /\ answer'.agent = a /\ answer'.tools = Offers(role)'
    BY <1>1, <1>4
  <2>2. role \in Lookups(a)'
    BY <1>3
  <2> QED
    BY <2>1, <2>2 DEF AnswerInv, Answered
<1> QED
  BY <1>3, <1>5, <1>6, <1>7 DEF AccessInv

LEMMA OtherStep ==
    ASSUME AccessInv, UNCHANGED <<startVars, chain, agentRoles, recent, registered, own, offered>>,
           \/ answer' = answer
           \/ ~Answered("forward")' /\ ~Answered("list")'
           \/ /\ phase = "serving" /\ ~Answered("list")'
              /\ \E a \in Agents, target \in Targets, m \in Methods : \E role \in Lookups(a) :
                    answer' = ForwardAnswer(a, target, m, role)
    PROVE  AccessInv'
<1>1. Started' /\ OwnInv' /\ RecentInv' /\ \A b \in Agents : Lookups(b) \subseteq Lookups(b)'
  BY ReadStep
<1>2. OffersInv'
  BY SameOffer DEF OffersInv
<1>3. offered' = [b \in Agents |-> offered'[b]]
  BY DEF AccessInv
<1>4. ASSUME Answered("forward")'
      PROVE  /\ phase' = "serving"
             /\ \E a \in Agents, target \in Targets, m \in Methods : \E role \in Lookups(a)' :
                    answer' = ForwardAnswer(a, target, m, role)'
  <2>1. /\ phase = "serving"
        /\ \E a \in Agents, target \in Targets, m \in Methods : \E role \in Lookups(a) :
              answer' = ForwardAnswer(a, target, m, role)
    <3>1. CASE answer' = answer
      BY <1>4, <3>1 DEF AccessInv, AnswerInv, Answered
    <3> QED
      BY <1>4, <3>1
  <2>2. phase' = phase
    BY DEF startVars
  <2>3. PICK a \in Agents, target \in Targets, m \in Methods : \E role \in Lookups(a) :
              answer' = ForwardAnswer(a, target, m, role)
    BY <2>1
  <2>4. PICK role \in Lookups(a) : answer' = ForwardAnswer(a, target, m, role)
    BY <2>3
  <2>5. ForwardAnswer(a, target, m, role)' = ForwardAnswer(a, target, m, role)
    BY SameAnswer
  <2> QED
    BY <1>1, <2>1, <2>2, <2>4, <2>5
<1>5. ASSUME Answered("list")'
      PROVE  /\ answer'.agent \in Agents
             /\ \E role \in Lookups(answer.agent)' : answer'.tools = Offers(role)'
  <2>1. answer' = answer /\ Answered("list")
    BY <1>5 DEF Answered
  <2>2. PICK role \in Lookups(answer.agent) : answer.tools = Offers(role)
    BY <2>1 DEF AccessInv, AnswerInv
  <2>3. answer.agent \in Agents
    BY <2>1 DEF AccessInv, AnswerInv
  <2>4. Offers(role)' = Offers(role)
    BY SameRole
  <2> QED
    BY <1>1, <2>1, <2>2, <2>3, <2>4
<1>6. AnswerInv'
  BY <1>4, <1>5 DEF AnswerInv
<1> QED
  BY <1>1, <1>2, <1>3, <1>6 DEF AccessInv

LEMMA NextAccessInv == ASSUME AccessInv, [Next]_vars PROVE AccessInv'
<1>1. CASE Starts
  BY <1>1, StartStep
<1>2. ASSUME NEW a \in Agents, NEW h \in Foreign, SetAgentRole(a, h)
      PROVE  AccessInv'
  BY <1>2, ContractStep, HashAssumption DEF SetAgentRole
<1>3. ASSUME NEW a \in Agents, EmergencyRevoke(a)
      PROVE  AccessInv'
  BY <1>3, ContractStep DEF EmergencyRevoke
<1>4. CASE RegisterNext
  BY <1>4, RegisterStep
<1>5. CASE \E a \in Agents : ToolsList(a)
  BY <1>5, ListStep
<1>6. ASSUME NEW a \in Agents, NEW target \in Targets, NEW m \in Methods,
             Forward(a, target, m)
      PROVE  AccessInv'
  <2>1. /\ UNCHANGED <<startVars, chain, agentRoles, recent, registered, own, offered>>
        /\ phase = "serving"
        /\ \E role \in Lookups(a) : answer' = ForwardAnswer(a, target, m, role)
    BY <1>6 DEF Forward
  <2>2. ~Answered("list")'
    BY <2>1 DEF Answered, ForwardAnswer
  <2> QED
    BY <2>1, <2>2, OtherStep
<1>7. CASE \/ \E k \in ToolKeysOf(config) \union {<<"nosuchtool">>, None} : ToolsDescribe(k)
           \/ RpcMalformed
           \/ UNCHANGED vars
  <2>1. UNCHANGED <<startVars, chain, agentRoles, recent, registered, own, offered>>
    BY <1>7 DEF ToolsDescribe, RpcMalformed, vars
  <2>2. answer' = answer \/ (~Answered("forward")' /\ ~Answered("list")')
    BY <1>7 DEF ToolsDescribe, RpcMalformed, vars, Answered
  <2> QED
    BY <2>1, <2>2, OtherStep
<1>8. CASE \E a \in Agents : Forgets(a)
  BY <1>8, ForgetsStep
<1> QED
  BY <1>1, <1>2, <1>3, <1>4, <1>5, <1>6, <1>7, <1>8 DEF Next

LEMMA SpecAccessInv == Spec => []AccessInv
BY InitAccessInv, NextAccessInv, PTL DEF Spec

-----------------------------------------------------------------------------
(* What an answer to a request says *)

LEMMA AnswerParts ==
    ASSUME AccessInv, Answered("forward")
    PROVE  /\ Started /\ phase = "serving"
           /\ answer.agent \in Agents /\ answer.target \in Targets
           /\ FindTool(answer.target) = None =>
                 answer.tool = None /\ answer.verdict = "unknownTool"
           /\ FindTool(answer.target) # None =>
                 LET tool == FindTool(answer.target) IN
                 /\ answer.tool = tool.key
                 /\ \E role \in Lookups(answer.agent) :
                        answer.verdict = Verdict(role, tool.key, answer.action)
                 /\ answer.verdict = "permits" => answer.key = Inject(tool.key)
<1>1. PICK a \in Agents, target \in Targets, m \in Methods : \E role \in Lookups(a) :
          answer = ForwardAnswer(a, target, m, role)
  BY DEF AccessInv, AnswerInv
<1>2. PICK role \in Lookups(a) : answer = ForwardAnswer(a, target, m, role)
  BY <1>1
<1>3. answer.agent = a /\ answer.target = target /\ answer.action = InferAction(m)
  BY <1>2 DEF ForwardAnswer
<1>4. phase = "serving" /\ Started
  BY DEF AccessInv, AnswerInv
<1>5. CASE FindTool(target) = None
  BY <1>2, <1>3, <1>4, <1>5 DEF ForwardAnswer
<1>6. CASE FindTool(target) # None
  <2>1. /\ answer.tool = FindTool(target).key
        /\ answer.verdict = Verdict(role, FindTool(target).key, answer.action)
        /\ answer.verdict = "permits" => answer.key = Inject(FindTool(target).key)
    BY <1>2, <1>3, <1>6 DEF ForwardAnswer
  <2> QED
    BY <1>3, <1>4, <1>6, <2>1
<1> QED
  BY <1>5, <1>6

LEMMA VerdictIs ==
    ASSUME NEW role, NEW tool, NEW action
    PROVE  Verdict(role, tool, action) = "permits" <=>
              /\ role # Unavailable /\ role.isActive
              /\ tool \in DOMAIN role.permissions /\ action \in role.permissions[tool]
BY DEF Verdict

\* The tool that a request is for.
LEMMA ToolOfAnswer ==
    ASSUME AccessInv, Answered("forward")
    PROVE  /\ FindTool(answer.target) = None <=> Fits(answer.target) = {}
           /\ FindTool(answer.target) # None =>
                 LET i == Min(Longest(answer.target)) IN
                 /\ i \in Longest(answer.target) /\ i \in DOMAIN config.tools
                 /\ answer.tool = config.tools[i].key
                 /\ answer.tool \in DOMAIN tools
                 /\ FindTool(answer.target) = tools[answer.tool]
                 /\ tools[answer.tool].key = answer.tool
<1> DEFINE target == answer.target
           i == Min(Longest(target))
<1>1. Started /\ phase = "serving" /\ config \in Configs
  BY AnswerParts DEF Started
<1>2. CASE Fits(target) = {}
  BY <1>1, <1>2, ClosestTool
<1>3. CASE Fits(target) # {}
  <2>1. i \in Longest(target) /\ FindTool(target) = LastTool(config, config.tools[i].key)
    BY <1>1, <1>3, ClosestTool
  <2>2. i \in DOMAIN config.tools
    BY <2>1 DEF Longest, Fits
  <2> HIDE DEF i
  <2> DEFINE k == config.tools[i].key
  <2>3. k \in ToolKeysOf(config)
    BY <2>2 DEF ToolKeysOf
  <2>4. PICK j \in DOMAIN config.tools : LastTool(config, k) = config.tools[j]
                                        /\ config.tools[j].key = k
    BY <1>1, <2>3, LastToolHasKey
  <2>5. FindTool(target) # None /\ FindTool(target).key = k
    BY <1>1, <2>1, <2>4, ToolList
  <2>6. answer.tool = k
    BY <2>5, AnswerParts
  <2>7. k \in DOMAIN tools /\ tools[k] = LastTool(config, k)
    BY <1>1, <2>3 DEF Started
  <2> QED
    BY <1>3, <2>1, <2>2, <2>4, <2>5, <2>6, <2>7 DEF i
<1> QED
  BY <1>2, <1>3

-----------------------------------------------------------------------------
(* Types *)

\* The types that are inductive by themselves.
TypesInv ==
    /\ phase \in {"starting", "configured", "keyed", "serving", "exited"}
    /\ env \in Envs /\ chain \in Chains
    /\ registered \in 0 .. Len(Accounts)
    /\ DOMAIN keys \subseteq ToolKeysOf(config)
    /\ \A k \in DOMAIN keys : keys[k] \in Secrets
    /\ DOMAIN tools \subseteq ToolKeysOf(config)

LEMMA KeysAreSecrets ==
    ASSUME config \in Configs, env \in Envs,
           \A i \in DOMAIN config.tools : env[config.tools[i].keyRef] \notin {Unset, Empty},
           NEW k \in ToolKeysOf(config)
    PROVE  KeysFromEnv(config, env)[k] \in Secrets
<1>1. PICK i \in DOMAIN config.tools : LastTool(config, k) = config.tools[i]
  BY LastToolHasKey
<1>2. KeysFromEnv(config, env)[k] = env[config.tools[i].keyRef]
  BY <1>1 DEF KeysFromEnv
<1>3. config.tools[i].keyRef \in DOMAIN env
  BY ConfigAssumption
<1>4. env[config.tools[i].keyRef] \in UNION {{e[n] : n \in DOMAIN e} : e \in Envs}
  BY <1>3
<1> QED
  BY <1>2, <1>4 DEF Secrets

LEMMA NextTypes == ASSUME AccessInv, TypesInv, [Next]_vars PROVE TypesInv'
<1>1. CASE Starts
  <2>1. UNCHANGED <<config, env, chain, registered>> /\ config \in Configs
    BY <1>1 DEF Starts, Start, LoadConfig, LoadKeys, CreateServer, AccessInv, Started
  <2>2. CASE LoadConfig \/ CreateServer
    <3>1. /\ keys' = keys
          /\ phase' \in {"configured", "serving", "exited"}
          /\ tools' = tools \/ tools' = [k \in ToolKeysOf(config) |-> LastTool(config, k)]
      BY <2>2 DEF LoadConfig, CreateServer
    <3>2. DOMAIN tools' \subseteq ToolKeysOf(config)
      BY <3>1 DEF TypesInv
    <3> QED
      BY <2>1, <3>1, <3>2 DEF TypesInv, ToolKeysOf
  <2>3. CASE LoadKeys
    <3>1. CASE keys' = keys
      BY <2>1, <2>3, <3>1 DEF LoadKeys, TypesInv, ToolKeysOf
    <3>2. CASE keys' # keys
      <4>1. /\ phase' = "keyed" /\ keys' = KeysFromEnv(config, env)
            /\ \A i \in DOMAIN config.tools : env[config.tools[i].keyRef] \notin {Unset, Empty}
        BY <2>3, <3>2 DEF LoadKeys
      <4>2. DOMAIN keys' = ToolKeysOf(config)
        BY <4>1 DEF KeysFromEnv
      <4>3. \A k \in DOMAIN keys' : keys'[k] \in Secrets
        BY <2>1, <4>1, <4>2, KeysAreSecrets DEF TypesInv
      <4>4. tools' = tools
        BY <2>3 DEF LoadKeys
      <4> QED
        BY <2>1, <4>1, <4>2, <4>3, <4>4 DEF TypesInv, ToolKeysOf
    <3> QED
      BY <3>1, <3>2
  <2> QED
    BY <1>1, <2>2, <2>3 DEF Starts, Start
<1>2. CASE RegisterNext
  <2>1. /\ registered' = registered + 1 /\ registered' <= Len(Accounts)
        /\ UNCHANGED <<startVars, chain>> /\ registered \in Nat
    BY <1>2 DEF RegisterNext, Changed, AccessInv, OwnInv
  <2> QED
    BY <2>1, AccountAssumption DEF TypesInv, startVars, ToolKeysOf
<1>3. CASE ~Starts /\ ~RegisterNext
  <2>1. UNCHANGED <<startVars, chain, registered>>
    BY <1>3 DEF Next, SetAgentRole, EmergencyRevoke, Changed, Forgets, ToolsList, Forward,
                ToolsDescribe, RpcMalformed, vars
  <2> QED
    BY <2>1 DEF TypesInv, startVars, ToolKeysOf
<1> QED
  BY <1>1, <1>2, <1>3

(* The registry, the vault, the contract and the offers keep their types; keys  *)
(* are values of the environment, never missing or empty.                       *)
THEOREM TypeCorrect == Spec => []TypeOK
<1>1. Init => TypesInv
  BY AccountAssumption DEF Init, StartInit, TypesInv
<1>2. ASSUME AccessInv, TypesInv
      PROVE  TypeOK
  <2>1. registered \in Nat /\ own \in [Agents -> 0 .. registered]
        /\ registered <= Len(Accounts) /\ Len(Accounts) \in Nat
    BY <1>2, AccountAssumption DEF AccessInv, OwnInv, TypesInv
  <2>2. 0 .. registered \subseteq 0 .. Len(Accounts)
    BY <2>1
  <2>3. own \in [Agents -> 0 .. Len(Accounts)]
    BY <2>1, <2>2
  <2>5. ASSUME NEW a \in Agents, offered[a] # None, NEW o \in offered[a]
        PROVE  o \in [tool : DOMAIN tools, action : Actions]
    <3>1. PICK role \in Lookups(a) : o \in Offers(role)
      BY <1>2, <2>5 DEF AccessInv, OffersInv
    <3>2. Started
      BY <1>2 DEF AccessInv
    <3> QED
      BY <3>1, <3>2, OffersAreGranted
  <2> QED
    BY <1>2, <2>3, <2>5 DEF AccessInv, Started, RecentInv, OwnInv, TypesInv, TypeOK
<1> QED
  BY SpecAccessInv, NextTypes, <1>1, <1>2, PTL DEF Spec

-----------------------------------------------------------------------------

(* For every order of the tools, with equal base URLs and equal keys among      *)
(* them, a target goes to the first tool with the longest base URL.             *)
THEOREM LongestWins == Spec => []LongestPrefixWins
<1>1. AccessInv => LongestPrefixWins
  BY ToolOfAnswer, AnswerParts DEF LongestPrefixWins
<1> QED
  BY SpecAccessInv, <1>1, PTL

(* Whatever the environment, a process that serves has every key it needs, and  *)
(* none of them is empty.                                                       *)
THEOREM AllKeysLoaded == Spec => []ServingHasKeys
<1>1. ASSUME AccessInv, TypeOK
      PROVE  ServingHasKeys
  <2>1. ASSUME phase = "serving", NEW k \in ToolKeysOf(config)
        PROVE  k \in DOMAIN keys
    BY <1>1, <2>1 DEF AccessInv, Started, KeysFromEnv
  <2>2. \A k \in DOMAIN keys : keys[k] \notin {Unset, Empty}
    BY <1>1 DEF TypeOK, Secrets
  <2> QED
    BY <2>1, <2>2 DEF ServingHasKeys
<1> QED
  BY SpecAccessInv, TypeCorrect, <1>1, PTL

(* Through the vault's handle, a tool without a colon in its key gets the key   *)
(* that its configuration names.                                                *)
THEOREM OwnKey == Spec => []KeyIsTheToolsOwn
<1>1. ASSUME AccessInv, Answered("forward"), answer.verdict = "permits", Len(answer.tool) = 1
      PROVE  answer.key = env[tools[answer.tool].keyRef]
  <2> DEFINE k == answer.tool
  <2>1. Started /\ phase = "serving" /\ config \in Configs
    BY <1>1, AnswerParts DEF Started
  <2>2. FindTool(answer.target) # None
    BY <1>1, AnswerParts
  <2>3. /\ k \in DOMAIN tools /\ tools[k].key = k
        /\ FindTool(answer.target) = tools[k]
    BY <1>1, <2>2, ToolOfAnswer
  <2>4. answer.key = Inject(k)
    BY <1>1, <2>2, <2>3, AnswerParts
  <2>5. k \in ToolKeysOf(config) /\ k \in Seq(ToSet(k))
    BY <2>1, <2>3, ConfigAssumption DEF Started, ToolKeysOf, IsList
  <2>6. (<<"vault">> \o k)[2] = k[1]
    <3>1. <<"vault">> \in Seq({"vault"} \union ToSet(k)) /\ k \in Seq({"vault"} \union ToSet(k))
      BY <2>5
    <3> QED
      BY <1>1, <3>1
  <2>7. <<k[1]>> = k
    BY <1>1, <2>5
  <2>8. answer.key = keys[k]
    BY <2>1, <2>4, <2>5, <2>6, <2>7 DEF Inject, Started, KeysFromEnv
  <2> QED
    BY <2>1, <2>5, <2>8 DEF Started, KeysFromEnv
<1> QED
  BY SpecAccessInv, <1>1, PTL DEF KeyIsTheToolsOwn

(* Nothing is offered or permitted that the contract, now or within the cache's *)
(* bound, and the configuration do not grant, on every chain, with any hash on  *)
(* the contract and whichever lookups fail.                                     *)
THEOREM ContractDecides == Spec => []AccessFollowsTheContract
<1>1. ASSUME AccessInv, NEW a \in Agents, offered[a] # None, NEW o \in offered[a]
      PROVE  Granted(a, o.tool, o.action)
  <2>1. PICK role \in Lookups(a) : o \in Offers(role)
    BY <1>1 DEF AccessInv, OffersInv
  <2>2. Started
    BY <1>1 DEF AccessInv
  <2> QED
    BY <2>1, <2>2, OffersAreGranted
<1>2. ASSUME AccessInv, Answered("list"), NEW o \in answer.tools
      PROVE  Granted(answer.agent, o.tool, o.action)
  <2>1. answer.agent \in Agents /\ Started
    BY <1>2 DEF AccessInv, AnswerInv
  <2>2. PICK role \in Lookups(answer.agent) : o \in Offers(role)
    BY <1>2 DEF AccessInv, AnswerInv
  <2> QED
    BY <2>1, <2>2, OffersAreGranted
<1>3. ASSUME AccessInv, Answered("forward"), answer.verdict = "permits"
      PROVE  Granted(answer.agent, answer.tool, answer.action)
  <2>1. Started /\ answer.agent \in Agents /\ FindTool(answer.target) # None
    BY <1>3, AnswerParts
  <2>2. PICK role \in Lookups(answer.agent) :
            Verdict(role, answer.tool, answer.action) = "permits"
    BY <1>3, <2>1, AnswerParts
  <2>3. /\ role.isActive /\ answer.tool \in DOMAIN role.permissions
        /\ answer.action \in role.permissions[answer.tool]
    BY <2>2, VerdictIs
  <2> QED
    BY <2>1, <2>3, LookupIsGranted
<1>4. AccessInv => AccessFollowsTheContract
  BY <1>1, <1>2, <1>3 DEF AccessFollowsTheContract
<1> QED
  BY SpecAccessInv, <1>4, PTL

\* A prefix that is not shorter is the whole.
LEMMA WholePrefix ==
    ASSUME NEW S, NEW s \in Seq(S), NEW T, NEW t \in Seq(T), IsPrefix(s, t), Len(t) <= Len(s)
    PROVE  s = t
<1>1. Len(s) = Len(t) /\ SubSeq(s, 1, Len(s)) = SubSeq(t, 1, Len(t))
  BY DEF IsPrefix
<1>2. SubSeq(s, 1, Len(s)) = s /\ SubSeq(t, 1, Len(t)) = t
  OBVIOUS
<1> QED
  BY <1>1, <1>2

\* While only the current hash is recent, a lookup that succeeds finds its role.
LEMMA SettledLookup ==
    ASSUME NEW a \in Agents, Settled(a), NEW role \in Lookups(a), role # Unavailable
    PROVE  role = RoleRead(agentRoles[a])
BY LookupIsRead DEF Settled

\* So the decision on a request of the agent is by that role, or there is none.
LEMMA SettledVerdict ==
    ASSUME AccessInv, Answered("forward"), Settled(answer.agent), answer.tool # None,
           answer.verdict # "unavailable"
    PROVE  /\ RoleRead(agentRoles[answer.agent]) # Unavailable
           /\ answer.verdict
                 = Verdict(RoleRead(agentRoles[answer.agent]), answer.tool, answer.action)
<1>1. answer.agent \in Agents /\ FindTool(answer.target) # None
  BY AnswerParts
<1>2. PICK role \in Lookups(answer.agent) :
          answer.verdict = Verdict(role, answer.tool, answer.action)
  BY <1>1, AnswerParts
<1>3. role # Unavailable
  BY <1>2 DEF Verdict
<1> QED
  BY <1>1, <1>2, <1>3, SettledLookup

(* While its current role is the only one that a lookup finds, an agent whose   *)
(* tools/list found that role is permitted exactly what it was offered, unless  *)
(* the lookup of the request fails.                                             *)
THEOREM DiscoveryIsAccess == Spec => []OffersAreKept
<1>1. ASSUME AccessInv, Answered("forward"), Settled(answer.agent),
             offered[answer.agent] # None, answer.tool # None, answer.verdict # "unavailable"
      PROVE  answer.verdict = "permits" <=>
                 [tool |-> answer.tool, action |-> answer.action] \in offered[answer.agent]
  <2> DEFINE role == RoleRead(agentRoles[answer.agent])
             request == [tool |-> answer.tool, action |-> answer.action]
  <2>1. /\ answer.agent \in Agents /\ Started
        /\ FindTool(answer.target) # None
    BY <1>1, AnswerParts
  <2>2. /\ answer.tool \in DOMAIN tools
        /\ answer.verdict = Verdict(role, answer.tool, answer.action)
    BY <1>1, <2>1, ToolOfAnswer, SettledVerdict
  <2>3. offered[answer.agent] = IF role.isActive THEN Offer(role) ELSE {}
    <3>1. PICK r \in Lookups(answer.agent) :
              r # Unavailable /\ offered[answer.agent] = Offers(r)
      BY <1>1, <2>1 DEF AccessInv, OffersInv
    <3>2. r = role
      BY <1>1, <2>1, <3>1, SettledLookup
    <3> QED
      BY <3>1, <3>2 DEF Offers
  <2>4. role = Unavailable => ~role.isActive
    BY DEF Unavailable
  <2>5. answer.verdict = "permits" <=>
            /\ role.isActive /\ answer.tool \in DOMAIN role.permissions
            /\ answer.action \in role.permissions[answer.tool]
    BY <2>2, <2>4, VerdictIs
  <2> HIDE DEF role
  <2>6. request \in Offer(role) <=>
            /\ answer.tool \in DOMAIN role.permissions
            /\ answer.action \in role.permissions[answer.tool]
    <3> DEFINE shown == {k \in DOMAIN tools \intersect DOMAIN role.permissions :
                            role.permissions[k] # {}}
    <3>1. \A x : x \in Offer(role) <=>
              \E k \in shown : \E act \in role.permissions[k] :
                  x = [tool |-> k, action |-> act]
      BY DEF Offer, OfferOf
    <3>2. \A k, act : request = [tool |-> k, action |-> act]
                         <=> k = answer.tool /\ act = answer.action
      OBVIOUS
    <3> HIDE DEF request
    <3> QED
      BY <2>2, <3>1, <3>2
  <2> QED
    BY <2>3, <2>5, <2>6
<1>2. ASSUME AccessInv, Answered("forward"), answer.tool # None, DistinctBaseUrls,
             NEW k \in DOMAIN tools, tools[k].baseUrl = answer.target
      PROVE  answer.tool = k
  <2> DEFINE i == Min(Longest(answer.target))
  <2>1. Started /\ phase = "serving" /\ config \in Configs /\ FindTool(answer.target) # None
    BY <1>2, AnswerParts DEF Started
  <2>2. i \in Longest(answer.target) /\ i \in DOMAIN config.tools /\ answer.tool = config.tools[i].key
    BY <1>2, <2>1, ToolOfAnswer
  <2> HIDE DEF i
  <2>3. k \in ToolKeysOf(config) /\ tools[k] = LastTool(config, k)
    BY <2>1 DEF Started
  <2>4. PICK j \in DOMAIN config.tools : tools[k] = config.tools[j] /\ config.tools[j].key = k
    BY <2>1, <2>3, LastToolHasKey
  <2> DEFINE s == config.tools[i].baseUrl
             t == config.tools[j].baseUrl
  <2>5. s \in Seq(ToSet(s)) /\ t \in Seq(ToSet(t)) /\ t = answer.target
    BY <1>2, <2>1, <2>2, <2>4, ConfigAssumption DEF IsList
  <2>6. j \in Fits(answer.target)
    BY <2>4, <2>5 DEF Fits, IsPrefix
  <2>7. IsPrefix(s, t) /\ Len(t) <= Len(s)
    BY <2>2, <2>5, <2>6 DEF Longest, Fits
  <2>8. s = t
    BY <2>5, <2>7, WholePrefix
  <2> QED
    BY <1>2, <2>2, <2>4, <2>8 DEF DistinctBaseUrls
<1>3. AccessInv => OffersAreKept
  BY <1>1, <1>2 DEF OffersAreKept
<1> QED
  BY SpecAccessInv, <1>3, PTL

\* The least element of a set is no larger than any of its elements.
LEMMA MinIsSmall ==
    ASSUME NEW n \in Nat, NEW S \in SUBSET Nat, NEW i \in S, i \in 1 .. n, \A j \in S : j >= 1
    PROVE  Min(S) \in S /\ Min(S) \in 1 .. n
<1>1. Min(S) \in S /\ Min(S) <= i
  BY MinIsLeast
<1>2. \A m \in S : m <= i => m \in 1 .. n
  OBVIOUS
<1> QED
  BY <1>1, <1>2

\* On the Hedera driver, a registered agent has the role it was given.
LEMMA RegisteredRole ==
    ASSUME AccessInv, chain = "hedera", DistinctRoles, NEW a \in Agents, own[a] # 0
    PROVE  /\ own[a] \in DOMAIN config.roles
           /\ RoleRead(agentRoles[a]) = [isActive |-> TRUE,
                                         permissions |-> PermissionMap(config.roles[own[a]])]
<1> DEFINE i == own[a]
           h == agentRoles[a]
           S == {j \in DOMAIN config.roles : config.roles[j].id \in LongIds
                       \/ h = [id |-> config.roles[j].id, padded |-> TRUE]}
<1>1. /\ i \in 1 .. registered /\ registered \in Nat /\ i \in DOMAIN config.roles
      /\ h = [id |-> config.roles[i].id, padded |-> TRUE]
      /\ \A j \in 1 .. registered : config.roles[j].id \notin LongIds
      /\ Started
  BY DEF AccessInv, OwnInv
<1>2. h # Zero
  <2>1. h \in Hash
    BY <1>1 DEF Hash, RoleIds, Started
  <2> QED
    BY <2>1, HashAssumption
<1>3. S \in SUBSET Nat /\ i \in S
  BY <1>1, RoleList
<1>4. registered \in Nat /\ i \in 1 .. registered
  BY <1>1
<1>5. Min(S) \in S /\ Min(S) \in 1 .. registered /\ Min(S) \in DOMAIN config.roles
  <2>1. S \subseteq DOMAIN config.roles /\ \A j \in S : j >= 1
    BY <1>1, RoleList
  <2> HIDE DEF S, i
  <2> QED
    BY <1>3, <1>4, <2>1, MinIsSmall
<1>6. Min(S) = i
  <2>1. config.roles[Min(S)].id \notin LongIds
    BY <1>1, <1>5
  <2>2. h = [id |-> config.roles[Min(S)].id, padded |-> TRUE]
    BY <1>5, <2>1
  <2>3. config.roles[Min(S)].id = config.roles[i].id
    <3> DEFINE x == config.roles[Min(S)].id
               y == config.roles[i].id
    <3>1. [id |-> x, padded |-> TRUE] = [id |-> y, padded |-> TRUE]
      BY <1>1, <2>2
    <3> HIDE DEF x, y
    <3>2. x = y
      BY <3>1
    <3> QED
      BY <3>2 DEF x, y
  <2> QED
    BY <1>1, <1>5, <2>3 DEF DistinctRoles
<1>7. RoleRead(h) =
          IF S = {} THEN WithoutPermissions(h # Zero)
          ELSE IF config.roles[Min(S)].id \in LongIds THEN Unavailable
          ELSE [isActive |-> h # Zero, permissions |-> PermissionMap(config.roles[Min(S)])]
  BY DEF RoleRead, HederaRole
<1>8. S # {} /\ config.roles[i].id \notin LongIds
  BY <1>1, <1>3
<1> HIDE DEF S, i, h
<1>9. RoleRead(h) = [isActive |-> h # Zero, permissions |-> PermissionMap(config.roles[i])]
  BY <1>6, <1>7, <1>8
<1> QED
  BY <1>1, <1>2, <1>9 DEF i, h

\* The map of the permissions is decided by the last entry for a tool.
LEMMA MapIsLast ==
    ASSUME Started, NEW i \in DOMAIN config.roles, NEW t, NEW act
    PROVE  LastGrants(i, t, act) <=>
              t \in DOMAIN PermissionMap(config.roles[i])
              /\ act \in PermissionMap(config.roles[i])[t]
<1> DEFINE p == config.roles[i].permissions
           permitted == PermissionMap(config.roles[i])
           S == {m \in DOMAIN p : p[m].tool = t}
<1>1. DOMAIN p = 1 .. Len(p) /\ Len(p) \in Nat
  BY RoleList
<1>2. /\ t \in DOMAIN permitted <=> S # {}
      /\ t \in DOMAIN permitted => permitted[t] = p[Max(S)].actions
  BY DEF PermissionMap
<1>3. LastGrants(i, t, act) <=> \E n \in S : act \in p[n].actions /\ \A m \in S : m <= n
  BY DEF LastGrants
<1>4. ASSUME S # {}
      PROVE  Max(S) \in S /\ \A m \in S : Max(S) >= m
  BY <1>1, <1>4, MaxIsGreatest
<1>5. S \subseteq Int
  BY <1>1
<1> HIDE DEF S, permitted
<1>6. ASSUME NEW n \in S, \A m \in S : m <= n
      PROVE  n = Max(S)
  <2> DEFINE top == Max(S)
  <2>1. top \in S /\ top >= n
    BY <1>4
  <2>2. top <= n /\ top \in Int /\ n \in Int
    BY <1>5, <1>6, <2>1
  <2> HIDE DEF top
  <2>3. n = top
    BY <2>1, <2>2
  <2> QED
    BY <2>3 DEF top
<1>7. ASSUME S # {}
      PROVE  \A m \in S : m <= Max(S)
  BY <1>4, <1>5, <1>7
<1> QED
  BY <1>2, <1>3, <1>4, <1>6, <1>7 DEF permitted

(* The agents that register-agents.ts has registered have their roles, and only *)
(* those, on the Hedera driver, as soon as no earlier role is found any more    *)
(* and whenever the node is reached.                                            *)
THEOREM RegistrationHolds == Spec => []RegisteredHaveTheirRole
<1>1. ASSUME AccessInv, chain = "hedera", DistinctRoles, NEW a \in Agents, own[a] # 0
      PROVE  RoleRead(agentRoles[a]) # Unavailable
  <2>1. RoleRead(agentRoles[a]).isActive = TRUE
    <3>1. RoleRead(agentRoles[a]) = [isActive |-> TRUE,
                                     permissions |-> PermissionMap(config.roles[own[a]])]
      BY <1>1, RegisteredRole
    <3> QED
      BY <3>1
  <2>2. Unavailable.isActive = FALSE
    BY DEF Unavailable
  <2> QED
    BY <2>1, <2>2
<1>2. ASSUME AccessInv, chain = "hedera", DistinctRoles, NEW a \in Agents, own[a] # 0,
             Answered("forward"), answer.agent = a, answer.tool # None, Settled(a),
             answer.verdict # "unavailable"
      PROVE  /\ answer.verdict \in {"permits", "denies"}
             /\ answer.verdict = "permits" <=> LastGrants(own[a], answer.tool, answer.action)
  <2> DEFINE permitted == PermissionMap(config.roles[own[a]])
             role == [isActive |-> TRUE, permissions |-> permitted]
  <2>1. own[a] \in DOMAIN config.roles /\ RoleRead(agentRoles[a]) = role
    BY <1>2, RegisteredRole
  <2>2. role # Unavailable /\ answer.verdict = Verdict(role, answer.tool, answer.action)
    BY <1>2, <2>1, SettledVerdict
  <2> HIDE DEF permitted
  <2>3. /\ answer.verdict \in {"permits", "denies"}
        /\ answer.verdict = "permits" <=>
              answer.tool \in DOMAIN permitted /\ answer.action \in permitted[answer.tool]
    BY <2>2 DEF Verdict
  <2>4. LastGrants(own[a], answer.tool, answer.action) <=>
            answer.tool \in DOMAIN permitted /\ answer.action \in permitted[answer.tool]
    BY <1>2, <2>1, MapIsLast DEF AccessInv, permitted
  <2> QED
    BY <2>3, <2>4
<1>3. AccessInv => RegisteredHaveTheirRole
  BY <1>1, <1>2 DEF RegisteredHaveTheirRole
<1> QED
  BY SpecAccessInv, <1>3, PTL
=============================================================================
