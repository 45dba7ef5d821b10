------------------------ MODULE RegionLayoutProofs -------------------------
(***************************************************************************)
(* Proofs about RegionLog, third part: where the entries of a region lie,  *)
(* what their cells hold in memory and on the medium, and hence what a     *)
(* walk over the region returns (VisibleIsCommittedLog) and where the next *)
(* entry goes (AppendOffsetIsTail).  All of it needs that no header        *)
(* straddles two cache lines (SplitCells = {}).                            *)
(***************************************************************************)
EXTENDS RegionHistoryProofs

-----------------------------------------------------------------------------
(* The invariant                                                           *)

\* Entries follow each other without a gap: Start(r, k) is where entry k begins, and
\* LogEnd(r) where the next one will.
EntryEnd(e) == e.offset + 1 + Len(e.payload)
Start(r, k) == IF k = 1 THEN 0 ELSE EntryEnd(log[r][k - 1])
LogEnd(r) == IF Len(log[r]) = 0 THEN 0 ELSE EntryEnd(log[r][Len(log[r])])
Tiled(r) ==
  /\ \A k \in 1 .. Len(log[r]) :
       /\ log[r][k].offset = Start(r, k)
       /\ Len(log[r][k].payload) > 0 /\ EntryEnd(log[r][k]) <= Capacity
  /\ \A j, k \in 1 .. Len(log[r]) : j < k => EntryEnd(log[r][j]) <= log[r][k].offset

\* The timestamps of the entries whose headers are stored, whose payload is copied, all of
\* whose cells are durable.
Published == {t \in Nat : t <= committed \/ \E op \in ops : op.timestamp = t /\ op.published}
Copied == {t \in Nat : t <= committed \/ \E op \in ops : op.timestamp = t /\ op.copied}
Durable == {t \in Nat : t <= committed \/ \E op \in ops : op.timestamp = t /\ op.durable}

Header(r, k) == cells[<<r, log[r][k].offset>>]
WrittenAt(r, k) ==
  LET e == log[r][k]
  IN  /\ e.timestamp \in Published =>
           Header(r, k).span = Len(e.payload) /\ Header(r, k).timestamp = e.timestamp
      /\ e.timestamp \in Copied =>
           \A j \in 1 .. Len(e.payload) : cells[<<r, e.offset + j>>].payload = e.payload[j]
      /\ e.timestamp \in Durable =>
           \A j \in 0 .. Len(e.payload) :
             cellsMedium[<<r, e.offset + j>>] = {cells[<<r, e.offset + j>>]}
Written(r) == \A k \in 1 .. Len(log[r]) : WrittenAt(r, k)

\* What the writer has stored of the header it is at work on.
Stores(r) ==
  /\ pc[r] \in {"store_span", "publish"} =>
       cells[<<r, loc[r].offset>>].timestamp = loc[r].timestamp
  /\ pc[r] = "publish" => cells[<<r, loc[r].offset>>].span = loc[r].size

\* A header that is not complete is not taken for another one: it is empty or has its own
\* timestamp, on the medium too when the entry before it is durable ...
HeaderOK(v, t) == v.span = Empty \/ v.timestamp = t
DurableBefore(r, k) == k = 1 \/ log[r][k - 1].timestamp \in Durable
HeadedAt(r, k) ==
  /\ HeaderOK(Header(r, k), log[r][k].timestamp)
  /\ DurableBefore(r, k) =>
       \A v \in cellsMedium[<<r, log[r][k].offset>>] : HeaderOK(v, log[r][k].timestamp)
Headed(r) == \A k \in 1 .. Len(log[r]) : HeadedAt(r, k)

\* ... and what lies behind the last entry has no timestamp that a reader accepts.
TailBound(r) == IF phase = "opening" /\ maxValid[r] = Forever THEN persisted ELSE maxValid[r]
TailOK(v, n) == v.span = Empty \/ (n # Forever /\ v.timestamp > n)
AllDurable(r) == Len(log[r]) = 0 \/ log[r][Len(log[r])].timestamp \in Durable
Ended(r) ==
  LogEnd(r) < Capacity =>
    /\ pc[r] # "clear_next" => TailOK(cells[<<r, LogEnd(r)>>], TailBound(r))
    /\ AllDurable(r) => \A v \in cellsMedium[<<r, LogEnd(r)>>] : TailOK(v, TailBound(r))

Laid(r) == Tiled(r) /\ Written(r) /\ Stores(r) /\ Headed(r) /\ Ended(r)

\* The append offset of a region that is open for writing is its tail.
Appends(r) ==
  /\ ~NotReady(r) /\ pc[r] # "acquire" => appendOffset[runtimeOf[r]] = LogEnd(r)
  /\ pc[r] = "acquire" =>
       /\ loc[r].offset = LogEnd(r) /\ loc[r].offset + loc[r].size + 1 <= Capacity
       /\ appendOffset[runtimeOf[r]] = loc[r].offset + loc[r].size + 1
Recovers(a) ==
  LET r == loc[a].region
  IN  /\ pc[a] \in {"set_max_valid", "write_ready"} => appendOffset[runtimeOf[r]] = LogEnd(r)
      /\ pc[a] = "set_max_valid" /\ LogEnd(r) < Capacity => cells[<<r, LogEnd(r)>>].span = Empty

\* What the iterator returned is the log so far, and it stands behind that; the timestamp it
\* compares with excludes nothing a region that is not recovered holds; a span it
\* loaded is the one of the next entry, or the timestamp it is going to load is too large.
Position == Len(loc[Reader].seen) + 1
Sees(r) ==
  /\ Len(loc[Reader].seen) <= Len(log[r])
  /\ \A k \in 1 .. Len(loc[Reader].seen) :
       loc[Reader].seen[k] = log[r][k] /\ log[r][k].timestamp <= committed
  /\ loc[Reader].offset = Start(r, Position)
Compares(r) ==
  /\ loc[Reader].valid <= committed
  /\ NotReady(r) => \A k \in 1 .. Len(log[r]) : log[r][k].timestamp <= loc[Reader].valid
IsNext(r) == Position <= Len(log[r]) /\ log[r][Position].timestamp <= loc[Reader].valid
HasLoaded(r) ==
  /\ IsNext(r) => loc[Reader].size = Len(log[r][Position].payload)
  /\ loc[Reader].size # Empty =>
       IsNext(r) \/ cells[<<r, loc[Reader].offset>>].timestamp > loc[Reader].valid
Reads ==
  LET r == loc[Reader].region
  IN  /\ pc[Reader] # "idle" => Sees(r)
      /\ pc[Reader] \in Checking => Compares(r)
      /\ pc[Reader] \in {"load_span", "load_timestamp"} => loc[Reader].valid <= maxValid[r]
      /\ pc[Reader] = "load_timestamp" => HasLoaded(r)
      /\ pc[Reader] \in Recovering \union {"recheck"} /\ NotReady(r) => Position = Len(log[r]) + 1

Layout ==
  /\ \A r \in allocated : Laid(r) /\ Appends(r)
  /\ \A a \in Actors : Recovers(a)

LayoutIInv == HistoryIInv /\ Layout /\ Reads

-----------------------------------------------------------------------------
(* Places                                                                  *)

\* Where the entries of a region lie.
LEMMA Geometry ==
  ASSUME Types, NEW r \in Regions, Tiled(r)
  PROVE  /\ LogEnd(r) \in Nat /\ LogEnd(r) <= Capacity /\ Len(log[r]) \in Nat
         /\ \A k \in 1 .. Len(log[r]) :
              LET e == log[r][k]
              IN  /\ e.offset \in Nat /\ Len(e.payload) \in Nat /\ Len(e.payload) > 0
                  /\ e.timestamp \in Nat /\ EntryEnd(e) \in Nat
                  /\ EntryEnd(e) = e.offset + 1 + Len(e.payload)
                  /\ EntryEnd(e) <= LogEnd(r) /\ EntryEnd(e) <= Capacity
                  /\ Start(r, k) = e.offset /\ Start(r, k + 1) = EntryEnd(e)
         /\ \A j, k \in 1 .. Len(log[r]) : j < k => EntryEnd(log[r][j]) <= log[r][k].offset
         /\ Start(r, 1) = 0 /\ Start(r, Len(log[r]) + 1) = LogEnd(r)
<1> DEFINE n == Len(log[r])
<1>1. n \in Nat /\ Capacity \in Nat
  BY LogTypes, Constants
<1>2. ASSUME NEW k \in 1 .. n
      PROVE  /\ log[r][k].offset \in Nat /\ Len(log[r][k].payload) \in Nat
             /\ Len(log[r][k].payload) > 0 /\ log[r][k].timestamp \in Nat
             /\ EntryEnd(log[r][k]) <= Capacity /\ Start(r, k) = log[r][k].offset
  BY LogTypes DEF Tiled
<1>3. \A j, k \in 1 .. n : j < k => EntryEnd(log[r][j]) <= log[r][k].offset
  BY DEF Tiled
<1> HIDE DEF n
<1>4. ASSUME NEW k \in 1 .. n
      PROVE  /\ EntryEnd(log[r][k]) \in Nat
             /\ EntryEnd(log[r][k]) = log[r][k].offset + 1 + Len(log[r][k].payload)
             /\ Start(r, k + 1) = EntryEnd(log[r][k])
  <2>1. EntryEnd(log[r][k]) = log[r][k].offset + 1 + Len(log[r][k].payload)
    BY DEF EntryEnd
  <2>2. EntryEnd(log[r][k]) \in Nat
    BY <1>2, <2>1
  <2>3. k + 1 # 1 /\ k + 1 - 1 = k
    BY <1>1
  <2> QED
    BY <2>1, <2>2, <2>3 DEF Start
<1>5. CASE n = 0
  <2>1. LogEnd(r) = 0
    BY <1>5 DEF n, LogEnd
  <2>2. \A k \in 1 .. n : FALSE
    BY <1>5
  <2>3. Start(r, 1) = 0 /\ Start(r, n + 1) = 0
    BY <1>5 DEF Start
  <2> QED
    BY <1>1, <1>5, <2>1, <2>2, <2>3 DEF n
<1>6. CASE n # 0
  <2>1. n \in 1 .. n /\ LogEnd(r) = EntryEnd(log[r][n]) /\ Start(r, n + 1) = LogEnd(r)
    <3>1. n \in 1 .. n
      BY <1>1, <1>6
    <3>2. LogEnd(r) = EntryEnd(log[r][n])
      BY <1>6 DEF n, LogEnd
    <3> QED
      BY <1>4, <3>1, <3>2
  <2>2. LogEnd(r) \in Nat /\ LogEnd(r) <= Capacity
    BY <1>2, <1>4, <2>1
  <2>3. ASSUME NEW k \in 1 .. n PROVE EntryEnd(log[r][k]) <= LogEnd(r)
    <3>1. CASE k = n
      BY <2>1, <2>2, <3>1
    <3>2. CASE k # n
      <4>1. k < n
        BY <1>1, <3>2
      <4>2. EntryEnd(log[r][k]) <= log[r][n].offset
        BY <1>3, <2>1, <4>1
      <4>3. log[r][n].offset <= EntryEnd(log[r][n])
        <5>1. log[r][n].offset \in Nat /\ Len(log[r][n].payload) \in Nat
          BY <1>2, <2>1
        <5>2. EntryEnd(log[r][n]) = log[r][n].offset + 1 + Len(log[r][n].payload)
          BY <1>4, <2>1
        <5> QED
          BY <5>1, <5>2
      <4>4. EntryEnd(log[r][k]) \in Nat /\ log[r][n].offset \in Nat /\ EntryEnd(log[r][n]) \in Nat
        BY <1>2, <1>4, <2>1
      <4> QED
        BY <2>1, <4>2, <4>3, <4>4
    <3> QED
      BY <3>1, <3>2
  <2>4. Start(r, 1) = 0
    BY DEF Start
  <2> QED
    BY <1>1, <1>2, <1>3, <1>4, <2>1, <2>2, <2>3, <2>4 DEF n
<1> QED
  BY <1>5, <1>6

\* The cells of the entries are places, below LogEnd(r), and all different.
LEMMA OwnPlaces ==
  ASSUME Types, NEW r \in Regions, Tiled(r), NEW k \in 1 .. Len(log[r]),
         NEW i \in 0 .. Len(log[r][k].payload)
  PROVE  /\ log[r][k].offset + i \in Nat /\ log[r][k].offset + i < LogEnd(r)
         /\ log[r][k].offset + i < Capacity /\ <<r, log[r][k].offset + i>> \in Places
         /\ \A m \in 1 .. Len(log[r]) : \A j \in 0 .. Len(log[r][m].payload) :
              log[r][k].offset + i = log[r][m].offset + j => k = m /\ i = j
<1> DEFINE Off(m) == log[r][m].offset
           Size(m) == Len(log[r][m].payload)
           End(m) == EntryEnd(log[r][m])
<1>1. /\ LogEnd(r) \in Nat /\ LogEnd(r) <= Capacity /\ Len(log[r]) \in Nat /\ Capacity \in Nat
      /\ \A m \in 1 .. Len(log[r]) :
           /\ Off(m) \in Nat /\ Size(m) \in Nat /\ End(m) \in Nat
           /\ End(m) = Off(m) + 1 + Size(m) /\ End(m) <= LogEnd(r)
      /\ \A j, m \in 1 .. Len(log[r]) : j < m => End(j) <= Off(m)
  BY Geometry, Constants
<1>2. i \in 0 .. Size(k)
  OBVIOUS
<1>3. /\ Off(k) \in Nat /\ Size(k) \in Nat /\ End(k) = Off(k) + 1 + Size(k) /\ End(k) <= LogEnd(r)
  BY <1>1
<1> HIDE DEF Off, Size, End
<1>4. Off(k) + i \in Nat /\ Off(k) + i < LogEnd(r) /\ Off(k) + i < Capacity
  BY <1>1, <1>2, <1>3
<1>5. ASSUME NEW m \in 1 .. Len(log[r]), NEW j \in 0 .. Size(m), Off(k) + i = Off(m) + j
      PROVE  k = m /\ i = j
  <2>1. /\ Off(m) \in Nat /\ Size(m) \in Nat /\ End(m) = Off(m) + 1 + Size(m)
        /\ k < m => End(k) <= Off(m)
        /\ m < k => End(m) <= Off(k)
    BY <1>1
  <2>2. k \in Nat /\ m \in Nat
    BY <1>1
  <2>3. ~(k < m)
    BY <1>2, <1>3, <1>5, <2>1
  <2>4. ~(m < k)
    BY <1>2, <1>3, <1>5, <2>1
  <2>5. k = m
    BY <2>2, <2>3, <2>4
  <2> QED
    BY <1>2, <1>5, <2>1, <2>5
<1>6. <<r, Off(k) + i>> \in Places
  <2>1. Off(k) + i \in 0 .. Capacity - 1
    BY <1>1, <1>4
  <2> QED
    BY <2>1 DEF Places
<1> QED
  BY <1>4, <1>5, <1>6 DEF Off, Size

\* The place behind the log belongs to no entry.
LEMMA TailPlace ==
  ASSUME Types, NEW r \in Regions, Tiled(r), LogEnd(r) < Capacity
  PROVE  <<r, LogEnd(r)>> \in Places
<1>1. LogEnd(r) \in Nat /\ Capacity \in Nat
  BY Geometry, Constants
<1>2. LogEnd(r) \in 0 .. Capacity - 1
  BY <1>1
<1> QED
  BY <1>2 DEF Places

-----------------------------------------------------------------------------
(* A region nothing happens to                                             *)

SameBelow(r, n) ==
  \A i \in 0 .. Capacity - 1 :
    i < n => cells'[<<r, i>>] = cells[<<r, i>>] /\ cellsMedium'[<<r, i>>] = cellsMedium[<<r, i>>]
SameCells(r) == SameBelow(r, Capacity)
NoProgress(r) ==
  \A k \in 1 .. Len(log[r]) :
    /\ log[r][k].timestamp \in Published' => log[r][k].timestamp \in Published
    /\ log[r][k].timestamp \in Copied' => log[r][k].timestamp \in Copied
    /\ log[r][k].timestamp \in Durable' => log[r][k].timestamp \in Durable
SameStores(r) ==
  pc'[r] \in {"store_span", "publish"} =>
    pc'[r] = pc[r] /\ loc'[r].offset = loc[r].offset /\ loc'[r].size = loc[r].size
                   /\ loc'[r].timestamp = loc[r].timestamp
SameWriter(r) == (pc[r] = "clear_next" => pc'[r] = "clear_next") /\ SameStores(r)

LEMMA TiledFrame ==
  ASSUME NEW r \in Regions, Tiled(r), log'[r] = log[r]
  PROVE  Tiled(r)' /\ LogEnd(r)' = LogEnd(r)
  BY DEF Tiled, LogEnd, Start, EntryEnd

\* The place of a cell of an entry, as an index.
LEMMA OwnIndex ==
  ASSUME Types, NEW r \in Regions, Tiled(r), NEW k \in 1 .. Len(log[r]),
         NEW i \in 0 .. Len(log[r][k].payload)
  PROVE  log[r][k].offset + i \in 0 .. Capacity - 1
  BY OwnPlaces DEF Places

LEMMA HeaderIndex ==
  ASSUME Types, NEW r \in Regions, Tiled(r), NEW k \in 1 .. Len(log[r])
  PROVE  /\ log[r][k].offset \in 0 .. Capacity - 1 /\ log[r][k].offset < LogEnd(r)
         /\ log[r][k].offset \in Nat /\ log[r][k].offset + 0 = log[r][k].offset
<1>1. Len(log[r][k].payload) \in Nat /\ log[r][k].offset \in Nat
  BY Geometry
<1>2. 0 \in 0 .. Len(log[r][k].payload)
  BY <1>1
<1>3. log[r][k].offset + 0 \in 0 .. Capacity - 1 /\ log[r][k].offset + 0 < LogEnd(r)
  BY <1>2, OwnIndex, OwnPlaces
<1> QED
  BY <1>1, <1>3

LEMMA WriterStores ==
  ASSUME RuntimeIInv, History, NEW r \in Regions, pc[r] \in Storing
  PROVE  LET e == log[r][Len(log[r])]
         IN  /\ Len(log[r]) \in 1 .. Len(log[r]) /\ e.timestamp = loc[r].timestamp
             /\ committed < e.timestamp /\ e.offset = loc[r].offset
             /\ Len(e.payload) = loc[r].size /\ LogEnd(r) = loc[r].offset + loc[r].size + 1
             /\ e.timestamp \in Nat
<1>1. Types
  BY DEF RuntimeIInv
<1>2. WriterOK(r)
  BY DEF History
<1>3. Len(log[r]) \in Nat
  BY <1>1, LogTypes
<1>4. Len(log[r]) > 0
  BY <1>2 DEF WriterOK
<1>5. Len(log[r]) \in 1 .. Len(log[r])
  BY <1>3, <1>4
<1>6. LET e == log[r][Len(log[r])]
      IN  /\ e.timestamp = loc[r].timestamp /\ committed < e.timestamp
          /\ e.offset = loc[r].offset /\ Len(e.payload) = loc[r].size
  BY <1>2 DEF WriterOK
<1>7. log[r][Len(log[r])].timestamp \in Nat /\ loc[r].offset \in Nat /\ loc[r].size \in Nat
  BY <1>1, <1>5, <1>6, LogTypes
<1>8. LogEnd(r) = loc[r].offset + 1 + loc[r].size
  BY <1>4, <1>6 DEF LogEnd, EntryEnd
<1>9. LogEnd(r) = loc[r].offset + loc[r].size + 1
  BY <1>7, <1>8
<1> QED
  BY <1>5, <1>6, <1>7, <1>9

\* As long as nothing happens to the cells below its end.
LEMMA EntriesFrame ==
  ASSUME RuntimeIInv, History, NEW r \in Regions, Laid(r), log'[r] = log[r],
         SameBelow(r, LogEnd(r)), NoProgress(r), SameStores(r)
  PROVE  /\ Tiled(r)' /\ Written(r)' /\ Stores(r)' /\ Headed(r)'
         /\ LogEnd(r)' = LogEnd(r) /\ (AllDurable(r)' => AllDurable(r))
<1>1. Types /\ Tiled(r)
  BY DEF RuntimeIInv, Laid
<1>2. Tiled(r)' /\ LogEnd(r)' = LogEnd(r)
  BY <1>1, TiledFrame
<1>3. \A k \in 1 .. Len(log[r]) : Header(r, k)' = Header(r, k)
                                  /\ cellsMedium'[<<r, log[r][k].offset>>] = cellsMedium[<<r, log[r][k].offset>>]
  BY <1>1, HeaderIndex DEF SameBelow, Header
<1>4. ASSUME NEW k \in 1 .. Len(log[r]) PROVE WrittenAt(r, k)'
  <2>1. WrittenAt(r, k)
    BY DEF Laid, Written
  <2>2. \A i \in 0 .. Len(log[r][k].payload) :
          /\ cells'[<<r, log[r][k].offset + i>>] = cells[<<r, log[r][k].offset + i>>]
          /\ cellsMedium'[<<r, log[r][k].offset + i>>] = cellsMedium[<<r, log[r][k].offset + i>>]
    BY <1>1, OwnIndex, OwnPlaces DEF SameBelow
  <2>3. \A i \in 1 .. Len(log[r][k].payload) : i \in 0 .. Len(log[r][k].payload)
    OBVIOUS
  <2>4. /\ log[r][k].timestamp \in Published' => log[r][k].timestamp \in Published
        /\ log[r][k].timestamp \in Copied' => log[r][k].timestamp \in Copied
        /\ log[r][k].timestamp \in Durable' => log[r][k].timestamp \in Durable
    BY DEF NoProgress
  <2>5. Header(r, k)' = Header(r, k)
    BY <1>3
  <2> HIDE DEF Header
  <2> QED
    BY <2>1, <2>2, <2>3, <2>4, <2>5 DEF WrittenAt
<1>5. Stores(r)'
  <2> SUFFICES ASSUME pc'[r] \in {"store_span", "publish"}
               PROVE  /\ cells'[<<r, loc'[r].offset>>].timestamp = loc'[r].timestamp
                      /\ pc'[r] = "publish" => cells'[<<r, loc'[r].offset>>].span = loc'[r].size
    BY DEF Stores
  <2>1. /\ pc'[r] = pc[r] /\ loc'[r].offset = loc[r].offset /\ loc'[r].size = loc[r].size
        /\ loc'[r].timestamp = loc[r].timestamp
    BY DEF SameStores
  <2>2. pc[r] \in Storing
    BY <2>1 DEF Storing
  <2>3. Len(log[r]) \in 1 .. Len(log[r]) /\ log[r][Len(log[r])].offset = loc[r].offset
    BY <2>2, WriterStores
  <2>4. loc[r].offset \in 0 .. Capacity - 1 /\ loc[r].offset < LogEnd(r)
    BY <1>1, <2>3, HeaderIndex
  <2>5. cells'[<<r, loc[r].offset>>] = cells[<<r, loc[r].offset>>]
    BY <2>4 DEF SameBelow
  <2> QED
    BY <2>1, <2>5 DEF Laid, Stores
<1>6. ASSUME NEW k \in 1 .. Len(log[r]) PROVE HeadedAt(r, k)'
  <2>1. HeadedAt(r, k)
    BY DEF Laid, Headed
  <2>2. DurableBefore(r, k)' => DurableBefore(r, k)
    <3>1. k # 1 => k - 1 \in 1 .. Len(log[r])
      OBVIOUS
    <3> QED
      BY <3>1 DEF DurableBefore, NoProgress
  <2> QED
    BY <1>3, <2>1, <2>2 DEF HeadedAt, Header
<1>7. AllDurable(r)' => AllDurable(r)
  <2>1. Len(log[r]) # 0 => Len(log[r]) \in 1 .. Len(log[r])
    BY <1>1, LogTypes
  <2> QED
    BY <2>1 DEF AllDurable, NoProgress
<1> QED
  BY <1>2, <1>4, <1>5, <1>6, <1>7 DEF Written, Headed

LEMMA LaidFrame ==
  ASSUME RuntimeIInv, History, NEW r \in Regions, Laid(r), log'[r] = log[r],
         SameCells(r), NoProgress(r), SameWriter(r), TailBound(r)' = TailBound(r)
  PROVE  Laid(r)'
<1>1. Types /\ Tiled(r)
  BY DEF RuntimeIInv, Laid
<1>2. /\ LogEnd(r) \in Nat /\ Capacity \in Nat /\ LogEnd(r) <= Capacity
      /\ LogEnd(r) < Capacity => LogEnd(r) \in 0 .. Capacity - 1
  BY <1>1, Geometry, Constants
<1>3. SameBelow(r, LogEnd(r)) /\ SameStores(r)
  BY <1>2 DEF SameBelow, SameCells, SameWriter
<1>4. /\ Tiled(r)' /\ Written(r)' /\ Stores(r)' /\ Headed(r)'
      /\ LogEnd(r)' = LogEnd(r) /\ (AllDurable(r)' => AllDurable(r))
  BY <1>3, EntriesFrame
<1>5. Ended(r)'
  <2> SUFFICES ASSUME LogEnd(r) < Capacity
               PROVE  /\ pc'[r] # "clear_next" => TailOK(cells'[<<r, LogEnd(r)>>], TailBound(r))
                      /\ AllDurable(r)' =>
                           \A v \in cellsMedium'[<<r, LogEnd(r)>>] : TailOK(v, TailBound(r))
    BY <1>4 DEF Ended, TailOK
  <2>1. /\ cells'[<<r, LogEnd(r)>>] = cells[<<r, LogEnd(r)>>]
        /\ cellsMedium'[<<r, LogEnd(r)>>] = cellsMedium[<<r, LogEnd(r)>>]
    BY <1>2 DEF SameCells, SameBelow
  <2>2. pc'[r] # "clear_next" => pc[r] # "clear_next"
    BY DEF SameWriter
  <2> QED
    BY <1>4, <2>1, <2>2 DEF Laid, Ended
<1> QED
  BY <1>4, <1>5 DEF Laid

-----------------------------------------------------------------------------
(* How far the entries got                                                 *)

LEMMA ProgressKept ==
  ASSUME UNCHANGED <<ops, committed>>
  PROVE  UNCHANGED <<Published, Copied, Durable>>
  BY DEF Published, Copied, Durable

\* What the sets say of an operation in flight.
LEMMA ProgressOf ==
  ASSUME Types, History, NEW op \in ops
  PROVE  /\ op.timestamp \in Published => op.published
         /\ op.timestamp \in Copied => op.copied
         /\ op.timestamp \in Durable => op.durable
         /\ op.timestamp \in Nat /\ committed < op.timestamp
<1>1. op.timestamp \in Nat /\ committed \in Nat /\ committed < op.timestamp
  BY OpTypes, StateTypes DEF History, InFlight
<1>2. ~(op.timestamp <= committed)
  BY <1>1
<1>3. \A oq \in ops : oq.timestamp = op.timestamp => oq = op
  BY DEF History, Distinct
<1> QED
  BY <1>1, <1>2, <1>3 DEF Published, Copied, Durable

\* What is durable was copied and published.
LEMMA DurableIsWritten ==
  ASSUME Types, History, NEW t \in Durable
  PROVE  t \in Published /\ t \in Copied
  BY DEF Published, Copied, Durable, History, InFlight

LEMMA AcquireProgress ==
  ASSUME RuntimeIInv, NEW r \in Regions, AcquireTimestamp(r)
  PROVE  UNCHANGED <<Published, Copied, Durable>>
<1>1. ops' = ops \union {NewOp(r)} /\ committed' = committed
  BY AcquireEffect
<1>2. ~NewOp(r).published /\ ~NewOp(r).copied /\ ~NewOp(r).durable
  BY DEF NewOp
<1> HIDE DEF NewOp
<1>3. /\ \A op \in ops' : op.published \/ op.copied \/ op.durable => op \in ops
      /\ \A op \in ops : op \in ops'
  BY <1>1, <1>2
<1> QED
  BY <1>1, <1>3 DEF Published, Copied, Durable

LEMMA PublishProgress ==
  ASSUME RuntimeIInv, History, NEW r \in Regions, Publish(r)
  PROVE  /\ \A t \in Published' : t \in Published \/ t = loc[r].timestamp
         /\ UNCHANGED <<Copied, Durable>>
<1>1. /\ committed' = committed
      /\ \A o \in ops' : \E oq \in ops :
           /\ o.timestamp = oq.timestamp /\ o.copied = oq.copied /\ o.durable = oq.durable
           /\ IF oq.timestamp = loc[r].timestamp THEN o.published ELSE o = oq
      /\ \A oq \in ops : \E o \in ops' :
           o.timestamp = oq.timestamp /\ o.copied = oq.copied /\ o.durable = oq.durable
  BY PublishEffect
<1>2. UNCHANGED <<Copied, Durable>>
  BY <1>1 DEF Copied, Durable
<1>3. ASSUME NEW t \in Published' PROVE t \in Published \/ t = loc[r].timestamp
  <2>1. t \in Nat /\ (t <= committed \/ \E o \in ops' : o.timestamp = t /\ o.published)
    BY <1>1 DEF Published
  <2>2. CASE t <= committed
    BY <2>1, <2>2 DEF Published
  <2>3. ASSUME NEW o \in ops', o.timestamp = t, o.published
        PROVE  t \in Published \/ t = loc[r].timestamp
    <3>1. PICK oq \in ops : /\ o.timestamp = oq.timestamp
                            /\ IF oq.timestamp = loc[r].timestamp THEN o.published ELSE o = oq
      BY <1>1
    <3> QED
      BY <2>1, <2>3, <3>1 DEF Published
  <2> QED
    BY <2>1, <2>2, <2>3
<1> QED
  BY <1>2, <1>3

\* The data mover and the commit pipeline.
LEMMA CopyDoneProgress ==
  ASSUME Types, History, NEW op \in ops, CopyDone(op)
  PROVE  /\ \A t \in Copied' : t \in Copied \/ t = op.timestamp
         /\ UNCHANGED <<Published, Durable>>
         /\ op.timestamp \notin Durable
<1> DEFINE done == [op EXCEPT !.copied = TRUE]
<1>1. ops' = (ops \ {op}) \union {done} /\ ~op.copied /\ committed' = committed
  BY DEF CopyDone
<1>2. op \in Operations
  BY DEF Types, TimestampTypes
<1>3. done.timestamp = op.timestamp /\ done.published = op.published /\ done.durable = op.durable
  BY <1>2 DEF Operations
<1>4. op.timestamp \notin Durable
  <2>1. op.durable => op.copied
    BY DEF History, InFlight
  <2> QED
    BY <1>1, <2>1, ProgressOf
<1> HIDE DEF done
<1>5. /\ \A o \in ops' : \E oq \in ops :
           /\ o.timestamp = oq.timestamp /\ o.published = oq.published /\ o.durable = oq.durable
           /\ o = oq \/ oq = op
      /\ \A oq \in ops : \E o \in ops' :
           o.timestamp = oq.timestamp /\ o.published = oq.published /\ o.durable = oq.durable
  BY <1>1, <1>3
<1>6. UNCHANGED <<Published, Durable>>
  BY <1>1, <1>5 DEF Published, Durable
<1>7. \A t \in Copied' : t \in Copied \/ t = op.timestamp
  BY <1>1, <1>5 DEF Copied
<1> QED
  BY <1>4, <1>6, <1>7

LEMMA ProcessOpProgress ==
  ASSUME Types, History, NEW op \in ops, ProcessOp(op)
  PROVE  /\ \A t \in Durable' : t \in Durable \/ t = op.timestamp
         /\ UNCHANGED <<Published, Copied>>
         /\ op.timestamp \in Published /\ op.timestamp \in Copied
<1> DEFINE done == [op EXCEPT !.durable = TRUE]
<1>1. /\ ops' = (ops \ {op}) \union {done} /\ op.copied /\ op.published /\ committed' = committed
  BY DEF ProcessOp
<1>2. op \in Operations /\ op.timestamp \in Nat
  BY OpTypes DEF Types, TimestampTypes
<1>3. done.timestamp = op.timestamp /\ done.published = op.published /\ done.copied = op.copied
  BY <1>2 DEF Operations
<1> HIDE DEF done
<1>5. /\ \A o \in ops' : \E oq \in ops :
           /\ o.timestamp = oq.timestamp /\ o.published = oq.published /\ o.copied = oq.copied
           /\ o = oq \/ oq = op
      /\ \A oq \in ops : \E o \in ops' :
           o.timestamp = oq.timestamp /\ o.published = oq.published /\ o.copied = oq.copied
  BY <1>1, <1>3
<1>6. UNCHANGED <<Published, Copied>>
  BY <1>1, <1>5 DEF Published, Copied
<1>7. \A t \in Durable' : t \in Durable \/ t = op.timestamp
  BY <1>1, <1>5 DEF Durable
<1>8. op.timestamp \in Published /\ op.timestamp \in Copied
  BY <1>1, <1>2 DEF Published, Copied
<1> QED
  BY <1>6, <1>7, <1>8

LEMMA CommitProgress ==
  ASSUME Types, History, NEW op \in ops, Commit(op)
  PROVE  UNCHANGED <<Published, Copied, Durable>>
<1>1. /\ op.timestamp = committed + 1 /\ op.durable /\ committed' = committed + 1
      /\ ops' = ops \ {op}
  BY DEF Commit
<1>2. committed \in Nat /\ op.copied /\ op.published
  BY <1>1, StateTypes DEF History, InFlight
<1>3. \A t \in Nat : t <= committed' <=> t <= committed \/ t = op.timestamp
  BY <1>1, <1>2
<1>4. \A o \in ops : o.timestamp = op.timestamp => o = op
  BY DEF History, Distinct
<1>5. op.timestamp \in Nat /\ \A o \in ops : o \in ops' \/ o = op
  BY <1>1, OpTypes
<1>6. \A o \in ops' : o \in ops
  BY <1>1
<1> QED
  BY <1>1, <1>2, <1>3, <1>5, <1>6 DEF Published, Copied, Durable

LEMMA CrashProgress ==
  ASSUME Types, Crash
  PROVE  \A t \in Nat : /\ t \in Published' <=> t <= persisted
                        /\ t \in Copied' <=> t <= persisted
                        /\ t \in Durable' <=> t <= persisted
<1>1. ops' = {} /\ committed' = persisted
  BY DEF Crash
<1> QED
  BY <1>1 DEF Published, Copied, Durable

-----------------------------------------------------------------------------
(* Steps that leave the cells alone                                        *)

AllLaid == \A r \in allocated : Laid(r)

LEMMA LaidQuiet ==
  ASSUME HistoryIInv, AllLaid, UNCHANGED <<cells, cellsMedium, Published, Copied, Durable>>,
         allocated' \subseteq allocated,
         \A r \in allocated' : /\ log'[r] = log[r] /\ SameWriter(r)
                               /\ TailBound(r)' = TailBound(r)
  PROVE  AllLaid'
<1> SUFFICES ASSUME NEW r \in allocated' PROVE Laid(r)'
  BY DEF AllLaid
<1>1. r \in Regions /\ r \in allocated /\ RuntimeIInv /\ History
  BY StateTypes DEF HistoryIInv, RuntimeIInv
<1>2. SameCells(r) /\ NoProgress(r)
  BY DEF SameCells, SameBelow, NoProgress
<1> QED
  BY <1>1, <1>2, LaidFrame DEF AllLaid

LEMMA BoundKept ==
  ASSUME UNCHANGED <<maxValid, phase>>, phase = "opening" => persisted' = persisted
  PROVE  \A r : TailBound(r)' = TailBound(r)
  BY DEF TailBound

LEMMA OneWriter ==
  ASSUME Types, NEW a \in Actors, NEW l, NEW x,
         pc' = [pc EXCEPT ![a] = l], loc' = [loc EXCEPT ![a] = x],
         l \notin {"store_span", "publish"}, pc[a] # "clear_next"
  PROVE  \A r \in Regions : SameWriter(r)
<1>1. \A b \in Actors : b # a => pc'[b] = pc[b] /\ loc'[b] = loc[b]
  BY StateTypes
<1>2. pc'[a] = l /\ Regions \subseteq Actors
  BY StateTypes
<1> QED
  BY <1>1, <1>2 DEF SameWriter, SameStores

LEMMA OneWriterJust ==
  ASSUME RuntimeIInv, NEW a \in Actors, NEW l, pc' = [pc EXCEPT ![a] = l], loc' = loc,
         l \notin {"store_span", "publish"}, pc[a] # "clear_next"
  PROVE  \A r \in Regions : SameWriter(r)
<1>1. loc' = [loc EXCEPT ![a] = loc[a]]
  BY Before
<1> QED
  BY <1>1, OneWriter DEF RuntimeIInv

LEMMA QuietSameWriter ==
  ASSUME RuntimeIInv, QuietStep
  PROVE  \A r \in Regions : SameWriter(r)
<1>0. PICK a \in Actors : \E l : \E x \in Locals : Quiet(a, l, x)
  BY DEF QuietStep
<1>1. PICK l : \E x \in Locals : Quiet(a, l, x)
  BY <1>0
<1>2. PICK x \in Locals : Quiet(a, l, x)
  BY <1>1
<1>3. pc' = [pc EXCEPT ![a] = l] /\ loc' = [loc EXCEPT ![a] = x]
  BY <1>2 DEF Quiet
<1>4. CASE a = Reader
  <2>1. \A b \in Actors : b # a => pc'[b] = pc[b] /\ loc'[b] = loc[b]
    BY <1>3, StateTypes DEF RuntimeIInv
  <2>2. \A r \in Regions : r \in Actors /\ r # a
    BY <1>4, Constants
  <2> QED
    BY <2>1, <2>2 DEF SameWriter, SameStores
<1>5. CASE a # Reader
  <2>1. l \in Preparing \union Resting /\ pc[a] \notin Storing
    BY <1>2, <1>5 DEF Quiet
  <2>2. l \notin Storing
    BY <2>1, LabelSets
  <2>3. l \notin {"store_span", "publish"} /\ pc[a] # "clear_next"
    BY <2>1, <2>2 DEF Storing
  <2> QED
    BY <1>3, <2>3, OneWriter DEF RuntimeIInv
<1> QED
  BY <1>4, <1>5

LEMMA WriterSameWriter ==
  ASSUME RuntimeIInv, NEW r \in Regions,
         AppendBegin(r) \/ Reserve(r) \/ RemoveRuntime(r) \/ Free(r)
  PROVE  \A q \in Regions : SameWriter(q)
<1>1. Types /\ r \in Actors
  BY Constants DEF RuntimeIInv
<1>0. ASSUME NEW l, NEW x, pc' = [pc EXCEPT ![r] = l], loc' = [loc EXCEPT ![r] = x],
             l \in {"look_up", "acquire", "idle"}, pc[r] # "clear_next"
      PROVE  \A q \in Regions : SameWriter(q)
  <2>1. l \notin {"store_span", "publish"}
    BY <1>0
  <2> QED
    BY <1>0, <1>1, <2>1, OneWriter
<1>2. CASE AppendBegin(r)
  <2>1. PICK s \in Sizes : loc' = [loc EXCEPT ![r] = [NoLocals EXCEPT !.region = r, !.size = s]]
    BY <1>2 DEF AppendBegin
  <2>2. pc' = [pc EXCEPT ![r] = "look_up"] /\ pc[r] # "clear_next"
    BY <1>2 DEF AppendBegin, Goto
  <2> QED
    BY <1>0, <2>1, <2>2
<1>3. CASE Reserve(r)
  <2>1. pc[r] # "clear_next"
    BY <1>3 DEF Reserve
  <2>2. CASE loc' = [loc EXCEPT ![r].offset = appendOffset[loc[r].runtime]] /\ Goto(r, "acquire")
    <3>1. /\ loc' = [loc EXCEPT ![r] = [loc[r] EXCEPT !.offset = appendOffset[loc[r].runtime]]]
          /\ pc' = [pc EXCEPT ![r] = "acquire"]
      BY <2>2 DEF Goto
    <3> QED
      BY <1>0, <2>1, <3>1
  <2>3. CASE loc' = [loc EXCEPT ![r] = NoLocals] /\ Goto(r, "idle")
    <3>1. pc' = [pc EXCEPT ![r] = "idle"]
      BY <2>3 DEF Goto
    <3> QED
      BY <1>0, <2>1, <2>3, <3>1
  <2> QED
    BY <1>3, <2>2, <2>3 DEF Reserve
<1>4. CASE RemoveRuntime(r) \/ Free(r)
  <2>1. PICK l \in {"idle", "remove_runtime"} : pc' = [pc EXCEPT ![r] = l]
    BY <1>4 DEF RemoveRuntime, Free, Goto
  <2>2. loc' = loc /\ pc[r] # "clear_next"
    BY <1>4 DEF RemoveRuntime, Free, Unused
  <2> QED
    BY <1>1, <2>1, <2>2, OneWriterJust
<1> QED
  BY <1>2, <1>3, <1>4

\* get_or_create, the recovery but for its stores, and all of the iterator.
LEMMA ActorLaid ==
  ASSUME HistoryIInv, RuntimeIInv', AllLaid,
         \/ \E a \in Actors : \/ GetOrCreate(a) \/ Initialize(a) \/ Lock(a) \/ WriteReady(a)
                              \/ RecheckState(a) /\ UNCHANGED <<cells, cellsMedium>>
         \/ Read
  PROVE  AllLaid'
<1>1. RuntimeIInv
  BY DEF HistoryIInv
<1>2. QuietStep
  BY <1>1, GetOrCreateQuiet, RecoverQuiet, ReadQuiet DEF Recover
<1>3. UNCHANGED <<cells, cellsMedium, maxValid, allocated, ops, committed, persisted, phase, log>>
  BY DEF GetOrCreate, LookUp, Create, CreateFails, Initialize, Lock, RecheckState, WriteReady, Read,
         ReadBegin, LoadCommitted, LoadMaxValid, LoadSpan, LoadTimestamp, memory, timestamps
<1>4. \A r \in Regions : SameWriter(r)
  BY <1>1, <1>2, QuietSameWriter
<1>5. UNCHANGED <<Published, Copied, Durable>>
  BY <1>3, ProgressKept
<1>6. \A r \in allocated' : r \in Regions /\ log'[r] = log[r] /\ TailBound(r)' = TailBound(r)
  BY <1>1, <1>3, BoundKept, StateTypes DEF RuntimeIInv
<1> QED
  BY <1>3, <1>4, <1>5, <1>6, LaidQuiet

LEMMA WriterLaid ==
  ASSUME HistoryIInv, RuntimeIInv', AllLaid, NEW r \in Regions,
         AppendBegin(r) \/ Reserve(r) \/ RemoveRuntime(r) \/ Free(r)
  PROVE  AllLaid'
<1>1. RuntimeIInv /\ Types
  BY DEF HistoryIInv, RuntimeIInv
<1>2. UNCHANGED <<cells, cellsMedium, maxValid, ops, committed, persisted, phase>>
  BY DEF AppendBegin, Reserve, RemoveRuntime, Free, memory, timestamps
<1>3. allocated' \subseteq allocated /\ \A q \in allocated' : log'[q] = log[q]
  <2>1. CASE Free(r)
    <3>1. allocated' = allocated \ {r} /\ \A q \in Regions : q # r => log'[q] = log[q]
      BY <1>1, <2>1, FreeEffect
    <3> QED
      BY <1>1, <3>1, StateTypes
  <2>2. CASE AppendBegin(r) \/ Reserve(r) \/ RemoveRuntime(r)
    BY <2>2 DEF AppendBegin, Reserve, RemoveRuntime, memory
  <2> QED
    BY <2>1, <2>2
<1>4. \A q \in Regions : SameWriter(q)
  BY <1>1, WriterSameWriter
<1>5. UNCHANGED <<Published, Copied, Durable>>
  BY <1>2, ProgressKept
<1>6. \A q \in allocated' : q \in Regions /\ TailBound(q)' = TailBound(q)
  BY <1>1, <1>2, <1>3, BoundKept, StateTypes
<1> QED
  BY <1>2, <1>3, <1>4, <1>5, <1>6, LaidQuiet

\* The pipeline but for its stores, and the marks of the opening.
LEMMA IdleLaid ==
  ASSUME HistoryIInv, RuntimeIInv', AllLaid, NEW x,
         \/ x \in ops /\ Commit(x)
         \/ RecordPersisted
         \/ MarkRegion(x) /\ x \in Regions
         \/ Opened
  PROVE  AllLaid'
<1>1. RuntimeIInv /\ Types /\ Counted /\ History
  BY DEF HistoryIInv, RuntimeIInv
<1>2. UNCHANGED <<cells, cellsMedium, allocated, pc, loc, log>>
  BY DEF Commit, RecordPersisted, MarkRegion, Opened, memory
<1>3. \A q \in Regions : SameWriter(q)
  BY <1>2 DEF SameWriter, SameStores
<1>4. UNCHANGED <<Published, Copied, Durable>>
  <2>1. CASE x \in ops /\ Commit(x)
    BY <1>1, <2>1, CommitProgress
  <2>2. CASE UNCHANGED <<ops, committed>>
    BY <2>2, ProgressKept
  <2> QED
    BY <2>1, <2>2 DEF RecordPersisted, MarkRegion, Opened, timestamps
<1>5. ASSUME NEW q \in allocated' PROVE TailBound(q)' = TailBound(q)
  <2>1. q \in allocated /\ q \in Regions /\ maxValid \in [Regions -> Nat]
    BY <1>1, <1>2, StateTypes
  <2>2. CASE UNCHANGED <<maxValid, phase>> /\ (phase = "opening" => persisted' = persisted)
    BY <2>2, BoundKept
  <2>3. CASE MarkRegion(x) /\ x \in Regions
    <3>1. /\ phase = "opening" /\ phase' = phase /\ maxValid[x] = Forever
          /\ maxValid' = [maxValid EXCEPT ![x] = persisted] /\ persisted' = persisted
      BY <2>3 DEF MarkRegion, NeedsMark, timestamps
    <3>2. persisted # Forever
      <4>1. persisted < Forever /\ persisted \in Nat /\ Forever \in Nat
        BY <1>1, BelowForever, StateTypes
      <4> QED
        BY <4>1
    <3>3. CASE q = x
      <4>1. maxValid'[q] = persisted
        BY <2>1, <3>1, <3>3
      <4> QED
        BY <3>1, <3>2, <3>3, <4>1 DEF TailBound
    <3>4. CASE q # x
      <4>1. maxValid'[q] = maxValid[q]
        BY <2>1, <3>1, <3>4
      <4> QED
        BY <3>1, <4>1 DEF TailBound
    <3> QED
      BY <3>3, <3>4
  <2>4. CASE Opened
    <3>1. maxValid[q] # Forever /\ maxValid' = maxValid
      BY <2>1, <2>4 DEF Opened, NeedsMark
    <3> QED
      BY <3>1 DEF TailBound
  <2>5. CASE RecordPersisted \/ (x \in ops /\ Commit(x))
    BY <2>2, <2>5 DEF RecordPersisted, Commit, memory
  <2> QED
    BY <2>3, <2>4, <2>5
<1> QED
  BY <1>1, <1>2, <1>3, <1>4, <1>5, LaidQuiet, StateTypes

-----------------------------------------------------------------------------
(* Stores to one region                                                    *)

\* What happens to other regions does not concern this one.
LEMMA LaidExcept ==
  ASSUME HistoryIInv, AllLaid, NEW r, allocated' \subseteq allocated \union {r},
         r \in allocated' => Laid(r)',
         \A q \in allocated' : q # r => /\ log'[q] = log[q] /\ SameCells(q) /\ NoProgress(q)
                                        /\ SameWriter(q) /\ TailBound(q)' = TailBound(q)
  PROVE  AllLaid'
<1> SUFFICES ASSUME NEW q \in allocated', q # r PROVE Laid(q)'
  BY DEF AllLaid
<1>1. q \in Regions /\ q \in allocated /\ RuntimeIInv /\ History
  BY StateTypes DEF HistoryIInv, RuntimeIInv
<1> QED
  BY <1>1, LaidFrame DEF AllLaid

\* A cell is stored: no header straddles two cache lines.
LEMMA StoreEffect ==
  ASSUME Types, SplitCells = {}, NEW r \in Regions, NEW i \in 0 .. Capacity - 1, NEW c,
         StoreCell(<<r, i>>, c)
  PROVE  /\ cells'[<<r, i>>] = c /\ cellsMedium'[<<r, i>>] = cellsMedium[<<r, i>>] \union {c}
         /\ \A q \in Regions : \A j \in 0 .. Capacity - 1 :
              q # r \/ j # i => /\ cells'[<<q, j>>] = cells[<<q, j>>]
                                /\ cellsMedium'[<<q, j>>] = cellsMedium[<<q, j>>]
<1>1. <<r, i>> \in Places /\ \A q \in Regions : \A j \in 0 .. Capacity - 1 : <<q, j>> \in Places
  BY DEF Places
<1>2. cells \in [Places -> Cell] /\ cellsMedium \in [Places -> SUBSET Cell]
  BY DEF Types, CellTypes
<1>3. /\ cells' = [cells EXCEPT ![<<r, i>>] = c]
      /\ cellsMedium' = [cellsMedium EXCEPT ![<<r, i>>] = cellsMedium[<<r, i>>] \union {c}]
  BY DEF StoreCell, Stored
<1>4. cells'[<<r, i>>] = c /\ cellsMedium'[<<r, i>>] = cellsMedium[<<r, i>>] \union {c}
  BY <1>1, <1>2, <1>3
<1>5. ASSUME NEW q \in Regions, NEW j \in 0 .. Capacity - 1, q # r \/ j # i
      PROVE  /\ cells'[<<q, j>>] = cells[<<q, j>>]
             /\ cellsMedium'[<<q, j>>] = cellsMedium[<<q, j>>]
  <2>1. <<q, j>> \in Places /\ <<q, j>> # <<r, i>>
    BY <1>1, <1>5
  <2> QED
    BY <1>2, <1>3, <2>1
<1> QED
  BY <1>4, <1>5

\* The header at n is cleared.
LEMMA ClearEffect ==
  ASSUME Types, SplitCells = {}, NEW r \in Regions, NEW n \in 0 .. Capacity, ClearSpan(r, n)
  PROVE  /\ \A q \in Regions : q # r => SameCells(q)
         /\ SameBelow(r, n)
         /\ \A i \in 0 .. Capacity - 1 : cells'[<<r, i>>].timestamp = cells[<<r, i>>].timestamp
         /\ n < Capacity =>
              /\ cells'[<<r, n>>].span = Empty
              /\ \A v \in cellsMedium'[<<r, n>>] : v \in cellsMedium[<<r, n>>] \/ v.span = Empty
<1>1. CASE n < Capacity
  <2> DEFINE c == [cells[<<r, n>>] EXCEPT !.span = Empty]
  <2>1. n \in 0 .. Capacity - 1 /\ StoreCell(<<r, n>>, c)
    BY <1>1, Constants DEF ClearSpan
  <2>2. <<r, n>> \in Places
    BY <2>1 DEF Places
  <2>3. cells[<<r, n>>] \in Cell
    BY <2>2 DEF Types, CellTypes
  <2>4. c.span = Empty /\ c.timestamp = cells[<<r, n>>].timestamp
    BY <2>3 DEF Cell
  <2> HIDE DEF c
  <2>5. /\ cells'[<<r, n>>] = c /\ cellsMedium'[<<r, n>>] = cellsMedium[<<r, n>>] \union {c}
        /\ \A q \in Regions : \A j \in 0 .. Capacity - 1 :
             q # r \/ j # n => /\ cells'[<<q, j>>] = cells[<<q, j>>]
                               /\ cellsMedium'[<<q, j>>] = cellsMedium[<<q, j>>]
    BY <2>1, StoreEffect
  <2>6. \A q \in Regions : q # r => SameCells(q)
    BY <2>5 DEF SameCells, SameBelow
  <2>7. SameBelow(r, n)
    <3>1. \A i \in 0 .. Capacity - 1 : i < n => i # n
      BY <2>1
    <3> QED
      BY <2>5, <3>1 DEF SameBelow
  <2>8. \A i \in 0 .. Capacity - 1 : cells'[<<r, i>>].timestamp = cells[<<r, i>>].timestamp
    BY <2>4, <2>5
  <2> QED
    BY <2>4, <2>5, <2>6, <2>7, <2>8
<1>2. CASE ~(n < Capacity)
  BY <1>2 DEF ClearSpan, SameCells, SameBelow
<1> QED
  BY <1>1, <1>2

\* The span behind the log is cleared: by a recovery, and before a header is stored.
LEMMA TailCleared ==
  ASSUME RuntimeIInv, History, SplitCells = {}, NEW r \in Regions, Laid(r), log'[r] = log[r],
         ClearSpan(r, LogEnd(r)), NoProgress(r), SameStores(r), TailBound(r)' = TailBound(r)
  PROVE  Laid(r)' /\ LogEnd(r)' = LogEnd(r)
<1>1. Types /\ Tiled(r) /\ LogEnd(r) \in 0 .. Capacity
  BY Geometry, Constants DEF RuntimeIInv, Laid
<1>2. /\ SameBelow(r, LogEnd(r))
      /\ LogEnd(r) < Capacity =>
           /\ cells'[<<r, LogEnd(r)>>].span = Empty
           /\ \A v \in cellsMedium'[<<r, LogEnd(r)>>] :
                v \in cellsMedium[<<r, LogEnd(r)>>] \/ v.span = Empty
  BY <1>1, ClearEffect
<1>3. /\ Tiled(r)' /\ Written(r)' /\ Stores(r)' /\ Headed(r)'
      /\ LogEnd(r)' = LogEnd(r) /\ (AllDurable(r)' => AllDurable(r))
  BY <1>2, EntriesFrame
<1>4. Ended(r)'
  <2> SUFFICES ASSUME LogEnd(r) < Capacity
               PROVE  /\ TailOK(cells'[<<r, LogEnd(r)>>], TailBound(r))
                      /\ AllDurable(r)' =>
                           \A v \in cellsMedium'[<<r, LogEnd(r)>>] : TailOK(v, TailBound(r))
    BY <1>3 DEF Ended, TailOK
  <2>1. AllDurable(r) => \A v \in cellsMedium[<<r, LogEnd(r)>>] : TailOK(v, TailBound(r))
    BY DEF Laid, Ended
  <2> QED
    BY <1>2, <1>3, <2>1 DEF TailOK
<1> QED
  BY <1>3, <1>4 DEF Laid

LEMMA ClearNextLaid ==
  ASSUME HistoryIInv, RuntimeIInv', AllLaid, SplitCells = {}, NEW r \in Regions, ClearNext(r)
  PROVE  AllLaid'
<1>1. RuntimeIInv /\ Types /\ History /\ r \in Actors /\ Regions \subseteq Actors
  BY StateTypes DEF HistoryIInv, RuntimeIInv
<1>2. /\ pc[r] = "clear_next" /\ pc' = [pc EXCEPT ![r] = "store_timestamp"]
      /\ ClearSpan(r, loc[r].offset + loc[r].size + 1)
      /\ UNCHANGED <<maxValid, allocated, ops, committed, persisted, phase, loc, log>>
  BY DEF ClearNext, Goto, timestamps
<1>3. pc[r] \in Storing /\ pc[r] \in Writing
  BY <1>2 DEF Storing, Writing
<1>4. r \in allocated /\ LogEnd(r) = loc[r].offset + loc[r].size + 1
  BY <1>1, <1>3, OfTheActor, WriterStores
<1>5. Laid(r) /\ Tiled(r) /\ LogEnd(r) \in 0 .. Capacity
  BY <1>1, <1>4, Geometry, Constants DEF AllLaid, Laid
<1>6. UNCHANGED <<Published, Copied, Durable>>
  BY <1>2, ProgressKept
<1>7. \A q \in Regions : NoProgress(q) /\ TailBound(q)' = TailBound(q)
  BY <1>2, <1>6, BoundKept DEF NoProgress
<1>8. pc'[r] = "store_timestamp" /\ \A q \in Regions : q # r => SameWriter(q)
  <2>1. pc = [b \in Actors |-> pc[b]]
    BY <1>1, StateTypes
  <2>2. \A q \in Regions : q # r => pc'[q] = pc[q]
    BY <1>1, <1>2, <2>1
  <2>3. pc'[r] = "store_timestamp"
    BY <1>1, <1>2, <2>1
  <2> QED
    BY <1>2, <2>2, <2>3 DEF SameWriter, SameStores
<1>9. Laid(r)'
  <2>1. SameStores(r) /\ ClearSpan(r, LogEnd(r)) /\ log'[r] = log[r]
    BY <1>2, <1>4, <1>8 DEF SameStores
  <2> QED
    BY <1>1, <1>5, <1>7, <2>1, TailCleared
<1>10. \A q \in Regions : q # r => SameCells(q)
  BY <1>1, <1>2, <1>4, <1>5, ClearEffect
<1> QED
  BY <1>1, <1>2, <1>7, <1>8, <1>9, <1>10, LaidExcept, StateTypes

\* The entry whose header is being stored is not published, hence not durable.
LEMMA StoredUnpublished ==
  ASSUME RuntimeIInv, History, NEW r \in Regions, pc[r] \in Storing
  PROVE  /\ loc[r].timestamp \notin Published /\ loc[r].timestamp \notin Durable
         /\ ~AllDurable(r)
<1>1. /\ log[r][Len(log[r])].timestamp = loc[r].timestamp /\ committed < loc[r].timestamp
      /\ Len(log[r]) \in 1 .. Len(log[r]) /\ loc[r].timestamp \in Nat
  BY WriterStores
<1>2. \A op \in ops : op.timestamp = loc[r].timestamp => ~op.published
  BY DEF History, WriterOK
<1>3. Types /\ committed \in Nat /\ Len(log[r]) \in Nat
  BY StateTypes, LogTypes DEF RuntimeIInv
<1>4. ~(loc[r].timestamp <= committed)
  BY <1>1, <1>3
<1>5. loc[r].timestamp \notin Published
  BY <1>2, <1>4 DEF Published
<1>6. loc[r].timestamp \notin Durable
  BY <1>3, <1>5, DurableIsWritten
<1>7. Len(log[r]) # 0
  BY <1>1, <1>3
<1> QED
  BY <1>1, <1>5, <1>6, <1>7 DEF AllDurable

\* One of the two words of a header is stored.
LEMMA HeaderStored ==
  ASSUME RuntimeIInv, History, SplitCells = {}, NEW r \in Regions, Laid(r), log'[r] = log[r],
         NoProgress(r), TailBound(r)' = TailBound(r), loc'[r] = loc[r],
         pc[r] \in Storing, pc[r] # "clear_next",
         NEW c, StoreCell(<<r, loc[r].offset>>, c), c.timestamp = loc[r].timestamp,
         pc'[r] = "publish" => c.span = loc[r].size
  PROVE  Laid(r)'
<1> DEFINE n == Len(log[r])
           o == loc[r].offset
<1>1. Types /\ Tiled(r)
  BY DEF RuntimeIInv, Laid
<1>2. /\ n \in 1 .. n /\ log[r][n].timestamp = loc[r].timestamp /\ log[r][n].offset = o
      /\ Len(log[r][n].payload) = loc[r].size /\ n \in Nat
  BY <1>1, WriterStores, LogTypes
<1>3. o \in 0 .. Capacity - 1 /\ o < LogEnd(r) /\ o + 0 = o
  BY <1>1, <1>2, HeaderIndex
<1>4. /\ cells'[<<r, o>>] = c /\ cellsMedium'[<<r, o>>] = cellsMedium[<<r, o>>] \union {c}
      /\ \A i \in 0 .. Capacity - 1 :
           i # o => /\ cells'[<<r, i>>] = cells[<<r, i>>]
                    /\ cellsMedium'[<<r, i>>] = cellsMedium[<<r, i>>]
  BY <1>1, <1>3, StoreEffect
<1>5. Tiled(r)' /\ LogEnd(r)' = LogEnd(r)
  BY <1>1, TiledFrame
<1>6. loc[r].timestamp \notin Published' /\ loc[r].timestamp \notin Durable'
  <2>1. loc[r].timestamp \notin Published /\ loc[r].timestamp \notin Durable
    BY StoredUnpublished
  <2> QED
    BY <1>2, <2>1 DEF NoProgress
<1>7. ASSUME NEW k \in 1 .. n, NEW i \in 0 .. Len(log[r][k].payload), k # n \/ i # 0
      PROVE  /\ cells'[<<r, log[r][k].offset + i>>] = cells[<<r, log[r][k].offset + i>>]
             /\ cellsMedium'[<<r, log[r][k].offset + i>>] = cellsMedium[<<r, log[r][k].offset + i>>]
  <2>1. log[r][k].offset + i \in 0 .. Capacity - 1
    BY <1>1, OwnIndex
  <2>2. 0 \in 0 .. Len(log[r][n].payload)
    BY <1>1, <1>2, Geometry
  <2> HIDE DEF n
  <2>5. \A m \in 1 .. Len(log[r]) : \A j \in 0 .. Len(log[r][m].payload) :
          log[r][k].offset + i = log[r][m].offset + j => k = m /\ i = j
    BY <1>1, OwnPlaces DEF n
  <2>3. log[r][k].offset + i = log[r][n].offset + 0 => k = n /\ i = 0
    BY <1>2, <2>2, <2>5 DEF n
  <2>4. log[r][k].offset + i # o
    BY <1>2, <1>3, <1>7, <2>3
  <2> QED
    BY <1>4, <2>1, <2>4
<1>8. ASSUME NEW k \in 1 .. n, k # n
      PROVE  /\ Header(r, k)' = Header(r, k)
             /\ cellsMedium'[<<r, log[r][k].offset>>] = cellsMedium[<<r, log[r][k].offset>>]
  <2>1. log[r][k].offset + 0 = log[r][k].offset /\ 0 \in 0 .. Len(log[r][k].payload)
    BY <1>1, HeaderIndex, Geometry, SMTT(30)
  <2> QED
    BY <1>7, <1>8, <2>1 DEF Header
<1>9. ASSUME NEW k \in 1 .. n PROVE WrittenAt(r, k)'
  <2>1. WrittenAt(r, k)
    BY DEF Laid, Written
  <2>2. \A i \in 1 .. Len(log[r][k].payload) : i \in 0 .. Len(log[r][k].payload) /\ i # 0
    OBVIOUS
  <2>3. /\ log[r][k].timestamp \in Published' => log[r][k].timestamp \in Published
        /\ log[r][k].timestamp \in Copied' => log[r][k].timestamp \in Copied
        /\ log[r][k].timestamp \in Durable' => log[r][k].timestamp \in Durable
    BY DEF NoProgress
  <2>4. CASE k = n
    BY <1>2, <1>6, <1>7, <2>1, <2>2, <2>3, <2>4 DEF WrittenAt
  <2>5. CASE k # n
    <3>1. Header(r, k)' = Header(r, k)
      BY <1>8, <2>5
    <3>2. \A i \in 0 .. Len(log[r][k].payload) :
            /\ cells'[<<r, log[r][k].offset + i>>] = cells[<<r, log[r][k].offset + i>>]
            /\ cellsMedium'[<<r, log[r][k].offset + i>>] = cellsMedium[<<r, log[r][k].offset + i>>]
      BY <1>7, <2>5
    <3> HIDE DEF Header, n
    <3> DEFINE e == log[r][k]
    <3>3. e.timestamp \in Published' =>
            Header(r, k)'.span = Len(e.payload) /\ Header(r, k)'.timestamp = e.timestamp
      BY <2>1, <2>3, <3>1 DEF WrittenAt
    <3>4. e.timestamp \in Copied' =>
            \A j \in 1 .. Len(e.payload) : cells'[<<r, e.offset + j>>].payload = e.payload[j]
      BY <2>1, <2>2, <2>3, <3>2 DEF WrittenAt
    <3>5. e.timestamp \in Durable' =>
            \A j \in 0 .. Len(e.payload) :
              cellsMedium'[<<r, e.offset + j>>] = {cells'[<<r, e.offset + j>>]}
      BY <2>1, <2>3, <3>2 DEF WrittenAt
    <3> QED
      BY <3>3, <3>4, <3>5 DEF WrittenAt
  <2> QED
    BY <2>4, <2>5
<1>10. Stores(r)'
  BY <1>4 DEF Stores
<1>11. ASSUME NEW k \in 1 .. n PROVE HeadedAt(r, k)'
  <2>1. HeadedAt(r, k)
    BY DEF Laid, Headed
  <2>2. DurableBefore(r, k)' => DurableBefore(r, k)
    <3>1. k # 1 => k - 1 \in 1 .. n
      BY <1>2
    <3> QED
      BY <3>1 DEF DurableBefore, NoProgress
  <2>3. CASE k = n
    BY <1>2, <1>4, <2>1, <2>2, <2>3 DEF HeadedAt, Header, HeaderOK
  <2>4. CASE k # n
    BY <1>8, <2>1, <2>2, <2>4 DEF HeadedAt
  <2> QED
    BY <2>3, <2>4
<1>12. Ended(r)'
  <2>1. ~AllDurable(r)'
    BY <1>2, <1>6 DEF AllDurable
  <2>2. LogEnd(r) < Capacity => LogEnd(r) \in 0 .. Capacity - 1
    BY <1>1, Geometry, Constants
  <2>3. LogEnd(r) < Capacity => cells'[<<r, LogEnd(r)>>] = cells[<<r, LogEnd(r)>>]
    <3>1. LogEnd(r) # o
      BY <1>1, <1>3, Geometry
    <3> QED
      BY <1>4, <2>2, <3>1
  <2>4. LogEnd(r) < Capacity => TailOK(cells[<<r, LogEnd(r)>>], TailBound(r))
    BY DEF Laid, Ended
  <2> QED
    BY <1>5, <2>1, <2>3, <2>4 DEF Ended, TailOK
<1> QED
  BY <1>5, <1>9, <1>10, <1>11, <1>12 DEF Laid, Written, Headed

LEMMA StoreHeaderLaid ==
  ASSUME HistoryIInv, RuntimeIInv', AllLaid, SplitCells = {}, NEW r \in Regions,
         StoreTimestamp(r) \/ StoreSpan(r)
  PROVE  AllLaid'
<1>1. RuntimeIInv /\ Types /\ History /\ r \in Actors /\ Regions \subseteq Actors
  BY StateTypes DEF HistoryIInv, RuntimeIInv
<1>2. UNCHANGED <<maxValid, allocated, ops, committed, persisted, phase, loc, log>>
  BY DEF StoreTimestamp, StoreSpan, StoreHeader, timestamps
<1>3. pc[r] \in Storing /\ pc[r] # "clear_next" /\ pc[r] \in Writing
  BY DEF StoreTimestamp, StoreSpan, StoreHeader, Storing, Writing
<1>4. r \in allocated /\ Laid(r)
  BY <1>1, <1>3, OfTheActor DEF AllLaid
<1>5. loc[r].offset \in 0 .. Capacity - 1
  <2>1. Len(log[r]) \in 1 .. Len(log[r]) /\ log[r][Len(log[r])].offset = loc[r].offset
    BY <1>1, <1>3, WriterStores
  <2> QED
    BY <1>1, <1>4, <2>1, HeaderIndex DEF Laid
<1>6. cells[<<r, loc[r].offset>>] \in Cell /\ loc[r].timestamp \in Nat /\ loc[r].size \in Nat
  <2>1. <<r, loc[r].offset>> \in Places
    BY <1>5 DEF Places
  <2>2. cells[<<r, loc[r].offset>>] \in Cell
    BY <1>1, <2>1 DEF Types, CellTypes
  <2>3. loc[r] \in Locals
    BY <1>1, StateTypes
  <2> QED
    BY <2>2, <2>3 DEF Locals
<1>7. \E c : /\ StoreCell(<<r, loc[r].offset>>, c) /\ c.timestamp = loc[r].timestamp
             /\ pc'[r] = "publish" => c.span = loc[r].size
  <2>0. pc = [b \in Actors |-> pc[b]]
    BY <1>1, StateTypes
  <2>1. CASE StoreTimestamp(r)
    <3> DEFINE c == [cells[<<r, loc[r].offset>>] EXCEPT !.timestamp = loc[r].timestamp]
    <3>1. StoreCell(<<r, loc[r].offset>>, c) /\ pc' = [pc EXCEPT ![r] = "store_span"]
      BY <2>1 DEF StoreTimestamp, StoreHeader, Goto
    <3>2. c.timestamp = loc[r].timestamp
      BY <1>6 DEF Cell
    <3>3. pc'[r] = "store_span"
      BY <1>1, <2>0, <3>1
    <3> HIDE DEF c
    <3> QED
      BY <3>1, <3>2, <3>3
  <2>2. CASE StoreSpan(r)
    <3> DEFINE c == [cells[<<r, loc[r].offset>>] EXCEPT !.span = loc[r].size]
    <3>1. StoreCell(<<r, loc[r].offset>>, c) /\ pc[r] = "store_span"
      BY <2>2 DEF StoreSpan, StoreHeader
    <3>2. c.timestamp = cells[<<r, loc[r].offset>>].timestamp /\ c.span = loc[r].size
      BY <1>6 DEF Cell
    <3>3. cells[<<r, loc[r].offset>>].timestamp = loc[r].timestamp
      BY <1>4, <3>1 DEF Laid, Stores
    <3> HIDE DEF c
    <3> QED
      BY <3>1, <3>2, <3>3
  <2> QED
    BY <2>1, <2>2
<1>8. PICK c : /\ StoreCell(<<r, loc[r].offset>>, c) /\ c.timestamp = loc[r].timestamp
               /\ pc'[r] = "publish" => c.span = loc[r].size
  BY <1>7
<1>9. UNCHANGED <<Published, Copied, Durable>>
  BY <1>2, ProgressKept
<1>10. \A q \in Regions : NoProgress(q) /\ TailBound(q)' = TailBound(q)
  BY <1>2, <1>9, BoundKept DEF NoProgress
<1>11. Laid(r)'
  <2>1. log'[r] = log[r] /\ loc'[r] = loc[r]
    BY <1>2
  <2> QED
    BY <1>1, <1>3, <1>4, <1>8, <1>10, <2>1, HeaderStored
<1>12. \A q \in Regions : q # r => SameCells(q)
  BY <1>1, <1>5, <1>8, StoreEffect DEF SameCells, SameBelow
<1>13. \A q \in Regions : q # r => SameWriter(q)
  <2>1. PICK l \in {"store_span", "publish"} : pc' = [pc EXCEPT ![r] = l]
    BY DEF StoreTimestamp, StoreSpan, StoreHeader, Goto
  <2>2. \A q \in Regions : q # r => pc'[q] = pc[q]
    BY <1>1, <2>1, StateTypes
  <2> QED
    BY <1>2, <2>2 DEF SameWriter, SameStores
<1>14. \A q \in allocated' : q \in Regions
  BY <1>1, <1>2, StateTypes
<1> QED
  BY <1>2, <1>10, <1>11, <1>12, <1>13, <1>14, LaidExcept

\* The recovery of a region: its tail is found and cleared, ...
LEMMA RecheckStateLaid ==
  ASSUME HistoryIInv, RuntimeIInv', AllLaid, SplitCells = {}, NEW a \in Actors, RecheckState(a),
         NEW r \in Regions, r = loc[a].region, ClearSpan(r, LogEnd(r))
  PROVE  /\ AllLaid' /\ LogEnd(r)' = LogEnd(r)
         /\ \A q \in Regions : q # r => SameCells(q)
         /\ \A i \in 0 .. Capacity - 1 : cells'[<<r, i>>].timestamp = cells[<<r, i>>].timestamp
         /\ LogEnd(r) < Capacity => cells'[<<r, LogEnd(r)>>].span = Empty
         /\ SameBelow(r, LogEnd(r))
<1>1. RuntimeIInv /\ Types /\ History
  BY DEF HistoryIInv, RuntimeIInv
<1>2. /\ pc[a] = "recheck"
      /\ UNCHANGED <<maxValid, allocated, ops, committed, persisted, phase, log>>
  BY DEF RecheckState, timestamps
<1>3. r \in allocated
  <2>1. pc[a] \in Locked
    BY <1>2 DEF Locked
  <2> QED
    BY <1>1, <2>1, OfTheActor
<1>4. Laid(r) /\ Tiled(r) /\ LogEnd(r) \in 0 .. Capacity
  BY <1>1, <1>3, Geometry, Constants DEF AllLaid, Laid
<1>5. UNCHANGED <<Published, Copied, Durable>>
  BY <1>2, ProgressKept
<1>6. \A q \in Regions : NoProgress(q) /\ TailBound(q)' = TailBound(q)
  BY <1>2, <1>5, BoundKept DEF NoProgress
<1>7. \A q \in Regions : SameWriter(q) /\ SameStores(q)
  <2>1. QuietStep
    BY <1>1, RecoverQuiet DEF Recover
  <2> QED
    BY <1>1, <2>1, QuietSameWriter DEF SameWriter
<1>8. Laid(r)' /\ LogEnd(r)' = LogEnd(r)
  <2>1. log'[r] = log[r]
    BY <1>2
  <2> QED
    BY <1>1, <1>2, <1>3, <1>4, <1>6, <1>7, <2>1, TailCleared
<1>9. /\ \A q \in Regions : q # r => SameCells(q)
      /\ SameBelow(r, LogEnd(r))
      /\ \A i \in 0 .. Capacity - 1 : cells'[<<r, i>>].timestamp = cells[<<r, i>>].timestamp
      /\ LogEnd(r) < Capacity => cells'[<<r, LogEnd(r)>>].span = Empty
  BY <1>1, <1>2, <1>3, <1>4, ClearEffect
<1>10. allocated' \subseteq allocated \union {r}
       /\ \A q \in allocated' : q \in Regions /\ log'[q] = log[q]
  BY <1>1, <1>2, StateTypes
<1>11. AllLaid'
  BY <1>6, <1>7, <1>8, <1>9, <1>10, LaidExcept
<1> QED
  BY <1>8, <1>9, <1>11

\* ... it is persisted, and from now on the region holds nothing that may not be read.
LEMMA SetMaxValidLaid ==
  ASSUME HistoryIInv, RuntimeIInv', AllLaid, NEW a \in Actors, Recovers(a), SetMaxValid(a),
         NEW r, r = loc[a].region, NEW p, p = <<r, LogEnd(r)>>
  PROVE  AllLaid'
<1>1. RuntimeIInv /\ Types /\ History
  BY DEF HistoryIInv, RuntimeIInv
<1>2. /\ pc[a] = "set_max_valid" /\ pc' = [pc EXCEPT ![a] = "write_ready"]
      /\ UNCHANGED <<cells, allocated, ops, committed, persisted, phase, log, loc>>
      /\ maxValid' = [maxValid EXCEPT ![r] = Forever]
  BY DEF SetMaxValid, Goto, timestamps
<1>3. /\ r \in allocated /\ r \in Regions /\ runtimeOf[r] = loc[a].runtime /\ phase = "running"
  <2>1. pc[a] \in Locked
    BY <1>2 DEF Locked
  <2> QED
    BY <1>1, <2>1, OfTheActor
<1>4. appendOffset[loc[a].runtime] = LogEnd(r)
      /\ (LogEnd(r) < Capacity => cells[p].span = Empty)
  BY <1>2, <1>3 DEF Recovers
<1>5. Laid(r) /\ Tiled(r) /\ LogEnd(r) \in Nat /\ LogEnd(r) <= Capacity /\ Capacity \in Nat
  BY <1>1, <1>3, Geometry, Constants DEF AllLaid, Laid
<1>6. UNCHANGED <<Published, Copied, Durable>>
  BY <1>2, ProgressKept
<1>7. \A q \in Regions : NoProgress(q) /\ SameWriter(q) /\ SameStores(q)
  <2>1. QuietStep
    BY <1>1, RecoverQuiet DEF Recover
  <2> QED
    BY <1>1, <1>6, <2>1, QuietSameWriter DEF SameWriter, NoProgress
<1>8. cellsMedium' = IF p \in Places THEN [cellsMedium EXCEPT ![p] = {cells[p]}] ELSE cellsMedium
  BY <1>4 DEF SetMaxValid
<1>9. cellsMedium \in [Places -> SUBSET Cell]
  BY <1>1 DEF Types, CellTypes
<1>10. /\ \A q \in Regions : q # r => SameCells(q)
       /\ SameBelow(r, LogEnd(r))
       /\ LogEnd(r) < Capacity => cellsMedium'[p] = {cells[p]}
  <2>1. ASSUME NEW q \in Regions, NEW i \in 0 .. Capacity - 1, <<q, i>> # p
        PROVE  cellsMedium'[<<q, i>>] = cellsMedium[<<q, i>>]
    <3>1. <<q, i>> \in Places
      BY DEF Places
    <3> QED
      BY <1>8, <1>9, <2>1, <3>1
  <2>2. \A q \in Regions : \A i \in 0 .. Capacity - 1 : q # r \/ i # LogEnd(r) => <<q, i>> # p
    OBVIOUS
  <2>3. \A q \in Regions : q # r => SameCells(q)
    BY <1>2, <2>1, <2>2 DEF SameCells, SameBelow
  <2>4. \A i \in 0 .. Capacity - 1 : i < LogEnd(r) => i # LogEnd(r)
    BY <1>5
  <2>5. SameBelow(r, LogEnd(r))
    BY <1>2, <1>3, <2>1, <2>2, <2>4 DEF SameBelow
  <2>6. LogEnd(r) < Capacity => cellsMedium'[p] = {cells[p]}
    <3>1. LogEnd(r) < Capacity => p \in Places
      BY <1>1, <1>3, <1>5, TailPlace
    <3> QED
      BY <1>8, <1>9, <3>1
  <2> QED
    BY <2>3, <2>5, <2>6
<1>11. /\ Tiled(r)' /\ Written(r)' /\ Stores(r)' /\ Headed(r)'
       /\ LogEnd(r)' = LogEnd(r)
  <2>1. log'[r] = log[r]
    BY <1>2
  <2> QED
    BY <1>1, <1>3, <1>5, <1>7, <1>10, <2>1, EntriesFrame
<1>12. Laid(r)'
  <2>1. Ended(r)'
    BY <1>2, <1>4, <1>10, <1>11 DEF Ended, TailOK
  <2> QED
    BY <1>11, <2>1 DEF Laid
<1>13. ASSUME NEW q \in allocated', q # r PROVE q \in Regions /\ TailBound(q)' = TailBound(q)
  <2>1. q \in Regions
    BY <1>1, <1>2, StateTypes
  <2>2. maxValid'[q] = maxValid[q]
    BY <1>1, <1>2, <1>13, <2>1, StateTypes
  <2> QED
    BY <1>2, <2>1, <2>2 DEF TailBound
<1> QED
  BY <1>2, <1>7, <1>10, <1>12, <1>13, LaidExcept

\* A header is complete.
LEMMA PublishLaid ==
  ASSUME HistoryIInv, RuntimeIInv', AllLaid, NEW r \in Regions, Publish(r)
  PROVE  AllLaid'
<1>1. RuntimeIInv /\ Types /\ History
  BY DEF HistoryIInv, RuntimeIInv
<1>2. /\ pc[r] = "publish" /\ pc'[r] = "idle"
      /\ \A q \in Regions : q # r => pc'[q] = pc[q] /\ loc'[q] = loc[q]
      /\ UNCHANGED <<cells, cellsMedium, maxValid, allocated, committed, persisted, phase, log>>
  BY <1>1, PublishEffect DEF memory
<1>3. pc[r] \in Storing /\ pc[r] \in Writing
  BY <1>2 DEF Storing, Writing
<1>4. r \in allocated /\ Laid(r)
  BY <1>1, <1>3, Constants, OfTheActor DEF AllLaid
<1> DEFINE n == Len(log[r])
           t == loc[r].timestamp
<1>5. /\ n \in 1 .. n /\ log[r][n].timestamp = t /\ log[r][n].offset = loc[r].offset
      /\ Len(log[r][n].payload) = loc[r].size /\ committed < log[r][n].timestamp
  BY <1>1, <1>3, WriterStores
<1>6. (\A x \in Published' : x \in Published \/ x = t) /\ UNCHANGED <<Copied, Durable>>
  BY <1>1, PublishProgress
<1>7. PICK op \in ops : op.region = r /\ op.timestamp = t
  BY <1>1, <1>5 DEF History, Pending
<1>8. ASSUME NEW q \in Regions, NEW k \in 1 .. Len(log[q]), log[q][k].timestamp = t
      PROVE  q = r
  BY <1>1, <1>7, <1>8, OneEntry
<1>9. ASSUME NEW q \in allocated', q # r
      PROVE  /\ log'[q] = log[q] /\ SameCells(q) /\ NoProgress(q)
             /\ SameWriter(q) /\ TailBound(q)' = TailBound(q)
  <2>1. q \in Regions
    BY <1>1, <1>2, StateTypes
  <2>2. NoProgress(q)
    BY <1>6, <1>8, <1>9, <2>1 DEF NoProgress
  <2> QED
    BY <1>2, <1>9, <2>1, <2>2, BoundKept DEF SameCells, SameBelow, SameWriter, SameStores
<1>10. Header(r, n).timestamp = t /\ Header(r, n).span = loc[r].size
  BY <1>2, <1>4, <1>5 DEF Laid, Stores, Header
<1>11. Tiled(r)' /\ LogEnd(r)' = LogEnd(r)
  <2>1. Tiled(r) /\ log'[r] = log[r]
    BY <1>2, <1>4 DEF Laid
  <2> QED
    BY <2>1, TiledFrame
<1>12. ASSUME NEW k \in 1 .. n PROVE WrittenAt(r, k)'
  <2>1. WrittenAt(r, k) /\ Header(r, k)' = Header(r, k)
    BY <1>2, <1>4 DEF Laid, Written, Header
  <2>2. CASE log[r][k].timestamp # t
    <3> HIDE DEF Header, n, t
    <3> QED
      BY <1>2, <1>6, <2>1, <2>2 DEF WrittenAt
  <2>3. CASE log[r][k].timestamp = t
    <3>1. Matches(log[r][k], op) /\ Matches(log[r][n], op)
      BY <1>1, <1>5, <1>7, <2>3, OneEntry
    <3>2. log[r][k].payload = log[r][n].payload /\ log[r][k].offset = log[r][n].offset
      BY <3>1 DEF Matches
    <3>3. Header(r, k).timestamp = t /\ Header(r, k).span = Len(log[r][k].payload)
      BY <1>5, <1>10, <3>2 DEF Header
    <3> HIDE DEF Header, n, t
    <3> QED
      BY <1>2, <1>6, <2>1, <2>3, <3>3 DEF WrittenAt
  <2> QED
    BY <2>2, <2>3
<1>13. Stores(r)'
  BY <1>2 DEF Stores
<1>14. \A k \in 1 .. n : HeadedAt(r, k)'
  BY <1>2, <1>4, <1>6 DEF Laid, Headed, HeadedAt, Header, DurableBefore
<1>15. Ended(r)'
  <2>1. TailBound(r)' = TailBound(r)
    BY <1>2, BoundKept
  <2> QED
    BY <1>2, <1>4, <1>6, <1>11, <2>1 DEF Laid, Ended, AllDurable, TailOK
<1>16. Laid(r)'
  BY <1>2, <1>11, <1>12, <1>13, <1>14, <1>15 DEF Laid, Written, Headed
<1> QED
  BY <1>2, <1>9, <1>16, LaidExcept

-----------------------------------------------------------------------------
(* The copy of a payload, and its persisting                               *)

\* The entry of an operation in flight.
LEMMA OpEntry ==
  ASSUME RuntimeIInv, History, NEW op \in ops, NEW r, r = op.region
  PROVE  /\ r \in allocated /\ r \in Regions /\ op.offset \in Nat /\ op.size \in Nat
         /\ \E k \in 1 .. Len(log[r]) :
              /\ log[r][k].timestamp = op.timestamp /\ log[r][k].offset = op.offset
              /\ Len(log[r][k].payload) = op.size
              /\ \A j \in 1 .. op.size : log[r][k].payload[j] = op.append
         /\ \A q \in Regions : \A m \in 1 .. Len(log[q]) :
              log[q][m].timestamp = op.timestamp => q = r
<1>1. Types /\ op.region \in Regions /\ op.size \in Nat /\ op.offset \in Nat
  BY OpTypes DEF RuntimeIInv
<1>2. r \in allocated
  BY DEF RuntimeIInv, RuntimeInv, OpsOfUsed
<1>3. PICK k \in 1 .. Len(log[r]) : Matches(log[r][k], op)
  BY DEF History, InFlight
<1>4. Len([j \in 1 .. op.size |-> op.append]) = op.size
  BY <1>1
<1>5. /\ log[r][k].timestamp = op.timestamp /\ log[r][k].offset = op.offset
      /\ Len(log[r][k].payload) = op.size
      /\ \A j \in 1 .. op.size : log[r][k].payload[j] = op.append
  BY <1>3, <1>4 DEF Matches
<1>6. \A q \in Regions : \A m \in 1 .. Len(log[q]) :
        log[q][m].timestamp = op.timestamp => q = r
  BY <1>1, OneEntry
<1> QED
  BY <1>1, <1>2, <1>5, <1>6

\* Its places belong to no other entry.
LEMMA OpOwns ==
  ASSUME RuntimeIInv, NEW r \in Regions, Tiled(r), NEW k \in 1 .. Len(log[r]),
         NEW m \in 1 .. Len(log[r]), NEW i \in 0 .. Len(log[r][m].payload),
         log[r][k].offset <= log[r][m].offset + i,
         log[r][m].offset + i <= log[r][k].offset + Len(log[r][k].payload)
  PROVE  m = k
<1> DEFINE j == log[r][m].offset + i - log[r][k].offset
<1>1. Types
  BY DEF RuntimeIInv
<1>2. /\ log[r][m].offset \in Nat /\ log[r][k].offset \in Nat /\ Len(log[r][k].payload) \in Nat
      /\ Len(log[r][m].payload) \in Nat
  BY <1>1, Geometry
<1>3. j \in 0 .. Len(log[r][k].payload) /\ log[r][m].offset + i = log[r][k].offset + j
  <2>1. \A a, b, c, d \in Nat : a <= b + c /\ b + c <= a + d =>
          b + c - a \in 0 .. d /\ b + c = a + (b + c - a)
    OBVIOUS
  <2>2. i \in Nat
    BY <1>2
  <2> QED
    BY <1>2, <2>1, <2>2
<1> HIDE DEF j
<1>4. \A h \in 0 .. Len(log[r][k].payload) :
        log[r][m].offset + i = log[r][k].offset + h => m = k /\ i = h
  BY <1>1, OwnPlaces
<1> QED
  BY <1>3, <1>4

LEMMA CopyDoneEffect ==
  ASSUME Types, SplitCells = {}, NEW op \in ops, CopyDone(op),
         NEW q \in Regions, NEW j \in 0 .. Capacity - 1
  PROVE  IF q = op.region /\ op.offset < j /\ j <= op.offset + op.size
         THEN cells'[<<q, j>>] = PayloadCell(op.append)
         ELSE /\ cells'[<<q, j>>] = cells[<<q, j>>]
              /\ cellsMedium'[<<q, j>>] = cellsMedium[<<q, j>>]
<1>1. <<q, j>> \in Places /\ j \in Nat
  BY Constants DEF Places
<1>2. op.offset \in Nat /\ op.size \in Nat
  BY OpTypes
<1>3. <<q, j>> \in PayloadPlaces(op) <=>
        q = op.region /\ j \in op.offset + 1 .. op.offset + op.size
  BY DEF PayloadPlaces
<1>4. j \in op.offset + 1 .. op.offset + op.size <=>
        op.offset < j /\ j <= op.offset + op.size
  BY <1>1, <1>2
<1>5. /\ cells'[<<q, j>>] = IF <<q, j>> \in PayloadPlaces(op) THEN PayloadCell(op.append)
                            ELSE cells[<<q, j>>]
      /\ <<q, j>> \notin PayloadPlaces(op) => cellsMedium'[<<q, j>>] = cellsMedium[<<q, j>>]
  BY <1>1 DEF CopyDone
<1> QED
  BY <1>3, <1>4, <1>5

LEMMA CopyDoneLaid ==
  ASSUME HistoryIInv, RuntimeIInv', AllLaid, SplitCells = {}, NEW op \in ops, CopyDone(op),
         NEW r, r = op.region
  PROVE  AllLaid'
<1>1. RuntimeIInv /\ Types /\ History
  BY DEF HistoryIInv, RuntimeIInv
<1>2. UNCHANGED <<maxValid, allocated, committed, persisted, phase, pc, loc, log>>
  BY DEF CopyDone
<1>3. /\ r \in allocated /\ r \in Regions /\ op.offset \in Nat /\ op.size \in Nat
      /\ \A q \in Regions : \A m \in 1 .. Len(log[q]) :
           log[q][m].timestamp = op.timestamp => q = r
  BY <1>1, OpEntry
<1>4. PICK k \in 1 .. Len(log[r]) :
        /\ log[r][k].timestamp = op.timestamp /\ log[r][k].offset = op.offset
        /\ Len(log[r][k].payload) = op.size
        /\ \A j \in 1 .. op.size : log[r][k].payload[j] = op.append
  BY <1>1, OpEntry, SMTT(30)
<1>5. /\ \A t \in Copied' : t \in Copied \/ t = op.timestamp
      /\ Published' = Published /\ Durable' = Durable /\ op.timestamp \notin Durable
  BY <1>1, CopyDoneProgress
<1>6. Laid(r) /\ Tiled(r) /\ Stores(r)
  BY <1>3 DEF AllLaid, Laid
<1>7. \A q \in Regions : \A j \in 0 .. Capacity - 1 :
        IF q = r /\ op.offset < j /\ j <= op.offset + op.size
        THEN cells'[<<q, j>>] = PayloadCell(op.append)
        ELSE /\ cells'[<<q, j>>] = cells[<<q, j>>]
             /\ cellsMedium'[<<q, j>>] = cellsMedium[<<q, j>>]
  BY <1>1, CopyDoneEffect
<1>8. \A q \in Regions : SameWriter(q) /\ TailBound(q)' = TailBound(q)
  BY <1>2, BoundKept DEF SameWriter, SameStores
<1>9. ASSUME NEW q \in allocated', q # r
      PROVE  log'[q] = log[q] /\ SameCells(q) /\ NoProgress(q)
  <2>1. q \in Regions
    BY <1>1, <1>2, StateTypes
  <2>2. SameCells(q)
    BY <1>7, <1>9, <2>1 DEF SameCells, SameBelow
  <2>3. NoProgress(q)
    BY <1>3, <1>5, <1>9, <2>1 DEF NoProgress
  <2> QED
    BY <1>2, <2>2, <2>3
<1>10. ASSUME NEW m \in 1 .. Len(log[r]), NEW i \in 0 .. Len(log[r][m].payload), m # k \/ i = 0
       PROVE  /\ cells'[<<r, log[r][m].offset + i>>] = cells[<<r, log[r][m].offset + i>>]
              /\ cellsMedium'[<<r, log[r][m].offset + i>>] = cellsMedium[<<r, log[r][m].offset + i>>]
  <2>1. log[r][m].offset + i \in 0 .. Capacity - 1
    BY <1>1, <1>3, <1>6, OwnIndex
  <2>2. log[r][m].offset \in Nat
    BY <1>1, <1>3, <1>6, Geometry
  <2>3. ~(op.offset < log[r][m].offset + i /\ log[r][m].offset + i <= op.offset + op.size)
    <3>1. CASE m # k
      <4>1. log[r][k].offset <= log[r][m].offset + i
              /\ log[r][m].offset + i <= log[r][k].offset + Len(log[r][k].payload) => m = k
        BY <1>1, <1>3, <1>6, OpOwns
      <4>2. op.offset < log[r][m].offset + i => op.offset <= log[r][m].offset + i
        BY <1>3, <2>2
      <4> QED
        BY <1>4, <3>1, <4>1, <4>2
    <3>2. CASE m = k
      BY <1>3, <1>4, <1>10, <3>2
    <3> QED
      BY <3>1, <3>2
  <2> QED
    BY <1>3, <1>7, <2>1, <2>3
<1>11. ASSUME NEW m \in 1 .. Len(log[r])
       PROVE  /\ Header(r, m)' = Header(r, m)
              /\ cellsMedium'[<<r, log[r][m].offset>>] = cellsMedium[<<r, log[r][m].offset>>]
  <2>1. /\ log[r][m].offset + 0 = log[r][m].offset /\ Len(log[r][m].payload) \in Nat
    BY <1>1, <1>3, <1>6, HeaderIndex, Geometry
  <2>2. 0 \in 0 .. Len(log[r][m].payload)
    BY <2>1
  <2>3. /\ cells'[<<r, log[r][m].offset + 0>>] = cells[<<r, log[r][m].offset + 0>>]
        /\ cellsMedium'[<<r, log[r][m].offset + 0>>] = cellsMedium[<<r, log[r][m].offset + 0>>]
    BY <1>10, <2>2
  <2> QED
    BY <1>2, <2>1, <2>3 DEF Header
<1>12. Tiled(r)' /\ LogEnd(r)' = LogEnd(r)
  BY <1>2, <1>3, <1>6, TiledFrame
<1>13. ASSUME NEW m \in 1 .. Len(log[r]) PROVE WrittenAt(r, m)'
  <2>1. WrittenAt(r, m) /\ log'[r][m] = log[r][m] /\ Header(r, m)' = Header(r, m)
    BY <1>2, <1>6, <1>11 DEF Laid, Written
  <2>2. \A i \in 1 .. Len(log[r][m].payload) : i \in 0 .. Len(log[r][m].payload)
    OBVIOUS
  <2>3. CASE m # k
    <3>1. \A i \in 0 .. Len(log[r][m].payload) :
            /\ cells'[<<r, log[r][m].offset + i>>] = cells[<<r, log[r][m].offset + i>>]
            /\ cellsMedium'[<<r, log[r][m].offset + i>>] = cellsMedium[<<r, log[r][m].offset + i>>]
      BY <1>10, <2>3
    <3>2. log[r][m].timestamp # op.timestamp
      <4>1. /\ Len(log[r]) \in Nat /\ log[r][m].timestamp \in Nat /\ log[r][k].timestamp \in Nat
        BY <1>1, <1>3, LogTypes
      <4>2. /\ m < k => log[r][m].timestamp < log[r][k].timestamp
            /\ k < m => log[r][k].timestamp < log[r][m].timestamp
        BY <1>1, <1>3 DEF History, LogTimes
      <4> QED
        BY <1>4, <2>3, <4>1, <4>2
    <3>3. /\ log[r][m].timestamp \in Published' => log[r][m].timestamp \in Published
          /\ log[r][m].timestamp \in Copied' => log[r][m].timestamp \in Copied
          /\ log[r][m].timestamp \in Durable' => log[r][m].timestamp \in Durable
      BY <1>5, <3>2
    <3> HIDE DEF Header
    <3> QED
      BY <2>1, <2>2, <3>1, <3>3 DEF WrittenAt
  <2>4. CASE m = k
    <3>1. ASSUME NEW i \in 1 .. Len(log[r][k].payload)
          PROVE  cells'[<<r, log[r][k].offset + i>>].payload = log[r][k].payload[i]
      <4>1. i \in 0 .. Len(log[r][k].payload) /\ i \in 1 .. op.size
        BY <1>4
      <4>2. log[r][k].offset + i \in 0 .. Capacity - 1
        BY <1>1, <1>3, <1>6, <4>1, OwnIndex
      <4>3. op.offset < log[r][k].offset + i /\ log[r][k].offset + i <= op.offset + op.size
        BY <1>3, <1>4, <4>1
      <4>4. cells'[<<r, log[r][k].offset + i>>] = PayloadCell(op.append)
        BY <1>3, <1>7, <4>2, <4>3
      <4> QED
        BY <1>4, <4>1, <4>4 DEF PayloadCell
    <3>2. log[r][m].timestamp \notin Durable'
      BY <1>4, <1>5, <2>4
    <3>3. log[r][m].timestamp \in Published' => log[r][m].timestamp \in Published
      BY <1>5
    <3> HIDE DEF Header
    <3> QED
      BY <2>1, <2>4, <3>1, <3>2, <3>3 DEF WrittenAt
  <2> QED
    BY <2>3, <2>4
<1>14. Stores(r)'
  <2> SUFFICES ASSUME pc[r] \in {"store_span", "publish"}
               PROVE  cells'[<<r, loc[r].offset>>] = cells[<<r, loc[r].offset>>]
    BY <1>2, <1>6 DEF Stores
  <2>1. pc[r] \in Storing
    BY DEF Storing
  <2>2. Len(log[r]) \in 1 .. Len(log[r]) /\ log[r][Len(log[r])].offset = loc[r].offset
    BY <1>1, <1>3, <2>1, WriterStores
  <2> QED
    BY <1>2, <1>11, <2>2 DEF Header
<1>15. ASSUME NEW m \in 1 .. Len(log[r]) PROVE HeadedAt(r, m)'
  <2>1. HeadedAt(r, m) /\ log'[r] = log[r]
    BY <1>2, <1>6 DEF Laid, Headed
  <2> QED
    BY <1>5, <1>11, <2>1 DEF HeadedAt, DurableBefore, Header
<1>16. Ended(r)'
  <2> SUFFICES ASSUME LogEnd(r) < Capacity
               PROVE  /\ cells'[<<r, LogEnd(r)>>] = cells[<<r, LogEnd(r)>>]
                      /\ cellsMedium'[<<r, LogEnd(r)>>] = cellsMedium[<<r, LogEnd(r)>>]
    BY <1>2, <1>3, <1>5, <1>6, <1>8, <1>12 DEF Laid, Ended, AllDurable, TailOK
  <2>1. /\ LogEnd(r) \in Nat /\ Capacity \in Nat /\ EntryEnd(log[r][k]) <= LogEnd(r)
        /\ EntryEnd(log[r][k]) = log[r][k].offset + 1 + Len(log[r][k].payload)
    BY <1>1, <1>3, <1>6, Geometry, Constants
  <2>2. LogEnd(r) \in 0 .. Capacity - 1 /\ ~(LogEnd(r) <= op.offset + op.size)
    BY <1>3, <1>4, <2>1
  <2> QED
    BY <1>3, <1>7, <2>2
<1>17. Laid(r)'
  BY <1>2, <1>12, <1>13, <1>14, <1>15, <1>16 DEF Laid, Written, Headed
<1>18. allocated' \subseteq allocated \union {r} /\ \A q \in allocated' : q \in Regions
  BY <1>1, <1>2, StateTypes
<1> QED
  BY <1>8, <1>9, <1>17, <1>18, LaidExcept

LEMMA ProcessOpEffect ==
  ASSUME Types, NEW op \in ops, ProcessOp(op), NEW q \in Regions, NEW j \in 0 .. Capacity - 1
  PROVE  /\ cellsMedium'[<<q, j>>] \in {cellsMedium[<<q, j>>], {cells[<<q, j>>]}}
         /\ cells' = cells
         /\ q = op.region /\ op.offset <= j /\ j <= op.offset + op.size + 1
              => cellsMedium'[<<q, j>>] = {cells[<<q, j>>]}
         /\ q # op.region => cellsMedium'[<<q, j>>] = cellsMedium[<<q, j>>]
<1>1. <<q, j>> \in Places /\ j \in Nat
  BY Constants DEF Places
<1>2. op.offset \in Nat /\ op.size \in Nat
  BY OpTypes
<1>3. <<q, j>> \in PersistedPlaces(op) <=>
        q = op.region /\ j \in op.offset .. op.offset + op.size + 1
  BY DEF PersistedPlaces
<1>4. j \in op.offset .. op.offset + op.size + 1 <=>
        op.offset <= j /\ j <= op.offset + op.size + 1
  BY <1>1, <1>2
<1>5. /\ cellsMedium'[<<q, j>>] = IF <<q, j>> \in PersistedPlaces(op) THEN {cells[<<q, j>>]}
                                  ELSE cellsMedium[<<q, j>>]
      /\ cells' = cells
  BY <1>1 DEF ProcessOp
<1> QED
  BY <1>3, <1>4, <1>5

LEMMA ProcessOpLaid ==
  ASSUME HistoryIInv, RuntimeIInv', AllLaid, NEW op \in ops, ProcessOp(op), NEW r, r = op.region
  PROVE  AllLaid'
<1>1. RuntimeIInv /\ Types /\ History
  BY DEF HistoryIInv, RuntimeIInv
<1>2. UNCHANGED <<cells, maxValid, allocated, committed, persisted, phase, pc, loc, log>>
  BY DEF ProcessOp
<1>3. /\ r \in allocated /\ r \in Regions /\ op.offset \in Nat /\ op.size \in Nat
      /\ \A q \in Regions : \A m \in 1 .. Len(log[q]) :
           log[q][m].timestamp = op.timestamp => q = r
  BY <1>1, OpEntry
<1>4. PICK k \in 1 .. Len(log[r]) :
        /\ log[r][k].timestamp = op.timestamp /\ log[r][k].offset = op.offset
        /\ Len(log[r][k].payload) = op.size
  BY <1>1, OpEntry
<1>5. /\ \A t \in Durable' : t \in Durable \/ t = op.timestamp
      /\ Published' = Published /\ Copied' = Copied /\ op.timestamp \in Published
  BY <1>1, ProcessOpProgress
<1>6. Laid(r) /\ Tiled(r) /\ Stores(r)
  BY <1>3 DEF AllLaid, Laid
<1>7. \A q \in Regions : \A j \in 0 .. Capacity - 1 :
        /\ cellsMedium'[<<q, j>>] \in {cellsMedium[<<q, j>>], {cells[<<q, j>>]}}
        /\ q = r /\ op.offset <= j /\ j <= op.offset + op.size + 1
             => cellsMedium'[<<q, j>>] = {cells[<<q, j>>]}
        /\ q # r => cellsMedium'[<<q, j>>] = cellsMedium[<<q, j>>]
  BY <1>1, ProcessOpEffect
<1>8. \A q \in Regions : SameWriter(q) /\ TailBound(q)' = TailBound(q)
  BY <1>2, BoundKept DEF SameWriter, SameStores
<1>9. ASSUME NEW q \in allocated', q # r
      PROVE  log'[q] = log[q] /\ SameCells(q) /\ NoProgress(q)
  <2>1. q \in Regions
    BY <1>1, <1>2, StateTypes
  <2>2. SameCells(q)
    BY <1>2, <1>7, <1>9, <2>1 DEF SameCells, SameBelow
  <2>3. NoProgress(q)
    BY <1>3, <1>5, <1>9, <2>1 DEF NoProgress
  <2> QED
    BY <1>2, <2>2, <2>3
<1>10. ASSUME NEW m \in 1 .. Len(log[r]), log[r][m].timestamp = op.timestamp PROVE m = k
  <2>1. /\ Len(log[r]) \in Nat /\ log[r][m].timestamp \in Nat /\ log[r][k].timestamp \in Nat
    BY <1>1, <1>3, LogTypes
  <2>2. /\ m < k => log[r][m].timestamp < log[r][k].timestamp
        /\ k < m => log[r][k].timestamp < log[r][m].timestamp
    BY <1>1, <1>3 DEF History, LogTimes
  <2> QED
    BY <1>4, <1>10, <2>1, <2>2
<1>11. /\ EntryEnd(log[r][k]) \in Nat /\ EntryEnd(log[r][k]) = op.offset + op.size + 1
       /\ Start(r, k + 1) = EntryEnd(log[r][k])
  <2>1. /\ EntryEnd(log[r][k]) \in Nat
        /\ EntryEnd(log[r][k]) = log[r][k].offset + 1 + Len(log[r][k].payload)
        /\ Start(r, k + 1) = EntryEnd(log[r][k])
    BY <1>1, <1>3, <1>6, Geometry
  <2>2. op.offset + 1 + op.size = op.offset + op.size + 1
    BY <1>3
  <2> QED
    BY <1>4, <2>1, <2>2
<1>12. Tiled(r)' /\ LogEnd(r)' = LogEnd(r)
  BY <1>2, <1>3, <1>6, TiledFrame
<1>13. ASSUME NEW m \in 1 .. Len(log[r]) PROVE WrittenAt(r, m)'
  <2>1. WrittenAt(r, m) /\ log'[r][m] = log[r][m] /\ Header(r, m)' = Header(r, m)
    BY <1>2, <1>6 DEF Laid, Written, Header
  <2>2. ASSUME log[r][m].timestamp \in Durable', NEW i \in 0 .. Len(log[r][m].payload)
        PROVE  cellsMedium'[<<r, log[r][m].offset + i>>] = {cells[<<r, log[r][m].offset + i>>]}
    <3>1. log[r][m].offset + i \in 0 .. Capacity - 1
      BY <1>1, <1>3, <1>6, OwnIndex
    <3>2. CASE log[r][m].timestamp \in Durable
      <4>1. cellsMedium[<<r, log[r][m].offset + i>>] = {cells[<<r, log[r][m].offset + i>>]}
        BY <2>1, <3>2 DEF WrittenAt
      <4> QED
        BY <1>3, <1>7, <3>1, <4>1
    <3>3. CASE log[r][m].timestamp = op.timestamp
      <4>1. m = k
        BY <1>10, <3>3
      <4>2. i \in 0 .. op.size /\ log[r][m].offset = op.offset
        BY <1>4, <4>1
      <4>3. op.offset <= op.offset + i /\ op.offset + i <= op.offset + op.size + 1
        BY <1>3, <4>2
      <4> QED
        BY <1>3, <1>7, <3>1, <4>2, <4>3
    <3> QED
      BY <1>5, <2>2, <3>2, <3>3
  <2> HIDE DEF Header
  <2>3. /\ log[r][m].timestamp \in Published' => log[r][m].timestamp \in Published
        /\ log[r][m].timestamp \in Copied' => log[r][m].timestamp \in Copied
    BY <1>5
  <2> QED
    BY <1>2, <2>1, <2>2, <2>3 DEF WrittenAt
<1>14. Stores(r)'
  BY <1>2, <1>6 DEF Stores
<1>15. ASSUME NEW m \in 1 .. Len(log[r]) PROVE HeadedAt(r, m)'
  <2>1. HeadedAt(r, m) /\ log'[r] = log[r] /\ Header(r, m)' = Header(r, m)
    BY <1>2, <1>6 DEF Laid, Headed, Header
  <2>2. log[r][m].offset \in 0 .. Capacity - 1
    BY <1>1, <1>3, <1>6, HeaderIndex
  <2>3. ASSUME DurableBefore(r, m)', NEW v \in cellsMedium'[<<r, log[r][m].offset>>]
        PROVE  HeaderOK(v, log[r][m].timestamp)
    <3>1. CASE cellsMedium'[<<r, log[r][m].offset>>] = {cells[<<r, log[r][m].offset>>]}
      BY <2>1, <2>3, <3>1 DEF HeadedAt, Header
    <3>2. CASE cellsMedium'[<<r, log[r][m].offset>>] = cellsMedium[<<r, log[r][m].offset>>]
               /\ DurableBefore(r, m)
      BY <2>1, <2>3, <3>2 DEF HeadedAt
    <3>3. CASE ~DurableBefore(r, m)
      <4>1. /\ m # 1 /\ log[r][m - 1].timestamp \in Durable'
            /\ log[r][m - 1].timestamp \notin Durable
        BY <2>1, <2>3, <3>3 DEF DurableBefore
      <4>2. m - 1 \in 1 .. Len(log[r]) /\ log[r][m - 1].timestamp = op.timestamp
        BY <1>5, <4>1
      <4>3. m - 1 = k
        BY <1>10, <4>2
      <4>4. m = k + 1
        BY <4>3
      <4>5. log[r][m].offset = op.offset + op.size + 1
        BY <1>6, <1>11, <4>4 DEF Tiled
      <4>6. op.offset <= log[r][m].offset /\ log[r][m].offset <= op.offset + op.size + 1
        BY <1>3, <4>5
      <4> QED
        BY <1>3, <1>7, <2>2, <3>1, <4>6
    <3> QED
      BY <1>3, <1>7, <2>2, <3>1, <3>2, <3>3
  <2> QED
    BY <2>1, <2>3 DEF HeadedAt, HeaderOK
<1>16. Ended(r)'
  <2> SUFFICES ASSUME LogEnd(r) < Capacity, AllDurable(r)',
                      NEW v \in cellsMedium'[<<r, LogEnd(r)>>]
               PROVE  TailOK(v, TailBound(r))
    BY <1>2, <1>3, <1>6, <1>8, <1>12 DEF Laid, Ended, TailOK
  <2>1. LogEnd(r) \in Nat /\ Capacity \in Nat /\ Len(log[r]) \in Nat
    BY <1>1, <1>3, <1>6, Geometry, Constants
  <2>2. LogEnd(r) \in 0 .. Capacity - 1 /\ (Len(log[r]) # 0 => Len(log[r]) \in 1 .. Len(log[r]))
    BY <2>1
  <2>3. pc[r] \notin Storing
    <3> SUFFICES ASSUME pc[r] \in Storing PROVE FALSE
      OBVIOUS
    <3>1. /\ loc[r].timestamp \notin Published /\ ~AllDurable(r)
          /\ log[r][Len(log[r])].timestamp = loc[r].timestamp
      BY <1>1, <1>3, StoredUnpublished, WriterStores
    <3>2. log[r][Len(log[r])].timestamp = op.timestamp
      BY <1>2, <1>5, <3>1 DEF AllDurable
    <3> QED
      BY <1>5, <3>1, <3>2
  <2>4. TailOK(cells[<<r, LogEnd(r)>>], TailBound(r))
    BY <1>6, <2>3 DEF Laid, Ended, Storing
  <2>5. CASE cellsMedium'[<<r, LogEnd(r)>>] = {cells[<<r, LogEnd(r)>>]}
    BY <2>4, <2>5
  <2>6. CASE AllDurable(r) /\ cellsMedium'[<<r, LogEnd(r)>>] = cellsMedium[<<r, LogEnd(r)>>]
    BY <1>6, <2>6 DEF Laid, Ended
  <2>7. CASE ~AllDurable(r)
    <3>1. Len(log[r]) # 0 /\ log[r][Len(log[r])].timestamp = op.timestamp
      BY <1>2, <1>5, <2>7 DEF AllDurable
    <3>2. k = Len(log[r])
      BY <1>10, <2>2, <3>1
    <3>3. LogEnd(r) = op.offset + op.size + 1
      BY <1>11, <3>1, <3>2 DEF LogEnd
    <3>4. op.offset <= LogEnd(r) /\ LogEnd(r) <= op.offset + op.size + 1
      BY <1>3, <3>3
    <3> QED
      BY <1>3, <1>7, <2>2, <2>5, <3>4
  <2> QED
    BY <1>3, <1>7, <2>2, <2>5, <2>6, <2>7
<1>17. Laid(r)'
  BY <1>2, <1>12, <1>13, <1>14, <1>15, <1>16 DEF Laid, Written, Headed
<1>18. allocated' \subseteq allocated \union {r} /\ \A q \in allocated' : q \in Regions
  BY <1>1, <1>2, StateTypes
<1> QED
  BY <1>8, <1>9, <1>17, <1>18, LaidExcept

-----------------------------------------------------------------------------
(* A new entry, a new region                                               *)

LEMMA ReadyBound ==
  ASSUME HistoryIInv, NEW r \in allocated, ~NotReady(r)
  PROVE  maxValid[r] = Forever /\ phase = "running" /\ TailBound(r) = Forever
<1>1. RuntimeIInv /\ Types /\ Marks /\ r \in Regions
  BY StateTypes DEF HistoryIInv, RuntimeIInv
<1>2. maxValidMedium[r] = {Forever} /\ maxValid[r] \in maxValidMedium[r]
  BY <1>1, StateTypes DEF Marks, Marked
<1>3. phase # "opening"
  BY <1>1 DEF RuntimeIInv, RuntimeInv, Mapped, NotReady
<1>4. phase = "running"
  BY <1>1, <1>3 DEF Types, ActorTypes
<1> QED
  BY <1>2, <1>4 DEF TailBound

\* No timestamp was used before it is taken.
LEMMA NextIsNew ==
  ASSUME Types, Counted, History
  PROVE  next \notin Published /\ next \notin Copied /\ next \notin Durable
<1>1. next \in Nat /\ committed \in Nat /\ committed < next
  BY StateTypes DEF Counted
<1>2. ASSUME NEW op \in ops PROVE op.timestamp # next
  <2>1. op.timestamp < next /\ op.timestamp \in Nat
    BY OpTypes DEF History, InFlight
  <2> QED
    BY <1>1, <2>1
<1>3. ~(next <= committed)
  BY <1>1
<1> QED
  BY <1>2, <1>3 DEF Published, Copied, Durable

\* An entry is put behind the others.
LEMMA TiledMore ==
  ASSUME Types, Types', NEW r \in Regions, Tiled(r), NEW n, n = Len(log[r]),
         Len(log'[r]) = n + 1, \A k \in 1 .. n : log'[r][k] = log[r][k],
         NEW e, e = log'[r][n + 1], e.offset = LogEnd(r), Len(e.payload) > 0,
         EntryEnd(e) <= Capacity
  PROVE  Tiled(r)' /\ LogEnd(r)' = EntryEnd(e)
<1>1. n \in Nat /\ LogEnd(r) \in Nat
  BY Geometry
<1>2. \A k \in 1 .. n : /\ log[r][k].offset = Start(r, k) /\ Len(log[r][k].payload) > 0
                        /\ EntryEnd(log[r][k]) <= Capacity /\ EntryEnd(log[r][k]) <= LogEnd(r)
  BY Geometry DEF Tiled
<1>3. \A j, k \in 1 .. n : j < k => EntryEnd(log[r][j]) <= log[r][k].offset
  BY DEF Tiled
<1>4. Start(r, n + 1) = LogEnd(r)
  BY Geometry
<1>5. ASSUME NEW k \in 1 .. n + 1
      PROVE  IF k = 1 THEN TRUE ELSE k - 1 \in 1 .. n /\ log'[r][k - 1] = log[r][k - 1]
  <2>1. k # 1 => k - 1 \in 1 .. n
    BY <1>1
  <2> QED
    BY <2>1
<1>6. ASSUME NEW k \in 1 .. n + 1 PROVE Start(r, k)' = Start(r, k)
  BY <1>5 DEF Start
<1>7. ASSUME NEW k \in 1 .. n + 1
      PROVE  /\ log'[r][k].offset = Start(r, k)'
             /\ Len(log'[r][k].payload) > 0 /\ EntryEnd(log'[r][k]) <= Capacity
  <2>1. CASE k = n + 1
    BY <1>4, <1>6, <2>1
  <2>2. CASE k # n + 1
    <3>1. k \in 1 .. n
      BY <1>1, <2>2
    <3> QED
      BY <1>2, <1>6, <3>1
  <2> QED
    BY <2>1, <2>2
<1>8. ASSUME NEW j \in 1 .. n + 1, NEW k \in 1 .. n + 1, j < k
      PROVE  EntryEnd(log'[r][j]) <= log'[r][k].offset
  <2>1. j \in 1 .. n /\ (k \in 1 .. n \/ k = n + 1)
    BY <1>1, <1>8
  <2> QED
    BY <1>2, <1>3, <1>8, <2>1
<1>9. LogEnd(r)' = EntryEnd(e)
  <2>1. n + 1 # 0
    BY <1>1
  <2> QED
    BY <2>1 DEF LogEnd, EntryEnd
<1>10. Tiled(r)'
  <2>1. \A x : EntryEnd(x)' = EntryEnd(x')
    BY DEF EntryEnd
  <2> QED
    BY <1>7, <1>8, <2>1 DEF Tiled, EntryEnd
<1> QED
  BY <1>9, <1>10

LEMMA AcquireLaid ==
  ASSUME HistoryIInv, HistoryIInv', AllLaid, NEW r \in Regions, Appends(r), AcquireTimestamp(r)
  PROVE  AllLaid' /\ LogEnd(r)' = LogEnd(r) + loc[r].size + 1
<1>1. RuntimeIInv /\ Types /\ Types' /\ Counted /\ History
  BY DEF HistoryIInv, RuntimeIInv
<1> DEFINE n == Len(log[r])
           e == NewEntry(r)
<1>2. /\ pc[r] = "acquire" /\ pc'[r] = "clear_next" /\ n \in Nat
      /\ Len(log'[r]) = n + 1 /\ log'[r][n + 1] = e
      /\ \A k \in 1 .. n : log'[r][k] = log[r][k]
      /\ \A q \in Regions : q # r => log'[q] = log[q] /\ pc'[q] = pc[q] /\ loc'[q] = loc[q]
      /\ e.timestamp = next /\ e.offset = loc[r].offset
      /\ Len(e.payload) = loc[r].size /\ loc[r].size \in Nat
      /\ UNCHANGED <<cells, cellsMedium, maxValid, allocated, committed, persisted, phase>>
  BY <1>1, AcquireEffect DEF memory
<1> HIDE DEF n, e
<1>3. /\ r \in allocated /\ ~NotReady(r) /\ Laid(r) /\ Tiled(r)
  <2>1. pc[r] \in Writing /\ r \in Actors
    BY <1>2, Constants DEF Writing
  <2>2. r \in allocated /\ ~NotReady(r)
    BY <1>1, <2>1, OfTheActor
  <2> QED
    BY <2>2 DEF AllLaid, Laid
<1>4. TailBound(r) = Forever
  BY <1>3, ReadyBound
<1>5. loc[r].size > 0
  <2>1. pc[r] \in Preparing
    BY <1>2, LabelSets
  <2>2. loc[r].size \in Sizes
    BY <1>1, <2>1 DEF History, WriterOK
  <2> QED
    BY <1>2, <2>2, Constants
<1>6. LogEnd(r) \in Nat /\ e.offset = LogEnd(r) /\ LogEnd(r) + loc[r].size + 1 <= Capacity
  BY <1>1, <1>2, <1>3, Geometry DEF Appends
<1>7. EntryEnd(e) = LogEnd(r) + 1 + loc[r].size
  BY <1>2, <1>6 DEF EntryEnd
<1>8. EntryEnd(e) = LogEnd(r) + loc[r].size + 1
  <2>1. \A x, y \in Nat : x + 1 + y = x + y + 1
    OBVIOUS
  <2>2. LogEnd(r) \in Nat /\ loc[r].size \in Nat
    BY <1>2, <1>6
  <2>3. LogEnd(r) + 1 + loc[r].size = LogEnd(r) + loc[r].size + 1
    BY <2>1, <2>2
  <2> QED
    BY <1>7, <2>3
<1>9. Tiled(r)' /\ LogEnd(r)' = EntryEnd(e)
  BY <1>1, <1>2, <1>3, <1>5, <1>6, <1>8, TiledMore DEF n
<1>10. UNCHANGED <<Published, Copied, Durable>>
  BY <1>1, AcquireProgress
<1>11. next \notin Published /\ next \notin Copied /\ next \notin Durable
  BY <1>1, NextIsNew
<1>12. \A k \in 1 .. n + 1 : k \in 1 .. n \/ k = n + 1
  BY <1>2
<1>13. ASSUME NEW k \in 1 .. n + 1 PROVE WrittenAt(r, k)'
  <2>1. CASE k \in 1 .. n
    <3>1. WrittenAt(r, k) /\ log'[r][k] = log[r][k]
      BY <1>2, <1>3, <2>1 DEF Laid, Written, n
    <3> QED
      BY <1>2, <1>10, <3>1 DEF WrittenAt, Header
  <2>2. CASE k = n + 1
    BY <1>2, <1>10, <1>11, <2>2 DEF WrittenAt
  <2> QED
    BY <1>12, <2>1, <2>2
<1>14. Stores(r)'
  BY <1>2 DEF Stores
<1>15. ASSUME NEW k \in 1 .. n + 1 PROVE HeadedAt(r, k)'
  <2>1. CASE k \in 1 .. n
    <3>1. HeadedAt(r, k) /\ log'[r][k] = log[r][k]
      BY <1>2, <1>3, <2>1 DEF Laid, Headed, n
    <3>2. k # 1 => k - 1 \in 1 .. n
      BY <1>2
    <3>3. DurableBefore(r, k)' => DurableBefore(r, k)
      BY <1>2, <1>10, <3>2 DEF DurableBefore
    <3> QED
      BY <1>2, <3>1, <3>3 DEF HeadedAt, Header
  <2>2. CASE k = n + 1
    <3>1. LogEnd(r) < Capacity
      BY <1>2, <1>6, Constants
    <3>2. /\ cells[<<r, LogEnd(r)>>].span = Empty
          /\ AllDurable(r) => \A v \in cellsMedium[<<r, LogEnd(r)>>] : v.span = Empty
      BY <1>2, <1>3, <1>4, <3>1 DEF Laid, Ended, TailOK
    <3>3. DurableBefore(r, k)' => AllDurable(r)
      <4>1. CASE n = 0
        BY <4>1 DEF n, AllDurable
      <4>2. CASE n # 0
        <5>1. k # 1 /\ k - 1 = n /\ n \in 1 .. n
          BY <1>2, <2>2, <4>2
        <5>2. log'[r][n] = log[r][n]
          BY <1>2, <5>1
        <5> QED
          BY <1>10, <5>1, <5>2 DEF DurableBefore, AllDurable, n
      <4> QED
        BY <4>1, <4>2
    <3>4. log'[r][k].offset = LogEnd(r)
      BY <1>2, <1>6, <2>2
    <3> QED
      BY <1>2, <3>2, <3>3, <3>4 DEF HeadedAt, Header, HeaderOK
  <2> QED
    BY <1>12, <2>1, <2>2
<1>16. Ended(r)'
  <2>1. ~AllDurable(r)'
    <3>1. n + 1 # 0
      BY <1>2
    <3> QED
      BY <1>2, <1>10, <1>11, <3>1 DEF AllDurable
  <2> QED
    BY <1>2, <2>1 DEF Ended
<1>17. Laid(r)'
  BY <1>2, <1>9, <1>13, <1>14, <1>15, <1>16 DEF Laid, Written, Headed
<1>18. ASSUME NEW q \in allocated', q # r
       PROVE  /\ log'[q] = log[q] /\ SameCells(q) /\ NoProgress(q)
              /\ SameWriter(q) /\ TailBound(q)' = TailBound(q)
  <2>1. q \in Regions
    BY <1>1, <1>2, StateTypes
  <2> QED
    BY <1>2, <1>10, <1>18, <2>1, BoundKept
       DEF SameCells, SameBelow, SameWriter, SameStores, NoProgress
<1>19. AllLaid'
  BY <1>2, <1>17, <1>18, LaidExcept
<1> QED
  BY <1>8, <1>9, <1>19

LEMMA AllocateLaid ==
  ASSUME HistoryIInv, RuntimeIInv', AllLaid, NEW r \in Regions, Allocate(r)
  PROVE  AllLaid'
<1>1. RuntimeIInv /\ Types /\ History
  BY DEF HistoryIInv, RuntimeIInv
<1>2. /\ r \notin allocated /\ pc[r] = "idle" /\ allocated' = allocated \union {r}
      /\ maxValid' = [maxValid EXCEPT ![r] = Forever]
      /\ cells' = [cells EXCEPT ![<<r, 0>>] = NoCell]
      /\ cellsMedium' = [cellsMedium EXCEPT ![<<r, 0>>] = {NoCell}]
      /\ UNCHANGED <<ops, committed, persisted, phase, pc, loc, log>>
  BY DEF Allocate, timestamps
<1>3. Len(log[r]) = 0 /\ log'[r] = log[r]
  BY <1>1, <1>2 DEF History, LogTimes
<1>4. <<r, 0>> \in Places
  <2>1. 0 \in 0 .. Capacity - 1
    BY Constants
  <2> QED
    BY <2>1 DEF Places
<1>5. cells \in [Places -> Cell] /\ cellsMedium \in [Places -> SUBSET Cell]
  BY <1>1 DEF Types, CellTypes
<1>6. cells'[<<r, 0>>] = NoCell /\ cellsMedium'[<<r, 0>>] = {NoCell}
  BY <1>2, <1>4, <1>5
<1>7. Laid(r)'
  <2>1. \A k \in 1 .. Len(log'[r]) : FALSE
    BY <1>3
  <2>2. Tiled(r)' /\ Written(r)' /\ Headed(r)'
    BY <2>1 DEF Tiled, Written, Headed
  <2>3. Stores(r)'
    BY <1>2 DEF Stores
  <2>4. LogEnd(r)' = 0 /\ NoCell.span = Empty
    BY <1>3 DEF LogEnd, NoCell
  <2>5. Ended(r)'
    BY <1>6, <2>4 DEF Ended, TailOK
  <2> QED
    BY <2>2, <2>3, <2>5 DEF Laid
<1>8. UNCHANGED <<Published, Copied, Durable>>
  BY <1>2, ProgressKept
<1>9. ASSUME NEW q \in allocated', q # r
      PROVE  /\ log'[q] = log[q] /\ SameCells(q) /\ NoProgress(q)
             /\ SameWriter(q) /\ TailBound(q)' = TailBound(q)
  <2>1. q \in Regions /\ q \in allocated
    BY <1>1, <1>2, <1>9, StateTypes
  <2>2. ASSUME NEW i \in 0 .. Capacity - 1
        PROVE  cells'[<<q, i>>] = cells[<<q, i>>] /\ cellsMedium'[<<q, i>>] = cellsMedium[<<q, i>>]
    <3>1. <<q, i>> \in Places /\ <<q, i>> # <<r, 0>>
      BY <1>9, <2>1 DEF Places
    <3> QED
      BY <1>2, <1>5, <3>1
  <2>3. SameCells(q) /\ NoProgress(q)
    BY <1>8, <2>2 DEF SameCells, SameBelow, NoProgress
  <2>4. maxValid'[q] = maxValid[q]
    BY <1>1, <1>2, <1>9, <2>1, StateTypes
  <2>5. TailBound(q)' = TailBound(q)
    BY <1>2, <2>4 DEF TailBound
  <2> QED
    BY <1>2, <2>3, <2>5 DEF SameWriter, SameStores
<1> QED
  BY <1>2, <1>7, <1>9, LaidExcept

-----------------------------------------------------------------------------
(* A power failure                                                         *)

\* What the tail is compared with after it.
LEMMA CrashBound ==
  ASSUME HistoryIInv, RuntimeIInv', Crash, NEW r \in allocated
  PROVE  /\ TailBound(r)' \in Nat /\ TailBound(r)' # Forever /\ TailBound(r)' <= persisted
         /\ \A v \in Cell : TailOK(v, TailBound(r)) => TailOK(v, TailBound(r)')
<1>1. RuntimeIInv /\ Types /\ Counted /\ History /\ Marks /\ r \in Regions
  BY StateTypes DEF HistoryIInv, RuntimeIInv
<1>2. /\ persisted \in Nat /\ Forever \in Nat /\ persisted < Forever /\ maxValid[r] \in Nat
  BY <1>1, StateTypes, BelowForever
<1>3. maxValid'[r] \in maxValidMedium[r] /\ maxValid'[r] \in Nat
  BY <1>1, CrashOutcome
<1>4. phase' = "opening" /\ persisted' = persisted
  BY DEF Crash
<1>5. Marked(r)
  BY <1>1 DEF Marks
<1>6. maxValid'[r] # Forever => maxValid'[r] <= persisted
  BY <1>3, <1>5 DEF Marked
<1>7. TailBound(r)' = IF maxValid'[r] = Forever THEN persisted ELSE maxValid'[r]
  BY <1>4 DEF TailBound
<1>8. TailBound(r)' \in Nat /\ TailBound(r)' # Forever /\ TailBound(r)' <= persisted
  BY <1>2, <1>3, <1>6, <1>7
<1>9. ASSUME NEW v \in Cell, TailOK(v, TailBound(r)) PROVE TailOK(v, TailBound(r)')
  <2>1. v.timestamp \in Nat
    BY DEF Cell
  <2>2. CASE v.span = Empty
    BY <2>2 DEF TailOK
  <2>3. CASE v.span # Empty
    <3>1. TailBound(r) # Forever /\ v.timestamp > TailBound(r)
      BY <1>9, <2>3 DEF TailOK
    <3>2. TailBound(r)' <= TailBound(r) /\ TailBound(r) \in Nat
      <4>1. CASE phase = "opening" /\ maxValid[r] = Forever
        BY <1>2, <1>8, <4>1 DEF TailBound
      <4>2. CASE ~(phase = "opening" /\ maxValid[r] = Forever)
        <5>1. TailBound(r) = maxValid[r] /\ maxValid[r] # Forever
          BY <3>1, <4>2 DEF TailBound
        <5>2. \/ maxValidMedium[r] = {maxValid[r]}
              \/ maxValid[r] = persisted /\ maxValidMedium[r] = {Forever, persisted}
          BY <1>5, <5>1 DEF Marked
        <5>3. CASE maxValidMedium[r] = {maxValid[r]}
          <6>1. maxValid'[r] = maxValid[r]
            BY <1>3, <5>3
          <6>2. TailBound(r)' = maxValid[r]
            BY <1>7, <5>1, <6>1
          <6> QED
            BY <1>2, <5>1, <6>2
        <5>4. CASE maxValid[r] = persisted /\ maxValidMedium[r] = {Forever, persisted}
          <6>1. TailBound(r)' = persisted
            BY <1>3, <1>7, <5>4
          <6> QED
            BY <1>2, <5>1, <5>4, <6>1
        <5> QED
          BY <5>2, <5>3, <5>4
      <4> QED
        BY <4>1, <4>2
    <3>3. v.timestamp > TailBound(r)'
      BY <1>8, <2>1, <3>1, <3>2
    <3> QED
      BY <1>8, <3>3 DEF TailOK
  <2> QED
    BY <2>2, <2>3
<1> QED
  BY <1>8, <1>9

LEMMA CrashLaid ==
  ASSUME HistoryIInv, HistoryIInv', AllLaid, Crash
  PROVE  AllLaid'
<1>1. RuntimeIInv /\ RuntimeIInv' /\ Types /\ Types' /\ Counted /\ History
  BY DEF HistoryIInv, RuntimeIInv
<1>2. /\ allocated' = allocated /\ persisted' = persisted /\ committed' = persisted
      /\ cellsMedium' = [p \in Places |-> {cells'[p]}]
      /\ pc' = [a \in Actors |-> "idle"]
  BY DEF Crash
<1>3. \A p \in Places : cells'[p] \in cellsMedium[p] /\ cells'[p] \in Cell
  BY <1>1, CrashOutcome
<1>4. persisted <= committed /\ persisted \in Nat /\ committed \in Nat
  BY <1>1, StateTypes DEF Counted
<1> SUFFICES ASSUME NEW r \in allocated' PROVE Laid(r)'
  BY DEF AllLaid
<1>5. r \in allocated /\ r \in Regions /\ r \in Actors /\ Laid(r) /\ Tiled(r)
  BY <1>1, <1>2, StateTypes, Constants DEF AllLaid, Laid
<1> DEFINE n == Len(log[r])
<1>6. PICK m \in 0 .. n :
        /\ Len(log'[r]) = m /\ \A i \in 1 .. m : log'[r][i] = log[r][i]
        /\ \A k \in 1 .. n : log[r][k].timestamp <= persisted <=> k <= m
  BY <1>1, <1>5, CrashLog
<1>7. n \in Nat /\ m \in Nat /\ \A k \in 1 .. m : k \in 1 .. n
  BY <1>1, <1>5, LogTypes
<1> HIDE DEF n
<1>8. ASSUME NEW k \in 1 .. m
      PROVE  /\ log[r][k].timestamp \in Durable /\ log[r][k].timestamp \in Published
             /\ log[r][k].timestamp \in Copied
  <2>1. log[r][k].timestamp \in Nat /\ log[r][k].timestamp <= persisted
    BY <1>1, <1>5, <1>6, <1>7, LogTypes DEF n
  <2>2. log[r][k].timestamp <= committed
    BY <1>4, <2>1
  <2> QED
    BY <2>1, <2>2 DEF Durable, Published, Copied
<1>9. ASSUME NEW k \in 1 .. m, NEW i \in 0 .. Len(log[r][k].payload)
      PROVE  /\ cells'[<<r, log[r][k].offset + i>>] = cells[<<r, log[r][k].offset + i>>]
             /\ cellsMedium'[<<r, log[r][k].offset + i>>] = {cells'[<<r, log[r][k].offset + i>>]}
  <2>1. k \in 1 .. Len(log[r])
    BY <1>7 DEF n
  <2>2. <<r, log[r][k].offset + i>> \in Places
    BY <1>1, <1>5, <2>1, OwnPlaces
  <2>3. WrittenAt(r, k)
    BY <1>5, <2>1 DEF Laid, Written
  <2>4. cellsMedium[<<r, log[r][k].offset + i>>] = {cells[<<r, log[r][k].offset + i>>]}
    BY <1>8, <2>3 DEF WrittenAt
  <2> QED
    BY <1>2, <1>3, <2>2, <2>4
<1>10. ASSUME NEW k \in 1 .. m
       PROVE  /\ Header(r, k)' = Header(r, k)
              /\ cellsMedium'[<<r, log[r][k].offset>>] = {Header(r, k)}
              /\ log'[r][k] = log[r][k]
  <2>1. /\ log[r][k].offset + 0 = log[r][k].offset /\ Len(log[r][k].payload) \in Nat
    BY <1>1, <1>5, <1>7, HeaderIndex, Geometry DEF n
  <2>2. 0 \in 0 .. Len(log[r][k].payload)
    BY <2>1
  <2>3. /\ cells'[<<r, log[r][k].offset + 0>>] = cells[<<r, log[r][k].offset + 0>>]
        /\ cellsMedium'[<<r, log[r][k].offset + 0>>] = {cells'[<<r, log[r][k].offset + 0>>]}
    BY <1>9, <2>2
  <2> QED
    BY <1>6, <2>1, <2>3 DEF Header
<1>11. \A k \in 1 .. m + 1 : Start(r, k)' = Start(r, k)
  <2> SUFFICES ASSUME NEW k \in 1 .. m + 1 PROVE Start(r, k)' = Start(r, k)
    OBVIOUS
  <2>1. k # 1 => k - 1 \in 1 .. m
    BY <1>7
  <2> QED
    BY <1>6, <2>1 DEF Start, EntryEnd
<1>12. LogEnd(r)' = Start(r, m + 1)
  <2>1. m # 0 => m + 1 # 1 /\ m + 1 - 1 = m /\ m \in 1 .. m
    BY <1>7
  <2>2. m = 0 => m + 1 = 1
    OBVIOUS
  <2> QED
    BY <1>6, <2>1, <2>2 DEF LogEnd, Start, EntryEnd
<1>13. Tiled(r)'
  <2>1. \A k \in 1 .. m : k \in 1 .. m + 1 /\ k \in 1 .. Len(log[r])
    BY <1>7 DEF n
  <2>2. \A k \in 1 .. m :
          /\ log'[r][k].offset = Start(r, k)'
          /\ Len(log'[r][k].payload) > 0 /\ EntryEnd(log'[r][k]) <= Capacity
    BY <1>5, <1>6, <1>11, <2>1 DEF Tiled
  <2>3. \A j, k \in 1 .. m : j < k => EntryEnd(log'[r][j]) <= log'[r][k].offset
    BY <1>5, <1>6, <2>1 DEF Tiled
  <2> QED
    BY <1>6, <2>2, <2>3 DEF Tiled, EntryEnd
<1>14. ASSUME NEW k \in 1 .. m PROVE WrittenAt(r, k)'
  <2>1. WrittenAt(r, k)
    BY <1>5, <1>7 DEF Laid, Written, n
  <2>2. \A i \in 1 .. Len(log[r][k].payload) : i \in 0 .. Len(log[r][k].payload)
    OBVIOUS
  <2>3. Header(r, k)' = Header(r, k) /\ log'[r][k] = log[r][k]
    BY <1>10
  <2>4. \A i \in 0 .. Len(log[r][k].payload) :
          /\ cells'[<<r, log[r][k].offset + i>>] = cells[<<r, log[r][k].offset + i>>]
          /\ cellsMedium'[<<r, log[r][k].offset + i>>] = {cells'[<<r, log[r][k].offset + i>>]}
    BY <1>9
  <2>5. /\ log[r][k].timestamp \in Published /\ log[r][k].timestamp \in Copied
    BY <1>8
  <2> HIDE DEF Header
  <2>6. /\ Header(r, k).span = Len(log[r][k].payload)
        /\ Header(r, k).timestamp = log[r][k].timestamp
        /\ \A i \in 1 .. Len(log[r][k].payload) :
              cells[<<r, log[r][k].offset + i>>].payload = log[r][k].payload[i]
    BY <2>1, <2>5 DEF WrittenAt
  <2>7. \A i \in 1 .. Len(log[r][k].payload) :
              cells'[<<r, log[r][k].offset + i>>].payload = log[r][k].payload[i]
    BY <2>2, <2>4, <2>6
  <2> QED
    BY <2>3, <2>4, <2>6, <2>7 DEF WrittenAt
<1>15. pc'[r] = "idle"
  BY <1>2, <1>5
<1>16. ASSUME NEW k \in 1 .. m PROVE HeadedAt(r, k)'
  <2>1. HeadedAt(r, k)
    BY <1>5, <1>7 DEF Laid, Headed, n
  <2> QED
    BY <1>10, <2>1 DEF HeadedAt, Header
<1>17. Ended(r)'
  <2> SUFFICES ASSUME LogEnd(r)' < Capacity
               PROVE  /\ TailOK(cells'[<<r, LogEnd(r)'>>], TailBound(r)')
                      /\ cellsMedium'[<<r, LogEnd(r)'>>] = {cells'[<<r, LogEnd(r)'>>]}
    BY DEF Ended, TailOK
  <2>0. <<r, LogEnd(r)'>> \in Places
    <3>0. m = 0 \/ m \in 1 .. n
      BY <1>7
    <3>1. LogEnd(r)' \in Nat /\ Capacity \in Nat
      <4>1. CASE m = 0
        BY <1>12, <4>1, Constants DEF Start
      <4>2. CASE m \in 1 .. n
        <5>1. Start(r, m + 1) = EntryEnd(log[r][m]) /\ EntryEnd(log[r][m]) \in Nat
          BY <1>1, <1>5, <4>2, Geometry DEF n
        <5> QED
          BY <1>12, <5>1, Constants
      <4> QED
        BY <3>0, <4>1, <4>2
    <3>2. LogEnd(r)' \in 0 .. Capacity - 1
      BY <3>1
    <3> QED
      BY <1>5, <3>2 DEF Places
  <2> DEFINE c == cells'[<<r, LogEnd(r)'>>]
  <2>1. c \in cellsMedium[<<r, LogEnd(r)'>>] /\ c \in Cell /\ cellsMedium'[<<r, LogEnd(r)'>>] = {c}
    BY <1>2, <1>3, <2>0
  <2>2. /\ TailBound(r)' \in Nat /\ TailBound(r)' # Forever /\ TailBound(r)' <= persisted
        /\ \A v \in Cell : TailOK(v, TailBound(r)) => TailOK(v, TailBound(r)')
    BY <1>1, <1>5, CrashBound
  <2>3. CASE m = n
    <3>1. LogEnd(r)' = LogEnd(r)
      BY <1>1, <1>5, <1>12, <2>3, Geometry DEF n
    <3>2. AllDurable(r)
      <4>1. n # 0 => n \in 1 .. m
        BY <1>7, <2>3
      <4> QED
        BY <1>8, <4>1 DEF AllDurable, n
    <3>3. TailOK(c, TailBound(r))
      BY <1>5, <2>1, <3>1, <3>2 DEF Laid, Ended
    <3> QED
      BY <2>1, <2>2, <3>3
  <2>4. CASE m # n
    <3>1. m + 1 \in 1 .. n /\ ~(m + 1 <= m)
      BY <1>6, <1>7, <2>4
    <3>2. ~(log[r][m + 1].timestamp <= persisted) /\ log[r][m + 1].timestamp \in Nat
      BY <1>1, <1>5, <1>6, <3>1, LogTypes DEF n
    <3>3. LogEnd(r)' = log[r][m + 1].offset
      BY <1>5, <1>12, <3>1 DEF Tiled, n
    <3>4. DurableBefore(r, m + 1)
      <4>1. m + 1 # 1 => m + 1 - 1 = m /\ m \in 1 .. m
        BY <1>7
      <4> QED
        BY <1>8, <4>1 DEF DurableBefore
    <3>5. HeaderOK(c, log[r][m + 1].timestamp)
      BY <1>5, <2>1, <3>1, <3>3, <3>4 DEF Laid, Headed, HeadedAt, n
    <3>6. c.span = Empty \/ c.timestamp > TailBound(r)'
      <4>1. log[r][m + 1].timestamp > TailBound(r)'
        BY <1>4, <2>2, <3>2
      <4> QED
        BY <3>5, <4>1 DEF HeaderOK
    <3> QED
      BY <2>1, <2>2, <3>6 DEF TailOK
  <2> QED
    BY <2>3, <2>4
<1> QED
  BY <1>6, <1>13, <1>14, <1>15, <1>16, <1>17 DEF Laid, Written, Headed, Stores

=============================================================================
