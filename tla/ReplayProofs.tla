---------------------------- MODULE ReplayProofs ----------------------------
(***************************************************************************)
(* The safety of Replay for any number of items, sources, owners, events   *)
(* and links, and whatever others do meanwhile.                            *)
(***************************************************************************)
EXTENDS Replay, TLAPS

-----------------------------------------------------------------------------
(* The inductive invariant *)

InWorkspace == {"clear", "scan", "open", "apply", "normalize", "embed", "swap"}
Rebuilding == {"scan", "open", "apply", "normalize", "embed"}
Processing == {"normalize", "embed"}
Redoing == {"target", "rechunk", "retarget", "reembed"}

\* What a replay is and where it has its rows, place by place.
WorkspaceShape ==
  ~InPlace =>
    /\ replay.at \in Running \ {"create", "unwind"} => Complete
    /\ replay.at \in InWorkspace => shadow \in Corpora
    /\ replay.at \notin Redoing

PlaceShape ==
  /\ replay.at \in {"create", "swap"} => ~InPlace
  /\ replay.at \in {"target", "rechunk"} => replay.stage = "normalize"
  /\ replay.at \in {"retarget", "reembed"} => replay.stage \in {"normalize", "embed"}
  /\ replay.at \in Rebuilding \cup {"swap", "project", "cleargraph"} => replay.stage = "all"
  /\ replay.at \in {"apply"} \cup Processing => replay.upto <= Len(log)

\* The event that is being processed recorded a version of an item in scope.
EventShape ==
  replay.at \in Processing =>
    /\ replay.pos \in 1..replay.upto
    /\ log[replay.pos].type = "observed"
    /\ log[replay.pos].key \in replay.scope \ replay.purged

Shape == WorkspaceShape /\ PlaceShape /\ EventShape
-----------------------------------------------------------------------------
(* Corpora *)

\* The versions of an item are numbered in the order in which they came.
Ascending(rows) == \A i, j \in DOMAIN rows : i < j => rows[i].seq < rows[j].seq

LEMMA LastRow ==
  ASSUME NEW c \in Corpora, NEW k \in Keys, NEW l, l = Len(c[k])
  PROVE  /\ c[k] \in Seq(Rows) /\ l \in Nat /\ DOMAIN c[k] = 1..l
         /\ c[k] # <<>> => l \in 1..l /\ Current(c, k) = c[k][l] /\ c[k][l] \in Rows
  <1>1. c[k] \in Seq(Rows)
    BY DEF Corpora
  <1>2. l \in Nat /\ DOMAIN c[k] = 1..l
    BY <1>1
  <1>3. c[k] # <<>> => l \in 1..l
    BY <1>1
  <1>4. l \in 1..l => Current(c, k) = c[k][l] /\ c[k][l] \in Rows
    BY <1>1 DEF Current, Last
  <1>5. QED
    BY <1>1, <1>2, <1>3, <1>4

LEMMA CurrentRow ==
  ASSUME NEW c \in Corpora, NEW k \in Keys
  PROVE  /\ c[k] \in Seq(Rows) /\ Len(c[k]) \in Nat /\ DOMAIN c[k] = 1..Len(c[k])
         /\ Versions(c[k]) = [i \in 1..Len(c[k]) |-> <<c[k][i].seq, c[k][i].hidden>>]
         /\ Versions(c[k]) = <<>> <=> c[k] = <<>>
         /\ c[k] # <<>> =>
              /\ Len(c[k]) \in 1..Len(c[k])
              /\ Current(c, k) = c[k][Len(c[k])]
              /\ Current(c, k) \in Rows
  <1>1. c[k] \in Seq(Rows)
    BY DEF Corpora
  <1>2. Len(c[k]) \in Nat /\ DOMAIN c[k] = 1..Len(c[k])
    BY <1>1
  <1>3. Versions(c[k]) = [i \in 1..Len(c[k]) |-> <<c[k][i].seq, c[k][i].hidden>>]
    BY <1>2 DEF Versions
  <1>4. Versions(c[k]) = <<>> <=> c[k] = <<>>
    <2>1. c[k] = <<>> <=> Len(c[k]) = 0
      BY <1>1
    <2>2. DOMAIN Versions(c[k]) = 1..Len(c[k])
      BY <1>3
    <2>3. CASE Len(c[k]) = 0
      BY <1>3, <2>1, <2>3
    <2>4. CASE Len(c[k]) # 0
      <3>1. 1 \in DOMAIN Versions(c[k])
        BY <1>2, <2>2, <2>4
      <3>2. DOMAIN <<>> = {}
        OBVIOUS
      <3>3. QED
        BY <2>1, <2>4, <3>1, <3>2
    <2>5. QED
      BY <2>3, <2>4
  <1>5. ASSUME c[k] # <<>>
        PROVE  Len(c[k]) \in 1..Len(c[k]) /\ Current(c, k) = c[k][Len(c[k])] /\ Current(c, k) \in Rows
    BY <1>1, <1>5 DEF Current, Last
  <1>6. QED
    BY <1>1, <1>2, <1>3, <1>4, <1>5

LEMMA Added ==
  ASSUME NEW c \in Corpora, NEW k \in Keys, NEW s \in Seqs
  PROVE  LET d == AddVersion(c, k, s)
         IN  /\ d \in Corpora
             /\ \A j \in Keys : j # k => d[j] = c[j]
             /\ d[k] # <<>>
             /\ Current(d, k) = [seq |-> s, hidden |-> FALSE, chunk |-> "none"]
             /\ Versions(d[k]) = Append(Versions(c[k]), <<s, FALSE>>)
  <1>1. PICK row : row = [seq |-> s, hidden |-> FALSE, chunk |-> "none"]
    OBVIOUS
  <1>2. row \in Rows /\ row.seq = s /\ row.hidden = FALSE
    BY <1>1 DEF Rows
  <1>3. c[k] \in Seq(Rows)
    BY DEF Corpora
  <1>4. PICK rows : rows = Append(c[k], row)
    OBVIOUS
  <1>5. /\ rows \in Seq(Rows) /\ Len(rows) = Len(c[k]) + 1
        /\ DOMAIN rows = 1..(Len(c[k]) + 1) /\ DOMAIN c[k] = 1..Len(c[k]) /\ Len(c[k]) \in Nat
        /\ \A i \in 1..Len(c[k]) : rows[i] = c[k][i]
        /\ rows[Len(c[k]) + 1] = row
    BY <1>2, <1>3, <1>4
  <1>6. PICK d : d = [c EXCEPT ![k] = rows]
    OBVIOUS
  <1>7. AddVersion(c, k, s) = d
    BY <1>1, <1>4, <1>6 DEF AddVersion, Corpora
  <1>8. /\ d \in Corpora /\ d[k] = rows
        /\ \A j \in Keys : j # k => d[j] = c[j]
    BY <1>5, <1>6 DEF Corpora
  <1>9. rows # <<>> /\ Last(rows) = row
    BY <1>5 DEF Last
  <1>10. Versions(rows) = Append(Versions(c[k]), <<s, FALSE>>)
    <2>1. PICK old, new : old = Versions(c[k]) /\ new = Versions(rows)
      OBVIOUS
    <2>2. /\ old = [i \in 1..Len(c[k]) |-> <<c[k][i].seq, c[k][i].hidden>>]
          /\ new = [i \in 1..(Len(c[k]) + 1) |-> <<rows[i].seq, rows[i].hidden>>]
      BY <1>5, <2>1 DEF Versions
    <2>3. Append(old, <<s, FALSE>>) =
            [i \in 1..(Len(c[k]) + 1) |-> IF i = Len(c[k]) + 1 THEN <<s, FALSE>> ELSE old[i]]
      <3>1. PICK n, e : n = Len(c[k]) /\ e = <<s, FALSE>>
        OBVIOUS
      <3>2. PICK S : S = {old[i] : i \in 1..n} \cup {e}
        OBVIOUS
      <3>3. e \in S /\ \A i \in 1..n : old[i] \in S
        BY <3>2
      <3>4. n \in Nat /\ old \in [1..n -> S]
        BY <1>5, <2>2, <3>1, <3>3
      <3>5. old \in Seq(S) /\ Len(old) = n
        BY <3>4
      <3>6. PICK g : g = Append(old, e)
        OBVIOUS
      <3>7. /\ g \in Seq(S) /\ Len(g) = n + 1
            /\ \A i \in 1..n : g[i] = old[i]
            /\ g[n + 1] = e
        BY <3>3, <3>5, <3>6
      <3>8. g = [i \in 1..(n + 1) |-> g[i]]
        BY <3>7
      <3>9. \A i \in 1..(n + 1) : g[i] = IF i = n + 1 THEN e ELSE old[i]
        BY <3>4, <3>7
      <3>10. QED
        BY <3>1, <3>6, <3>8, <3>9
    <2>4. ASSUME NEW i \in 1..(Len(c[k]) + 1)
          PROVE  <<rows[i].seq, rows[i].hidden>> =
                   IF i = Len(c[k]) + 1 THEN <<s, FALSE>> ELSE old[i]
      <3>1. CASE i = Len(c[k]) + 1
        BY <1>2, <1>5, <3>1
      <3>2. CASE i # Len(c[k]) + 1
        BY <1>5, <2>2, <3>2
      <3>3. QED
        BY <3>1, <3>2
    <2>5. QED
      BY <2>1, <2>2, <2>3, <2>4
  <1>11. QED
    BY <1>1, <1>7, <1>8, <1>9, <1>10 DEF Current

\* The parts of that by themselves, for where the rest is in the way.
LEMMA AddedOthers ==
  ASSUME NEW c \in Corpora, NEW k \in Keys, NEW s \in Seqs
  PROVE  /\ AddVersion(c, k, s) \in Corpora
         /\ \A j \in Keys : j # k => AddVersion(c, k, s)[j] = c[j]
  BY Added

LEMMA AddedRow ==
  ASSUME NEW c \in Corpora, NEW k \in Keys, NEW s \in Seqs
  PROVE  LET new == AddVersion(c, k, s)[k]
         IN  /\ new # <<>>
             /\ Last(new) = [seq |-> s, hidden |-> FALSE, chunk |-> "none"]
             /\ Versions(new) = Append(Versions(c[k]), <<s, FALSE>>)
  BY Added DEF Current

LEMMA HiddenOne ==
  ASSUME NEW c \in Corpora, NEW k \in Keys
  PROVE  LET d == HideCurrent(c, k)
             v == Versions(c[k])
         IN  /\ d \in Corpora
             /\ \A j \in Keys : j # k => d[j] = c[j]
             /\ c[k] = <<>> => d[k] = <<>>
             /\ c[k] # <<>> =>
                  /\ d[k] # <<>>
                  /\ Current(d, k).chunk = Current(c, k).chunk
                  /\ v # <<>>
                  /\ Versions(d[k]) = [v EXCEPT ![Len(v)] = <<@[1], TRUE>>]
  <1>1. CASE c[k] = <<>>
    BY <1>1 DEF HideCurrent
  <1>2. CASE c[k] # <<>>
    <2>1. PICK l, v : l = Len(c[k]) /\ v = Versions(c[k])
      OBVIOUS
    <2>2. /\ c[k] \in Seq(Rows) /\ l \in Nat /\ DOMAIN c[k] = 1..l /\ l \in 1..l
          /\ Current(c, k) = c[k][l] /\ c[k][l] \in Rows
          /\ v = [i \in 1..l |-> <<c[k][i].seq, c[k][i].hidden>>] /\ v # <<>>
      BY <1>2, <2>1, CurrentRow
    <2>3. PICK rows : rows = [c[k] EXCEPT ![l].hidden = TRUE]
      OBVIOUS
    <2>4. /\ rows = [i \in 1..l |-> IF i = l THEN [c[k][l] EXCEPT !.hidden = TRUE] ELSE c[k][i]]
          /\ [c[k][l] EXCEPT !.hidden = TRUE] \in Rows
      BY <2>2, <2>3 DEF Rows
    <2>5. rows \in Seq(Rows) /\ Len(rows) = l /\ rows # <<>>
      <3>1. \A i \in 1..l : rows[i] \in Rows
        BY <2>2, <2>4
      <3>2. rows \in [1..l -> Rows]
        BY <2>4, <3>1
      <3>3. QED
        BY <2>2, <3>2
    <2>6. PICK d : d = [c EXCEPT ![k] = rows]
      OBVIOUS
    <2>7. HideCurrent(c, k) = d
      BY <1>2, <2>1, <2>3, <2>6 DEF HideCurrent, Corpora
    <2>8. d \in Corpora /\ d[k] = rows /\ \A j \in Keys : j # k => d[j] = c[j]
      BY <2>5, <2>6 DEF Corpora
    <2>9. Current(d, k) = rows[l]
      BY <2>5, <2>8 DEF Current, Last
    <2>10. rows[l].chunk = c[k][l].chunk
      BY <2>2, <2>4 DEF Rows
    <2>11. Versions(rows) = [v EXCEPT ![Len(v)] = <<@[1], TRUE>>]
      <3>1. Versions(rows) = [i \in 1..l |-> <<rows[i].seq, rows[i].hidden>>]
        BY <2>4 DEF Versions
      <3>2. Len(v) = l
        BY <2>2
      <3>3. \A i \in 1..l : <<rows[i].seq, rows[i].hidden>> =
                              IF i = l THEN <<v[i][1], TRUE>> ELSE v[i]
        BY <2>2, <2>4 DEF Rows
      <3>4. [v EXCEPT ![Len(v)] = <<@[1], TRUE>>] =
              [i \in 1..l |-> IF i = l THEN <<v[i][1], TRUE>> ELSE v[i]]
        BY <2>2, <3>2
      <3>5. Versions(rows) = [i \in 1..l |-> IF i = l THEN <<v[i][1], TRUE>> ELSE v[i]]
        BY <3>1, <3>3
      <3>6. QED
        BY <3>4, <3>5
    <2>12. d[k] # <<>> /\ Current(d, k).chunk = Current(c, k).chunk
      BY <2>2, <2>5, <2>8, <2>9, <2>10
    <2>13. Versions(d[k]) = [v EXCEPT ![Len(v)] = <<@[1], TRUE>>]
      BY <2>8, <2>11
    <2>14. QED
      BY <1>2, <2>1, <2>2, <2>7, <2>8, <2>12, <2>13
  <1>3. QED
    BY <1>1, <1>2

\* New chunks for the versions of an item.
Chunked(rows, x) == [i \in 1..Len(rows) |-> [rows[i] EXCEPT !.chunk = x[i]]]
WithRows(c, k, rows) == [c EXCEPT ![k] = rows]

LEMMA Rechunked ==
  ASSUME NEW c \in Corpora, NEW k \in Keys,
         NEW x \in [1..Len(c[k]) -> {"none", "bare", "full"}]
  PROVE  LET d == WithRows(c, k, Chunked(c[k], x))
         IN  /\ d \in Corpora
             /\ \A j \in Keys : j # k => d[j] = c[j]
             /\ d[k] = Chunked(c[k], x)
             /\ d[k] \in Seq(Rows)
             /\ Versions(d[k]) = Versions(c[k])
             /\ c[k] # <<>> => d[k] # <<>> /\ Current(d, k) = [Current(c, k) EXCEPT !.chunk = x[Len(c[k])]]
  <1>0. PICK rows, d : rows = Chunked(c[k], x) /\ d = WithRows(c, k, rows)
    OBVIOUS
  <1>1. PICK l : l = Len(c[k])
    OBVIOUS
  <1>2. /\ c[k] \in Seq(Rows) /\ l \in Nat /\ DOMAIN c[k] = 1..l
        /\ Versions(c[k]) = [i \in 1..l |-> <<c[k][i].seq, c[k][i].hidden>>]
        /\ c[k] # <<>> => l \in 1..l /\ Current(c, k) = c[k][l] /\ Current(c, k) \in Rows
    BY <1>1, CurrentRow
  <1>3. ASSUME NEW i \in 1..l
        PROVE  rows[i] \in Rows /\ rows[i].seq = c[k][i].seq /\ rows[i].hidden = c[k][i].hidden
    <2>1. c[k][i] \in Rows /\ x[i] \in {"none", "bare", "full"}
      BY <1>1, <1>2
    <2>2. rows[i] = [c[k][i] EXCEPT !.chunk = x[i]]
      BY <1>0, <1>1 DEF Chunked
    <2>3. QED
      BY <2>1, <2>2 DEF Rows
  <1>4. rows \in [1..l -> Rows]
    BY <1>0, <1>1, <1>3 DEF Chunked
  <1>5. rows \in Seq(Rows) /\ Len(rows) = l /\ DOMAIN rows = 1..l
    BY <1>2, <1>4
  <1>6. d \in Corpora /\ d[k] = rows /\ \A j \in Keys : j # k => d[j] = c[j]
    BY <1>0, <1>5 DEF Corpora, WithRows
  <1>7. Versions(rows) = Versions(c[k])
    <2>1. Versions(rows) = [i \in 1..l |-> <<rows[i].seq, rows[i].hidden>>]
      BY <1>5 DEF Versions
    <2>2. QED
      BY <1>2, <1>3, <2>1
  <1>8. ASSUME c[k] # <<>> PROVE rows # <<>> /\ Current(d, k) = rows[l]
    <2>1. 1 \in DOMAIN rows
      BY <1>2, <1>5, <1>8
    <2>2. QED
      BY <1>5, <1>6, <2>1 DEF Current, Last
  <1>9. c[k] # <<>> => rows[l] = [Current(c, k) EXCEPT !.chunk = x[l]]
    BY <1>0, <1>1, <1>2 DEF Chunked
  <1>10. QED
    BY <1>0, <1>1, <1>5, <1>6, <1>7, <1>8, <1>9

LEMMA NormalizedOne ==
  ASSUME NEW c \in Corpora, NEW k \in Keys, NEW s
  PROVE  LET d == Normalized(c, k, s)
         IN  /\ d \in Corpora
             /\ \A j \in Keys : j # k => d[j] = c[j]
             /\ Versions(d[k]) = Versions(c[k])
             /\ c[k] # <<>> => d[k] # <<>>
             /\ c[k] # <<>> /\ Ascending(c[k]) /\ s = Current(c, k).seq /\ ~Current(c, k).hidden =>
                  Current(d, k).chunk = IF Current(c, k).chunk = "none" THEN "bare"
                                        ELSE Current(c, k).chunk
  <1>1. PICK l : l = Len(c[k])
    OBVIOUS
  <1>2. /\ c[k] \in Seq(Rows) /\ l \in Nat /\ DOMAIN c[k] = 1..l
        /\ c[k] # <<>> => l \in 1..l /\ Current(c, k) = c[k][l] /\ c[k][l] \in Rows
    BY <1>1, LastRow
  <1>3. CASE \E i \in DOMAIN c[k] : c[k][i].seq = s /\ (c[k][i].hidden \/ c[k][i].chunk # "none")
    <2>1. Normalized(c, k, s) = c
      BY <1>3 DEF Normalized
    <2>2. PICK i \in 1..l : c[k][i].seq = s /\ (c[k][i].hidden \/ c[k][i].chunk # "none")
      BY <1>2, <1>3
    <2>3. ASSUME c[k] # <<>>, Ascending(c[k]), s = Current(c, k).seq, ~Current(c, k).hidden
          PROVE  Current(c, k).chunk # "none"
      <3>1. c[k][i].seq = c[k][l].seq /\ c[k][i].seq \in Int
        BY <1>2, <2>2, <2>3 DEF Rows, Seqs
      <3>2. i < l => c[k][i].seq < c[k][l].seq
        BY <1>2, <2>3 DEF Ascending
      <3>3. i = l
        BY <1>2, <3>1, <3>2
      <3>4. QED
        BY <1>2, <2>2, <2>3, <3>3
    <2>4. QED
      BY <2>1, <2>3
  <1>4. CASE ~ \E i \in DOMAIN c[k] : c[k][i].seq = s /\ (c[k][i].hidden \/ c[k][i].chunk # "none")
    <2>1. PICK x : x = [i \in 1..l |-> IF c[k][i].seq = s THEN "bare" ELSE "none"]
      OBVIOUS
    <2>2. PICK rows : rows = Chunked(c[k], x)
      OBVIOUS
    <2>3. PICK d : d = WithRows(c, k, rows)
      OBVIOUS
    <2>4. x \in [1..l -> {"none", "bare", "full"}]
      BY <2>1
    <2>5. rows = [i \in 1..l |-> [c[k][i] EXCEPT !.chunk = IF c[k][i].seq = s THEN "bare" ELSE "none"]]
      BY <1>1, <2>1, <2>2 DEF Chunked
    <2>6. Normalized(c, k, s) = d
      BY <1>2, <1>4, <2>3, <2>5 DEF Normalized, WithRows
    <2>7. /\ d \in Corpora
          /\ \A j \in Keys : j # k => d[j] = c[j]
          /\ Versions(d[k]) = Versions(c[k])
          /\ c[k] # <<>> => d[k] # <<>> /\ Current(d, k) = [Current(c, k) EXCEPT !.chunk = x[l]]
      BY <1>1, <2>2, <2>3, <2>4, Rechunked
    <2>8. ASSUME c[k] # <<>>, s = Current(c, k).seq, ~Current(c, k).hidden
          PROVE  Current(c, k).chunk = "none" /\ Current(d, k).chunk = "bare"
      <3>1. c[k][l].chunk = "none" /\ x[l] = "bare" /\ c[k][l] \in Rows
        BY <1>2, <1>4, <2>1, <2>8
      <3>2. QED
        BY <1>2, <2>7, <2>8, <3>1 DEF Rows
    <2>9. QED
      BY <2>6, <2>7, <2>8
  <1>5. QED
    BY <1>3, <1>4

LEMMA EmbeddedOne ==
  ASSUME NEW c \in Corpora, NEW k \in Keys, NEW s
  PROVE  LET d == Embedded(c, k, s)
         IN  /\ d \in Corpora
             /\ \A j \in Keys : j # k => d[j] = c[j]
             /\ Versions(d[k]) = Versions(c[k])
             /\ c[k] # <<>> => d[k] # <<>>
             /\ c[k] # <<>> /\ s = Current(c, k).seq /\ ~Current(c, k).hidden =>
                  Current(d, k).chunk = IF Current(c, k).chunk = "bare" THEN "full"
                                        ELSE Current(c, k).chunk
  <1>1. PICK l : l = Len(c[k])
    OBVIOUS
  <1>2. /\ c[k] \in Seq(Rows) /\ l \in Nat /\ DOMAIN c[k] = 1..l
        /\ c[k] # <<>> => l \in 1..l /\ Current(c, k) = c[k][l] /\ c[k][l] \in Rows
    BY <1>1, LastRow
  <1>3. PICK x : x = [i \in 1..l |-> IF c[k][i].seq = s /\ ~c[k][i].hidden /\ c[k][i].chunk = "bare"
                                       THEN "full" ELSE c[k][i].chunk]
    OBVIOUS
  <1>4. PICK rows : rows = Chunked(c[k], x)
    OBVIOUS
  <1>5. PICK d : d = WithRows(c, k, rows)
    OBVIOUS
  <1>6. x \in [1..l -> {"none", "bare", "full"}]
    <2>1. ASSUME NEW i \in 1..l PROVE c[k][i].chunk \in {"none", "bare", "full"}
      <3>1. c[k][i] \in Rows
        BY <1>2
      <3>2. QED
        BY <3>1 DEF Rows
    <2>2. QED
      BY <1>3, <2>1
  <1>7. ASSUME NEW i \in 1..l
        PROVE  rows[i] = IF c[k][i].seq = s /\ ~c[k][i].hidden /\ c[k][i].chunk = "bare"
                           THEN [c[k][i] EXCEPT !.chunk = "full"] ELSE c[k][i]
    <2>1. c[k][i] \in Rows /\ rows[i] = [c[k][i] EXCEPT !.chunk = x[i]]
      BY <1>1, <1>2, <1>4 DEF Chunked
    <2>2. QED
      BY <1>3, <2>1 DEF Rows
  <1>8. rows = [i \in DOMAIN c[k] |-> IF c[k][i].seq = s /\ ~c[k][i].hidden /\ c[k][i].chunk = "bare"
                                        THEN [c[k][i] EXCEPT !.chunk = "full"] ELSE c[k][i]]
    BY <1>1, <1>2, <1>4, <1>7 DEF Chunked
  <1>9. Embedded(c, k, s) = d
    BY <1>5, <1>8 DEF Embedded, WithRows
  <1>10. /\ d \in Corpora
         /\ \A j \in Keys : j # k => d[j] = c[j]
         /\ Versions(d[k]) = Versions(c[k])
         /\ c[k] # <<>> => d[k] # <<>> /\ Current(d, k) = [Current(c, k) EXCEPT !.chunk = x[l]]
    BY <1>1, <1>4, <1>5, <1>6, Rechunked
  <1>11. ASSUME c[k] # <<>>, s = Current(c, k).seq, ~Current(c, k).hidden
         PROVE  Current(d, k).chunk = IF Current(c, k).chunk = "bare" THEN "full"
                                      ELSE Current(c, k).chunk
    <2>1. Current(d, k).chunk = x[l] /\ l \in 1..l
      BY <1>2, <1>10, <1>11 DEF Rows
    <2>2. QED
      BY <1>2, <1>3, <1>11, <2>1
  <1>12. QED
    BY <1>9, <1>10, <1>11

\* What the clearing of a stage does to an item.
LEMMA WithChunkOne ==
  ASSUME NEW c \in Corpora, NEW k \in Keys, c[k] # <<>>,
         NEW chunk \in {"none", "bare", "full"}
  PROVE  LET rows == WithChunk(c, k, chunk)
         IN  /\ rows \in Seq(Rows) /\ rows # <<>>
             /\ Versions(rows) = Versions(c[k])
             /\ Last(rows) = [Current(c, k) EXCEPT !.chunk = chunk]
  <1>1. PICK l : l = Len(c[k])
    OBVIOUS
  <1>2. /\ c[k] \in Seq(Rows) /\ l \in Nat /\ DOMAIN c[k] = 1..l
        /\ l \in 1..l /\ Current(c, k) = c[k][l] /\ c[k][l] \in Rows
    BY <1>1, LastRow
  <1>3. PICK x : x = [i \in 1..l |-> IF i = l THEN chunk ELSE c[k][i].chunk]
    OBVIOUS
  <1>4. PICK rows : rows = Chunked(c[k], x)
    OBVIOUS
  <1>5. PICK d : d = WithRows(c, k, rows)
    OBVIOUS
  <1>6. x \in [1..l -> {"none", "bare", "full"}]
    <2>1. ASSUME NEW i \in 1..l PROVE c[k][i].chunk \in {"none", "bare", "full"}
      <3>1. c[k][i] \in Rows
        BY <1>2
      <3>2. QED
        BY <3>1 DEF Rows
    <2>2. QED
      BY <1>3, <2>1
  <1>7. ASSUME NEW i \in 1..l
        PROVE  rows[i] = IF i = l THEN [c[k][l] EXCEPT !.chunk = chunk] ELSE c[k][i]
    <2>1. c[k][i] \in Rows /\ rows[i] = [c[k][i] EXCEPT !.chunk = x[i]]
      BY <1>1, <1>2, <1>4 DEF Chunked
    <2>2. QED
      BY <1>3, <2>1 DEF Rows
  <1>8. WithChunk(c, k, chunk) = [i \in 1..l |-> IF i = l THEN [c[k][l] EXCEPT !.chunk = chunk] ELSE c[k][i]]
    BY <1>1, <1>2 DEF WithChunk
  <1>9. WithChunk(c, k, chunk) = rows
    BY <1>1, <1>4, <1>7, <1>8 DEF Chunked
  <1>10. /\ d[k] = rows
         /\ Versions(d[k]) = Versions(c[k])
         /\ d[k] # <<>> /\ Current(d, k) = [Current(c, k) EXCEPT !.chunk = x[l]]
         /\ rows \in Seq(Rows)
    BY <1>1, <1>2, <1>4, <1>5, <1>6, Rechunked
  <1>11. x[l] = chunk
    BY <1>2, <1>3
  <1>12. QED
    BY <1>9, <1>10, <1>11 DEF Current
-----------------------------------------------------------------------------
(* What the log tells *)

\* What Telling computes.
IsTelling(f, s, k) ==
  f = [n \in 0..Len(s) |-> IF n = 0 THEN <<>>
                           ELSE IF s[n].key = k THEN Told(f[n - 1], n, s[n])
                           ELSE f[n - 1]]

\* There is one such function.  By induction over the log, as it grows.
Determined(s, k) == \E f : IsTelling(f, s, k) /\ \A g : IsTelling(g, s, k) => g = f

LEMMA TellingIs ==
  ASSUME NEW s, NEW k, NEW f, IsTelling(f, s, k), \A g : IsTelling(g, s, k) => g = f
  PROVE  Telling(k, s) = f
  <1>1. Telling(k, s) = CHOOSE g : IsTelling(g, s, k)
    BY DEF Telling, IsTelling
  <1>2. QED
    BY <1>1

LEMMA NothingTold ==
  ASSUME NEW k
  PROVE  Determined(<<>>, k) /\ Telling(k, <<>>)[0] = <<>>
  <1>1. PICK f : f = [n \in {0} |-> <<>>]
    OBVIOUS
  <1>2. 0..Len(<<>>) = {0}
    OBVIOUS
  <1>3. ASSUME NEW g
        PROVE  IsTelling(g, <<>>, k) <=> g = f
    BY <1>1, <1>2 DEF IsTelling
  <1>4. Telling(k, <<>>) = f
    BY <1>3, TellingIs
  <1>5. QED
    BY <1>1, <1>3, <1>4 DEF Determined

LEMMA ToldSoFar ==
  ASSUME NEW s \in Seq(Events), NEW k, Determined(s, k)
  PROVE  /\ Telling(k, s)[0] = <<>>
         /\ \A n \in 1..Len(s) :
              Telling(k, s)[n] = IF s[n].key = k THEN Told(Telling(k, s)[n - 1], n, s[n])
                                 ELSE Telling(k, s)[n - 1]
  <1>1. PICK f : IsTelling(f, s, k) /\ \A g : IsTelling(g, s, k) => g = f
    BY DEF Determined
  <1>2. Telling(k, s) = f
    BY <1>1, TellingIs
  <1>3. PICK l : l = Len(s) /\ l \in Nat
    OBVIOUS
  <1>4. \A n \in 0..l : f[n] = IF n = 0 THEN <<>>
                               ELSE IF s[n].key = k THEN Told(f[n - 1], n, s[n])
                               ELSE f[n - 1]
    BY <1>1, <1>3 DEF IsTelling
  <1>5. f[0] = <<>>
    BY <1>3, <1>4
  <1>6. \A n \in 1..l : n \in 0..l /\ n # 0
    BY <1>3
  <1>7. QED
    BY <1>2, <1>3, <1>4, <1>5, <1>6

LEMMA Appending ==
  ASSUME NEW S, NEW s \in Seq(S), NEW e \in S
  PROVE  /\ Append(s, e) \in Seq(S)
         /\ Len(Append(s, e)) = Len(s) + 1
         /\ DOMAIN Append(s, e) = DOMAIN s \cup {Len(s) + 1}
         /\ \A i \in DOMAIN s : i <= Len(s) /\ Append(s, e)[i] = s[i]
         /\ Append(s, e)[Len(s) + 1] = e
         /\ Len(s) \in Nat /\ DOMAIN s = 1..Len(s)
  OBVIOUS

LEMMA OneMoreTold ==
  ASSUME NEW s \in Seq(Events), NEW e \in Events, NEW k, Determined(s, k)
  PROVE  LET t == Append(s, e)
             l == Len(s)
         IN  /\ Determined(t, k)
             /\ \A n \in 0..l : Telling(k, t)[n] = Telling(k, s)[n]
             /\ Telling(k, t)[l + 1] =
                  IF e.key = k THEN Told(Telling(k, s)[l], l + 1, e) ELSE Telling(k, s)[l]
  <1>1. PICK f : IsTelling(f, s, k) /\ \A g : IsTelling(g, s, k) => g = f
    BY DEF Determined
  <1>2. PICK t, l : t = Append(s, e) /\ l = Len(s)
    OBVIOUS
  <1>3. /\ l \in Nat /\ Len(t) = l + 1
        /\ t[l + 1] = e
        /\ \A n \in 1..l : t[n] = s[n]
    BY <1>2, Appending
  <1>4. PICK last : last = IF e.key = k THEN Told(f[l], l + 1, e) ELSE f[l]
    OBVIOUS
  <1>5. PICK h : h = [n \in 0..(l + 1) |-> IF n = l + 1 THEN last ELSE f[n]]
    OBVIOUS
  <1>6. \A n \in 0..l : f[n] = IF n = 0 THEN <<>>
                               ELSE IF s[n].key = k THEN Told(f[n - 1], n, s[n])
                               ELSE f[n - 1]
    BY <1>1, <1>2 DEF IsTelling
  <1>7. IsTelling(h, t, k)
    <2>1. ASSUME NEW n \in 0..(l + 1)
          PROVE  h[n] = IF n = 0 THEN <<>>
                        ELSE IF t[n].key = k THEN Told(h[n - 1], n, t[n])
                        ELSE h[n - 1]
      <3>1. CASE n = 0
        <4>1. 0 \in 0..l /\ 0 \in 0..(l + 1) /\ 0 # l + 1
          BY <1>3
        <4>2. h[0] = f[0] /\ f[0] = <<>>
          BY <1>5, <1>6, <4>1
        <4>3. QED
          BY <3>1, <4>2
      <3>2. CASE n \in 1..l
        <4>1. n - 1 \in 0..(l + 1) /\ n - 1 # l + 1 /\ n # l + 1 /\ n \in 0..l /\ n # 0
          BY <1>3, <3>2
        <4>2. h[n] = f[n] /\ h[n - 1] = f[n - 1] /\ t[n] = s[n]
          BY <1>3, <1>5, <3>2, <4>1
        <4>3. QED
          BY <1>6, <4>1, <4>2
      <3>3. CASE n = l + 1
        <4>1. n - 1 = l /\ n # 0 /\ l \in 0..(l + 1) /\ l # l + 1
          BY <1>3, <3>3
        <4>2. h[n] = last /\ h[n - 1] = f[l] /\ t[n] = e
          BY <1>3, <1>5, <3>3, <4>1
        <4>3. QED
          BY <1>4, <3>3, <4>1, <4>2
      <3>4. QED
        BY <1>3, <3>1, <3>2, <3>3
    <2>2. h = [n \in 0..(l + 1) |-> h[n]]
      BY <1>5
    <2>3. QED
      BY <1>3, <2>1, <2>2 DEF IsTelling
  <1>8. ASSUME NEW g, IsTelling(g, t, k) PROVE g = h
    <2>1. /\ g = [n \in 0..(l + 1) |-> g[n]]
          /\ \A n \in 0..(l + 1) : g[n] = IF n = 0 THEN <<>>
                                         ELSE IF t[n].key = k THEN Told(g[n - 1], n, t[n])
                                         ELSE g[n - 1]
      BY <1>3, <1>8 DEF IsTelling
    <2>2. PICK p : p = [n \in 0..l |-> g[n]]
      OBVIOUS
    <2>3. IsTelling(p, s, k)
      <3>1. ASSUME NEW n \in 0..l
            PROVE  p[n] = IF n = 0 THEN <<>>
                          ELSE IF s[n].key = k THEN Told(p[n - 1], n, s[n])
                          ELSE p[n - 1]
        <4>1. CASE n = 0
          <5>1. n \in 0..(l + 1) /\ p[n] = g[n]
            BY <1>3, <2>2
          <5>2. QED
            BY <2>1, <4>1, <5>1
        <4>2. CASE n # 0
          <5>1. n \in 1..l /\ n - 1 \in 0..l /\ n \in 0..(l + 1)
            BY <1>3, <4>2
          <5>2. p[n] = g[n] /\ p[n - 1] = g[n - 1] /\ t[n] = s[n]
            BY <1>3, <2>2, <5>1
          <5>3. QED
            BY <2>1, <4>2, <5>1, <5>2
        <4>3. QED
          BY <4>1, <4>2
      <3>2. p = [n \in 0..l |-> p[n]]
        BY <2>2
      <3>3. QED
        BY <1>2, <3>1, <3>2 DEF IsTelling
    <2>4. p = f
      BY <1>1, <2>3
    <2>5. ASSUME NEW n \in 0..(l + 1) PROVE g[n] = h[n]
      <3>1. CASE n \in 0..l
        BY <1>3, <1>5, <2>2, <2>4, <3>1
      <3>2. CASE n = l + 1
        <4>1. n - 1 = l /\ n # 0 /\ l \in 0..l
          BY <1>3, <3>2
        <4>2. g[l] = f[l] /\ t[n] = e
          BY <1>3, <2>2, <2>4, <3>2, <4>1
        <4>3. h[n] = last
          BY <1>5, <3>2
        <4>4. QED
          BY <1>4, <2>1, <3>2, <4>1, <4>2, <4>3
      <3>3. QED
        BY <1>3, <3>1, <3>2
    <2>6. h = [n \in 0..(l + 1) |-> h[n]]
      BY <1>5
    <2>7. QED
      BY <2>1, <2>5, <2>6
  <1>9. Telling(k, s) = f /\ Telling(k, t) = h
    BY <1>1, <1>7, <1>8, TellingIs
  <1>10. h[l + 1] = last /\ \A n \in 0..l : h[n] = f[n]
    BY <1>3, <1>5
  <1>11. QED
    BY <1>2, <1>4, <1>7, <1>8, <1>9, <1>10 DEF Determined

\* A version as the log tells of it: the event that recorded it, and whether it is hidden.
Marks == Nat \X BOOLEAN

LEMMA MarkFacts ==
  /\ \A n \in Nat : <<n, FALSE>> \in Marks
  /\ \A m \in Marks : m[1] \in Nat /\ <<m[1], TRUE>> \in Marks
  BY DEF Marks

\* The versions after n events, in their order.
Orderly(t, n) ==
  /\ t \in Seq(Marks)
  /\ \A i \in 1..Len(t) : t[i][1] <= n
  /\ \A i, j \in 1..Len(t) : i < j => t[i][1] < t[j][1]

LEMMA ToldInOrder ==
  ASSUME NEW n \in Nat, NEW t, Orderly(t, n), NEW e
  PROVE  Orderly(Told(t, n + 1, e), n + 1)
  <1>1. PICK l : l = Len(t) /\ l \in Nat
    BY DEF Orderly
  <1>2. /\ t \in Seq(Marks) /\ DOMAIN t = 1..l
        /\ \A i \in 1..l : t[i] \in Marks /\ t[i][1] <= n /\ t[i][1] \in Nat
        /\ \A i, j \in 1..l : i < j => t[i][1] < t[j][1]
    <2>1. /\ t \in Seq(Marks) /\ DOMAIN t = 1..l
          /\ \A i \in 1..l : t[i] \in Marks /\ t[i][1] <= n
          /\ \A i, j \in 1..l : i < j => t[i][1] < t[j][1]
      BY <1>1 DEF Orderly
    <2>2. ASSUME NEW i \in 1..l PROVE t[i][1] \in Nat
      <3>1. t[i] \in Marks
        BY <2>1
      <3>2. QED
        BY <3>1 DEF Marks
    <2>3. QED
      BY <2>1, <2>2
  <1>3. CASE e.type = "observed"
    <2>1. PICK new : new = <<n + 1, FALSE>>
      OBVIOUS
    <2>2. new \in Marks /\ new[1] = n + 1
      <3>1. PICK m \in Nat : m = n + 1
        OBVIOUS
      <3>2. <<m, FALSE>> \in Marks
        BY MarkFacts
      <3>3. QED
        BY <2>1, <3>1, <3>2
    <2>3. PICK u : u = Append(t, new)
      OBVIOUS
    <2>4. /\ u \in Seq(Marks) /\ Len(u) = l + 1
          /\ \A i \in 1..l : u[i] = t[i]
          /\ u[l + 1] = new
      BY <1>1, <1>2, <2>2, <2>3
    <2>5. ASSUME NEW i \in 1..(l + 1) PROVE u[i][1] <= n + 1
      BY <1>1, <1>2, <2>2, <2>4
    <2>6. ASSUME NEW i \in 1..(l + 1), NEW j \in 1..(l + 1), i < j PROVE u[i][1] < u[j][1]
      <3>1. i \in 1..l
        BY <1>1, <2>6
      <3>2. CASE j \in 1..l
        BY <1>2, <2>4, <2>6, <3>1, <3>2
      <3>3. CASE j = l + 1
        BY <1>2, <2>2, <2>4, <3>1, <3>3
      <3>4. QED
        BY <1>1, <3>2, <3>3
    <2>7. Orderly(u, n + 1)
      BY <2>4, <2>5, <2>6 DEF Orderly
    <2>8. QED
      BY <1>3, <2>1, <2>3, <2>7 DEF Told
  <1>4. CASE e.type = "deleted" /\ t # <<>>
    <2>1. l \in 1..l
      BY <1>1, <1>2, <1>4
    <2>2. PICK new : new = <<t[l][1], TRUE>>
      OBVIOUS
    <2>3. new \in Marks /\ new[1] = t[l][1]
      BY <1>2, <2>1, <2>2, MarkFacts
    <2>4. PICK u : u = [i \in 1..l |-> IF i = l THEN new ELSE t[i]]
      OBVIOUS
    <2>5. u \in [1..l -> Marks]
      BY <1>2, <2>3, <2>4
    <2>6. u \in Seq(Marks) /\ Len(u) = l
      BY <1>1, <2>5
    <2>7. \A i \in 1..l : u[i][1] = t[i][1]
      BY <2>3, <2>4
    <2>8. Orderly(u, n + 1)
      BY <1>1, <1>2, <2>6, <2>7 DEF Orderly
    <2>9. u = [t EXCEPT ![Len(t)] = <<@[1], TRUE>>]
      BY <1>1, <1>2, <2>1, <2>2, <2>4
    <2>10. QED
      BY <1>4, <2>8, <2>9 DEF Told
  <1>5. CASE e.type # "observed" /\ ~(e.type = "deleted" /\ t # <<>>)
    <2>1. Orderly(t, n + 1)
      BY <1>1, <1>2 DEF Orderly
    <2>2. QED
      BY <1>5, <2>1 DEF Told
  <1>6. QED
    BY <1>3, <1>4, <1>5

\* The rows of an item that the log tells of.
LEMMA OrderlyRows ==
  ASSUME NEW c \in Corpora, NEW k \in Keys, NEW n \in Nat, Orderly(Versions(c[k]), n)
  PROVE  /\ Ascending(c[k])
         /\ \A i \in DOMAIN c[k] : c[k][i].seq <= n
  <1>1. PICK l : l = Len(c[k])
    OBVIOUS
  <1>2. /\ l \in Nat /\ DOMAIN c[k] = 1..l
        /\ Versions(c[k]) = [i \in 1..l |-> <<c[k][i].seq, c[k][i].hidden>>]
    BY <1>1, CurrentRow
  <1>3. Len(Versions(c[k])) = l
    BY <1>2
  <1>4. \A i \in 1..l : Versions(c[k])[i][1] = c[k][i].seq
    BY <1>2
  <1>5. QED
    BY <1>2, <1>3, <1>4 DEF Orderly, Ascending

\* Rows with the same versions have the same current one, but for its chunk.
LEMMA SameCurrent ==
  ASSUME NEW c \in Corpora, NEW k \in Keys, NEW d \in Corpora, Versions(d[k]) = Versions(c[k])
  PROVE  /\ d[k] = <<>> <=> c[k] = <<>>
         /\ c[k] # <<>> => /\ Current(d, k).seq = Current(c, k).seq
                           /\ Current(d, k).hidden = Current(c, k).hidden
                           /\ Last(Versions(c[k])) = <<Current(c, k).seq, Current(c, k).hidden>>
  <1>1. PICK l, m : l = Len(c[k]) /\ m = Len(d[k])
    OBVIOUS
  <1>2. PICK v : v = Versions(c[k])
    OBVIOUS
  <1>3. /\ l \in Nat /\ m \in Nat
        /\ v = [i \in 1..l |-> <<c[k][i].seq, c[k][i].hidden>>]
        /\ v = [i \in 1..m |-> <<d[k][i].seq, d[k][i].hidden>>]
        /\ v = <<>> <=> c[k] = <<>>
        /\ v = <<>> <=> d[k] = <<>>
        /\ c[k] # <<>> => l \in 1..l /\ Current(c, k) = c[k][l]
        /\ d[k] # <<>> => m \in 1..m /\ Current(d, k) = d[k][m]
    BY <1>1, <1>2, CurrentRow
  <1>4. Len(v) = l /\ Len(v) = m
    BY <1>3
  <1>5. ASSUME c[k] # <<>>
        PROVE  /\ v[l] = <<c[k][l].seq, c[k][l].hidden>>
               /\ v[l] = <<d[k][l].seq, d[k][l].hidden>>
               /\ Last(v) = v[l]
    <2>1. v[l] = <<c[k][l].seq, c[k][l].hidden>>
      BY <1>3, <1>5
    <2>2. v[l] = <<d[k][l].seq, d[k][l].hidden>>
      BY <1>3, <1>4, <1>5
    <2>3. Last(v) = v[l]
      BY <1>4 DEF Last
    <2>4. QED
      BY <2>1, <2>2, <2>3
  <1>6. QED
    BY <1>2, <1>3, <1>4, <1>5

\* Every item's story is determined by the log and told in order.
Determinate(k) ==
  /\ Determined(log, k)
  /\ \A n \in 0..Len(log) : Orderly(Telling(k, log)[n], n)
-----------------------------------------------------------------------------
(* Types and shape *)

TypeInv == ReplayTypeOK /\ Shape

Places == Ended \cup Running

\* The fields of a replay, now and when it has moved on.
LEMMA Fields ==
  ASSUME ReplayTypeOK
  PROVE  /\ replay.at \in Places
         /\ replay.mode \in {"place", "shadow"} /\ replay.stage \in Stages
         /\ replay.scope \in Sources \cup {Keys} /\ replay.scope \subseteq Keys
         /\ replay.after \in Nat /\ replay.after \in Afters
         /\ replay.kept \subseteq Links /\ replay.purged \subseteq Keys
         /\ replay.pos \in Nat /\ replay.upto \in 0..MaxEvents
         /\ replay.todo \subseteq Keys \X Seqs
  BY ReplayAssumption DEF ReplayTypeOK, Replays, Places

LEMMA Moves ==
  ASSUME ReplayTypeOK, NEW p \in Places, Under(p)
  PROVE  /\ replay' \in Replays
         /\ replay'.at = p
         /\ replay'.mode = replay.mode /\ replay'.stage = replay.stage
         /\ replay'.scope = replay.scope /\ replay'.after = replay.after
         /\ replay'.kept = replay.kept /\ replay'.purged = replay.purged
         /\ replay'.pos = replay.pos /\ replay'.upto = replay.upto
         /\ replay'.todo = replay.todo
  BY DEF ReplayTypeOK, Replays, Places, Under

LEMMA IdleIsOne ==
  /\ Idle \in Replays /\ Idle.at = "idle" /\ Idle.mode = "place" /\ Idle.after = 0
  /\ Idle.stage = "all" /\ Idle.kept = {}
  <1>1. 0 \in Afters /\ 0 \in Nat /\ 0 \in 0..MaxEvents
    BY ReplayAssumption
  <1>2. {} \in SUBSET Links /\ {} \in SUBSET Keys /\ {} \in SUBSET (Keys \X Seqs)
    OBVIOUS
  <1>3. Keys \in Sources \cup {Keys}
    OBVIOUS
  <1>4. QED
    BY <1>1, <1>2, <1>3 DEF Idle, Replays, Ended, Stages

LEMMA Ends ==
  ASSUME ReplayTypeOK, NEW p \in Ended, Over(p)
  PROVE  /\ replay' \in Replays
         /\ replay'.at = p /\ replay'.mode = replay.mode /\ replay'.after = replay.after
         /\ replay'.stage = "all"
  <1>1. replay.mode \in {"place", "shadow"} /\ replay.after \in Afters
    BY Fields
  <1>2. QED
    BY <1>1, IdleIsOne DEF Over, Replays, Idle

LEMMA NothingIsDue ==
  /\ Nothing.chunk \in [Keys -> {"none", "bare", "full", None}]
  /\ Nothing.links = {}
  /\ \A k \in Keys : Nothing.chunk[k] = None
  BY DEF Nothing

\* The chunk of an item, as it is now.
LEMMA ChunkIs ==
  ASSUME ReplayTypeOK, NEW k \in Keys
  PROVE  ChunkOf(k) \in {"none", "bare", "full"}
  <1>1. live \in Corpora
    BY DEF ReplayTypeOK
  <1>2. live[k] # <<>> => Current(live, k) \in Rows
    BY <1>1, CurrentRow
  <1>3. QED
    BY <1>2 DEF ChunkOf, Rows

LEMMA LiveChanges ==
  ASSUME ReplayTypeOK, NEW c \in Corpora, SetLive(c)
  PROVE  live' = c /\ live' \in Corpora /\ evidence' \in SUBSET Links
  BY DEF SetLive, Surviving, ReplayTypeOK

LEMMA LinkIs ==
  ASSUME NEW c \in Corpora, NEW l \in Links, Citable(c, l)
  PROVE  /\ Relinked(c, l) \in Links
         /\ Relinked(c, l).owner = l.owner /\ Relinked(c, l).key = l.key
         /\ Relinked(c, l).chunk = l.chunk
         /\ l.key \in Keys
  <1>1. l.key \in Keys
    BY DEF Links
  <1>2. Current(c, l.key).seq \in Seqs
    BY <1>1, CurrentRow DEF Citable, Shown, Rows
  <1>3. QED
    BY <1>1, <1>2 DEF Links, Relinked

\* What others do to the live tables touches one item.
Meddles(k) ==
  /\ \/ log' = log
     \/ \E e \in Events : e.key = k /\ Len(log) < MaxEvents /\ log' = Append(log, e)
  /\ live' \in Corpora
  /\ \A j \in Keys : j # k => live'[j] = live[j]
  /\ evidence' \in SUBSET Links
  /\ shadow' = shadow /\ graph' = graph
  /\ Touch(k)

LEMMA LogsOne ==
  ASSUME NEW type \in {"observed", "deleted", "purged"}, NEW k \in Keys, Log(type, k)
  PROVE  \E e \in Events : e.key = k /\ Len(log) < MaxEvents /\ log' = Append(log, e)
  <1>1. [type |-> type, key |-> k] \in Events
    BY DEF Events
  <1>2. QED
    BY <1>1 DEF Log

LEMMA OthersMeddle ==
  ASSUME ReplayTypeOK, NEW k \in Keys,
         \/ Observe(k) \/ Hide(k) \/ Purge(k) \/ Work(k)
         \/ \E o \in Owners, chunk \in BOOLEAN : Link(o, k, chunk)
  PROVE  Meddles(k)
  <1>0. live \in Corpora /\ log \in Seq(Events) /\ evidence \in SUBSET Links
    BY DEF ReplayTypeOK
  <1>1. CASE Observe(k)
    <2>1. PICK c : c = AddVersion(live, k, Len(log) + 1)
      OBVIOUS
    <2>2. Len(log) + 1 \in Seqs
      BY <1>0, <1>1, ReplayAssumption DEF Observe, Log, Seqs
    <2>3. c \in Corpora /\ \A j \in Keys : j # k => c[j] = live[j]
      BY <1>0, <2>1, <2>2, AddedOthers
    <2>4. SetLive(c)
      BY <1>1, <2>1 DEF Observe
    <2>5. live' = c /\ live' \in Corpora /\ evidence' \in SUBSET Links
      BY <2>3, <2>4, LiveChanges
    <2>6. QED
      BY <1>1, <2>3, <2>5, LogsOne DEF Observe, Meddles
  <1>2. CASE Hide(k)
    <2>1. PICK c : c = HideCurrent(live, k)
      OBVIOUS
    <2>2. c \in Corpora /\ \A j \in Keys : j # k => c[j] = live[j]
      BY <1>0, <2>1, HiddenOne
    <2>3. SetLive(c)
      BY <1>2, <2>1 DEF Hide
    <2>4. live' = c /\ live' \in Corpora /\ evidence' \in SUBSET Links
      BY <2>2, <2>3, LiveChanges
    <2>5. QED
      BY <1>2, <2>2, <2>4, LogsOne DEF Hide, Meddles
  <1>3. CASE Purge(k)
    <2>1. PICK c : c = [live EXCEPT ![k] = <<>>]
      OBVIOUS
    <2>2. c \in Corpora /\ \A j \in Keys : j # k => c[j] = live[j]
      BY <1>0, <2>1 DEF Corpora
    <2>3. SetLive(c)
      BY <1>3, <2>1 DEF Purge
    <2>4. live' = c /\ live' \in Corpora /\ evidence' \in SUBSET Links
      BY <2>2, <2>3, LiveChanges
    <2>5. QED
      BY <1>3, <2>2, <2>4, LogsOne DEF Purge, Meddles
  <1>4. CASE Work(k)
    <2>1. PICK c : /\ c = Normalized(live, k, Current(live, k).seq)
                        \/ c = Embedded(live, k, Current(live, k).seq)
                   /\ SetLive(c)
      BY <1>4 DEF Work
    <2>2. c \in Corpora /\ \A j \in Keys : j # k => c[j] = live[j]
      BY <1>0, <2>1, NormalizedOne, EmbeddedOne
    <2>3. live' = c /\ live' \in Corpora /\ evidence' \in SUBSET Links
      BY <2>1, <2>2, LiveChanges
    <2>4. QED
      BY <1>4, <2>2, <2>3 DEF Work, Meddles
  <1>5. ASSUME NEW o \in Owners, NEW chunk \in BOOLEAN, Link(o, k, chunk)
        PROVE  Meddles(k)
    <2>1. PICK l : l = [owner |-> o, key |-> k, ver |-> 1, chunk |-> chunk]
      OBVIOUS
    <2>2. Citable(live, l) /\ evidence' = evidence \cup {Relinked(live, l)}
      BY <1>5, <2>1 DEF Link
    <2>3. Current(live, k).seq \in Seqs
      BY <1>0, <2>1, <2>2, CurrentRow DEF Citable, Shown, Rows
    <2>4. Relinked(live, l) \in Links
      BY <2>1, <2>3 DEF Relinked, Links
    <2>5. QED
      BY <1>0, <1>5, <2>2, <2>4 DEF Link, Meddles
  <1>6. QED
    BY <1>1, <1>2, <1>3, <1>4, <1>5

\* Such a step leaves the replay that runs alone and what it owes for other items;
\* it forgets one that is over.
LEMMA TouchIs ==
  ASSUME ReplayTypeOK, NEW k \in Keys, Touch(k)
  PROVE  /\ replay' \in Replays
         /\ due'.chunk \in [Keys -> {"none", "bare", "full", None}]
         /\ due'.links \in SUBSET Links
         /\ \/ replay.at \in Ended /\ replay' = Idle /\ due' = Nothing
            \/ /\ replay.at \notin Ended /\ replay' = replay
               /\ due'.chunk[k] = None
               /\ \A j \in Keys : j # k => due'.chunk[j] = due.chunk[j]
               /\ due'.links = {l \in due.links : l.key # k}
  <1>1. CASE replay.at \in Ended
    BY <1>1, IdleIsOne, NothingIsDue DEF Touch
  <1>2. CASE replay.at \notin Ended
    <2>1. /\ replay' = replay
          /\ due'.chunk = [due.chunk EXCEPT ![k] = None]
          /\ due'.links = {l \in due.links : l.key # k}
      BY <1>2 DEF Touch
    <2>2. due.chunk \in [Keys -> {"none", "bare", "full", None}] /\ due.links \in SUBSET Links
          /\ replay \in Replays
      BY DEF ReplayTypeOK
    <2>3. QED
      BY <1>2, <2>1, <2>2
  <1>3. QED
    BY <1>1, <1>2

\* A replay that is over, or about to be, has no shape to keep.
LEMMA AtRest ==
  ASSUME replay'.at \in Ended \cup {"unwind"}
  PROVE  Shape'
  BY DEF Shape, WorkspaceShape, PlaceShape, EventShape, Ended, Running, InWorkspace, Rebuilding,
    Processing, Redoing

LEMMA MeddlingTypes ==
  ASSUME TypeInv, NEW k \in Keys, Meddles(k)
  PROVE  TypeInv'
  <1>1. ReplayTypeOK'
    <2>1. log' \in Seq(Events) /\ Len(log') <= MaxEvents
      <3>1. log \in Seq(Events) /\ Len(log) <= MaxEvents /\ MaxEvents \in Nat
        BY ReplayAssumption DEF TypeInv, ReplayTypeOK
      <3>2. ASSUME NEW e \in Events, Len(log) < MaxEvents, log' = Append(log, e)
            PROVE  log' \in Seq(Events) /\ Len(log') <= MaxEvents
        BY <3>1, <3>2
      <3>3. QED
        BY <3>1, <3>2 DEF Meddles
    <2>2. /\ replay' \in Replays
          /\ due'.chunk \in [Keys -> {"none", "bare", "full", None}]
          /\ due'.links \in SUBSET Links
      BY TouchIs DEF TypeInv, Meddles
    <2>3. QED
      BY <2>1, <2>2 DEF TypeInv, Meddles, ReplayTypeOK
  <1>2. \/ replay' = Idle
        \/ /\ replay' = replay /\ shadow' = shadow /\ Len(log) <= Len(log')
           /\ \A i \in 1..Len(log) : log'[i] = log[i]
    <2>1. log \in Seq(Events)
      BY DEF TypeInv, ReplayTypeOK
    <2>2. ASSUME NEW e \in Events, log' = Append(log, e)
          PROVE  Len(log) <= Len(log') /\ \A i \in 1..Len(log) : log'[i] = log[i]
      BY <2>1, <2>2
    <2>3. Len(log) <= Len(log') /\ \A i \in 1..Len(log) : log'[i] = log[i]
      BY <2>1, <2>2 DEF Meddles
    <2>4. QED
      BY <2>3, TouchIs DEF TypeInv, Meddles
  <1>3. CASE replay' = Idle
    BY <1>1, <1>3, IdleIsOne, AtRest DEF Ended, TypeInv
  <1>4. CASE /\ replay' = replay /\ shadow' = shadow /\ Len(log) <= Len(log')
             /\ \A i \in 1..Len(log) : log'[i] = log[i]
    <2>1. WorkspaceShape'
      BY <1>4 DEF TypeInv, Shape, WorkspaceShape, InPlace, Complete
    <2>2. replay.upto \in Nat /\ Len(log) \in Nat /\ Len(log') \in Nat
      BY <1>1, Fields DEF TypeInv, ReplayTypeOK
    <2>3. PlaceShape'
      BY <1>4, <2>2 DEF TypeInv, Shape, PlaceShape, InPlace
    <2>4. EventShape'
      <3>1. ASSUME replay.at \in Processing
            PROVE  replay.pos \in 1..Len(log)
        BY <2>2, <3>1 DEF TypeInv, Shape, EventShape, PlaceShape
      <3>2. QED
        BY <1>4, <3>1 DEF TypeInv, Shape, EventShape
    <2>5. QED
      BY <1>1, <2>1, <2>3, <2>4 DEF TypeInv, Shape
  <1>5. QED
    BY <1>1, <1>2, <1>3, <1>4 DEF TypeInv

\* A step of the replay that only moves on.
LEMMA MovingTypes ==
  ASSUME TypeInv, NEW p \in Places, Under(p), log' = log,
         live' \in Corpora, evidence' \in SUBSET Links, shadow' \in Corpora \cup {None},
         graph' \in {"shows", "empty", "dangles"}, due' = due
  PROVE  ReplayTypeOK'
  BY Moves DEF TypeInv, ReplayTypeOK

LEMMA BeginTypes ==
  ASSUME TypeInv, NEW mode \in Modes, NEW stage \in Stages, NEW scope \in Sources \cup {Keys},
         NEW after \in Afters, Begin(mode, stage, scope, after)
  PROVE  TypeInv'
  <1>0. /\ live \in Corpora /\ evidence \in SUBSET Links /\ evidence' = {}
        /\ log' = log /\ live' = live /\ shadow' = shadow /\ graph' = graph
    BY DEF TypeInv, ReplayTypeOK, Begin
  <1>1. /\ replay'.at = (IF mode = "shadow" THEN "create" ELSE "clear")
        /\ replay'.mode = mode
        /\ replay' \in Replays
    <2>1. mode \in {"place", "shadow"} /\ 0 \in Nat /\ 0 \in 0..MaxEvents
      BY ReplayAssumption
    <2>2. QED
      BY <1>0, <2>1 DEF Begin, Replays, Running, Ended
  <1>2. due'.chunk \in [Keys -> {"none", "bare", "full", None}]
    <2>1. due'.chunk = [k \in Keys |-> IF AsLogged(k) THEN ChunkOf(k) ELSE None]
      BY DEF Begin
    <2>2. QED
      BY <2>1, ChunkIs DEF TypeInv
  <1>3. due'.links \in SUBSET Links
    <2>1. due'.links = {Relinked(live, l) : l \in {x \in evidence : AsLogged(x.key) /\ Citable(live, x)}}
      BY DEF Begin
    <2>2. ASSUME NEW l \in evidence, Citable(live, l) PROVE Relinked(live, l) \in Links
      BY <1>0, <2>2, LinkIs
    <2>3. QED
      BY <2>1, <2>2
  <1>4. ReplayTypeOK'
    BY <1>0, <1>1, <1>2, <1>3 DEF TypeInv, ReplayTypeOK
  <1>5. Shape'
    <2>1. \/ mode = "shadow" /\ replay'.at = "create" /\ replay'.mode = "shadow"
          \/ replay'.at = "clear" /\ replay'.mode = "place"
      BY <1>1, ReplayAssumption
    <2>2. QED
      BY <2>1 DEF Shape, WorkspaceShape, PlaceShape, EventShape, InPlace, Running, InWorkspace,
        Rebuilding, Processing, Redoing
  <1>6. QED
    BY <1>4, <1>5 DEF TypeInv

LEMMA CreateTypes ==
  ASSUME TypeInv, Create
  PROVE  TypeInv'
  <1>1. Empty \in Corpora
    BY DEF Empty, Corpora
  <1>2. "clear" \in Places
    BY DEF Places, Running
  <1>3. ReplayTypeOK'
    BY <1>1, <1>2, MovingTypes DEF Create, TypeInv, ReplayTypeOK
  <1>4. Shape'
    BY <1>1, <1>2, Moves DEF Create, TypeInv, At, Shape, WorkspaceShape, PlaceShape, EventShape, InPlace, Complete,
      Running, InWorkspace, Rebuilding, Processing, Redoing
  <1>5. QED
    BY <1>3, <1>4 DEF TypeInv

LEMMA ClearedItems ==
  ASSUME TypeInv
  PROVE  /\ Cleared \in Corpora
         /\ \A k \in Keys : Cleared[k] =
              CASE replay.stage = "all" /\ k \in replay.scope -> <<>>
                [] replay.stage = "normalize" /\ Reprocessed(k) -> WithChunk(live, k, "none")
                [] replay.stage = "embed" /\ Reprocessed(k)
                     /\ Current(live, k).chunk # "none" -> WithChunk(live, k, "bare")
                [] OTHER -> live[k]
  <1>1. live \in Corpora
    BY DEF TypeInv, ReplayTypeOK
  <1>2. ASSUME NEW k \in Keys PROVE live[k] \in Seq(Rows) /\ <<>> \in Seq(Rows)
    BY <1>1 DEF Corpora
  <1>3. ASSUME NEW k \in Keys, Reprocessed(k)
        PROVE  WithChunk(live, k, "none") \in Seq(Rows) /\ WithChunk(live, k, "bare") \in Seq(Rows)
    <2>1. live[k] # <<>>
      BY <1>3 DEF Reprocessed, Shown
    <2>2. QED
      BY <1>1, <2>1, WithChunkOne
  <1>4. QED
    BY <1>2, <1>3 DEF Cleared, Corpora

LEMMA ClearTypes ==
  ASSUME TypeInv, Clear
  PROVE  TypeInv'
  <1>1. Cleared \in Corpora /\ Empty \in Corpora
    BY ClearedItems DEF Empty, Corpora
  <1>2. PICK p : p = IF InPlace /\ Complete THEN "cleargraph" ELSE AfterClearing
    OBVIOUS
  <1>3. p \in Places /\ Under(p)
    <2>1. AfterClearing \in Places
      BY Fields DEF AfterClearing, TypeInv, Stages, Places, Running
    <2>2. QED
      BY <1>2, <2>1 DEF Clear, Places, Running
  <1>4. /\ live' \in Corpora /\ evidence' \in SUBSET Links /\ shadow' \in Corpora \cup {None}
        /\ ~InPlace => shadow' \in Corpora
    BY <1>1, LiveChanges DEF Clear, TypeInv, ReplayTypeOK
  <1>5. ReplayTypeOK'
    BY <1>3, <1>4, MovingTypes DEF Clear, TypeInv, ReplayTypeOK
  <1>6. Shape'
    <2>1. ~InPlace => Complete
      BY DEF Clear, At, TypeInv, Shape, WorkspaceShape, Running
    <2>2. replay.stage \in Stages
      BY Fields DEF TypeInv
    <2>3. CASE InPlace /\ Complete
      BY <1>2, <1>3, <2>3, Moves DEF TypeInv, Shape, WorkspaceShape, PlaceShape, EventShape, InPlace, Complete,
        Running, InWorkspace, Rebuilding, Processing, Redoing
    <2>4. CASE ~(InPlace /\ Complete)
      <3>1. p = CASE replay.stage = "all" -> "scan"
                  [] replay.stage = "normalize" -> "target"
                  [] replay.stage = "embed" -> "retarget"
        BY <1>2, <2>4 DEF AfterClearing
      <3>2. \/ p = "scan" /\ replay.stage = "all"
            \/ p = "target" /\ replay.stage = "normalize" /\ InPlace
            \/ p = "retarget" /\ replay.stage = "embed" /\ InPlace
        BY <2>1, <2>2, <3>1 DEF Stages, Complete
      <3>3. QED
        BY <1>3, <1>4, <2>1, <3>2, Moves DEF TypeInv, Shape, WorkspaceShape, PlaceShape, EventShape, InPlace,
          Complete, Running, InWorkspace, Rebuilding, Processing, Redoing
    <2>5. QED
      BY <2>3, <2>4
  <1>7. QED
    BY <1>5, <1>6 DEF TypeInv

LEMMA ClearGraphTypes ==
  ASSUME TypeInv, ClearGraph
  PROVE  TypeInv'
  <1>1. PICK p : p = IF InPlace THEN "scan" ELSE "project"
    OBVIOUS
  <1>2. p \in Places /\ Under(p)
    BY <1>1 DEF ClearGraph, Places, Running
  <1>3. ReplayTypeOK'
    BY <1>2, MovingTypes DEF ClearGraph, TypeInv, ReplayTypeOK
  <1>4. Shape'
    BY <1>1, <1>2, Moves DEF ClearGraph, At, TypeInv, Shape, WorkspaceShape, PlaceShape, EventShape, InPlace,
      Complete, Running, InWorkspace, Rebuilding, Processing, Redoing
  <1>5. QED
    BY <1>3, <1>4 DEF TypeInv

LEMMA ScanTypes ==
  ASSUME TypeInv, ScanPurged
  PROVE  TypeInv'
  <1>1. PICK ks : ks = {k \in replay.scope :
                          \E i \in DOMAIN log : i > replay.after /\ log[i].type = "purged"
                                                /\ log[i].key = k}
    OBVIOUS
  <1>2. ks \in SUBSET Keys /\ replay' = [replay EXCEPT !.at = "open", !.purged = ks]
    BY <1>1, Fields DEF ScanPurged, TypeInv
  <1>3. /\ replay' \in Replays /\ replay'.at = "open" /\ replay'.mode = replay.mode
        /\ replay'.stage = replay.stage /\ replay'.scope = replay.scope
        /\ replay'.after = replay.after
    BY <1>2 DEF TypeInv, ReplayTypeOK, Replays, Running
  <1>4. ReplayTypeOK'
    BY <1>3 DEF ScanPurged, TypeInv, ReplayTypeOK
  <1>5. Shape'
    BY <1>3 DEF ScanPurged, At, TypeInv, Shape, WorkspaceShape, PlaceShape, EventShape, InPlace,
      Complete, Running, InWorkspace, Rebuilding, Processing, Redoing
  <1>6. QED
    BY <1>4, <1>5 DEF TypeInv

LEMMA OpenTypes ==
  ASSUME TypeInv, OpenLog
  PROVE  TypeInv'
  <1>1. Len(log) \in 0..MaxEvents /\ replay.after \in Nat
    BY Fields, ReplayAssumption DEF TypeInv, ReplayTypeOK
  <1>2. /\ replay' \in Replays /\ replay'.at = "apply" /\ replay'.mode = replay.mode
        /\ replay'.stage = replay.stage /\ replay'.scope = replay.scope
        /\ replay'.after = replay.after /\ replay'.upto = Len(log)
    BY <1>1 DEF OpenLog, TypeInv, ReplayTypeOK, Replays, Running
  <1>3. ReplayTypeOK'
    BY <1>2 DEF OpenLog, TypeInv, ReplayTypeOK
  <1>4. Shape'
    BY <1>1, <1>2 DEF OpenLog, At, TypeInv, Shape, WorkspaceShape, PlaceShape, EventShape, InPlace,
      Complete, Running, InWorkspace, Rebuilding, Processing, Redoing
  <1>5. QED
    BY <1>3, <1>4 DEF TypeInv

LEMMA TargetIs ==
  ASSUME TypeInv, replay.at \in InWorkspace
  PROVE  Target \in Corpora
  BY DEF TypeInv, Shape, WorkspaceShape, ReplayTypeOK, Target

LEMMA TargetChanges ==
  ASSUME TypeInv, NEW c \in Corpora, SetTarget(c)
  PROVE  /\ InPlace => live' = c /\ shadow' = shadow
         /\ ~InPlace => shadow' = c /\ live' = live
         /\ live' \in Corpora /\ evidence' \in SUBSET Links /\ shadow' \in Corpora \cup {None}
         /\ ~InPlace => shadow' \in Corpora
  BY LiveChanges DEF TypeInv, SetTarget, ReplayTypeOK

\* The event Apply reads, what it makes of the tables, and whether it passes it over.
Skips(e) == e.key \notin replay.scope \/ e.key \in replay.purged \/ e.type = "purged"
Applied(e, s) ==
  CASE Skips(e) -> Target
    [] ~Skips(e) /\ e.type = "observed" -> AddVersion(Target, e.key, s)
    [] ~Skips(e) /\ e.type = "deleted" -> HideCurrent(Target, e.key)

LEMMA ApplyIs ==
  ASSUME TypeInv, Apply
  PROVE  \E s \in 1..Len(log), e \in Events, c \in Corpora :
           /\ s = replay.pos + 1 /\ s <= replay.upto /\ s \in Seqs /\ e = log[s] /\ c = Applied(e, s)
           /\ SetTarget(c)
           /\ replay' \in Replays
           /\ replay'.at = (IF ~Skips(e) /\ e.type = "observed" THEN "normalize" ELSE "apply")
           /\ replay'.pos = s
           /\ replay'.mode = replay.mode /\ replay'.stage = replay.stage
           /\ replay'.scope = replay.scope /\ replay'.after = replay.after
           /\ replay'.purged = replay.purged /\ replay'.upto = replay.upto
           /\ replay'.kept = replay.kept
           /\ log' = log /\ graph' = graph /\ due' = due
  <1>1. PICK s, e, c : s = replay.pos + 1 /\ e = log[s] /\ c = Applied(e, s)
    OBVIOUS
  <1>2. /\ replay.pos \in Nat /\ replay.upto \in 0..MaxEvents /\ MaxEvents \in Nat
        /\ replay.pos < replay.upto /\ replay.upto <= Len(log)
        /\ log \in Seq(Events) /\ Len(log) <= MaxEvents
    BY Fields, ReplayAssumption DEF Apply, At, TypeInv, ReplayTypeOK, Shape, PlaceShape
  <1>3. s \in 1..Len(log) /\ s <= replay.upto /\ s \in Seqs /\ s \in Nat
    BY <1>1, <1>2 DEF Seqs
  <1>4. e \in Events
    BY <1>1, <1>2, <1>3
  <1>5. Target \in Corpora /\ e.key \in Keys /\ e.type \in {"observed", "deleted", "purged"}
    BY <1>4, TargetIs DEF Apply, At, InWorkspace, Events
  <1>6. c \in Corpora
    <2>1. AddVersion(Target, e.key, s) \in Corpora
      BY <1>3, <1>5, Added
    <2>2. HideCurrent(Target, e.key) \in Corpora
      BY <1>5, HiddenOne
    <2>3. QED
      BY <1>1, <1>5, <2>1, <2>2 DEF Applied, Skips
  <1>7. /\ SetTarget(c)
        /\ replay' = [replay EXCEPT !.pos = s,
             !.at = IF ~Skips(e) /\ e.type = "observed" THEN "normalize" ELSE "apply"]
    BY <1>1 DEF Apply, Applied, Skips
  <1>8. /\ replay' \in Replays
        /\ replay'.at = (IF ~Skips(e) /\ e.type = "observed" THEN "normalize" ELSE "apply")
        /\ replay'.pos = s
        /\ replay'.mode = replay.mode /\ replay'.stage = replay.stage
        /\ replay'.scope = replay.scope /\ replay'.after = replay.after
        /\ replay'.purged = replay.purged /\ replay'.upto = replay.upto
        /\ replay'.kept = replay.kept
    <2>1. PICK p : p = IF ~Skips(e) /\ e.type = "observed" THEN "normalize" ELSE "apply"
      OBVIOUS
    <2>2. p \in Ended \cup Running
      BY <2>1 DEF Running
    <2>3. replay' = [replay EXCEPT !.pos = s, !.at = p]
      BY <1>7, <2>1
    <2>4. QED
      BY <1>3, <2>1, <2>2, <2>3 DEF TypeInv, ReplayTypeOK, Replays
  <1>9. QED
    BY <1>1, <1>3, <1>4, <1>6, <1>7, <1>8 DEF Apply

LEMMA ApplyTypes ==
  ASSUME TypeInv, Apply
  PROVE  TypeInv'
  <1>1. PICK s \in 1..Len(log), e \in Events, c \in Corpora :
           /\ s = replay.pos + 1 /\ s <= replay.upto /\ e = log[s]
           /\ SetTarget(c)
           /\ replay' \in Replays
           /\ replay'.at = (IF ~Skips(e) /\ e.type = "observed" THEN "normalize" ELSE "apply")
           /\ replay'.pos = s
           /\ replay'.mode = replay.mode /\ replay'.stage = replay.stage
           /\ replay'.scope = replay.scope /\ replay'.after = replay.after
           /\ replay'.purged = replay.purged /\ replay'.upto = replay.upto
           /\ log' = log /\ graph' = graph /\ due' = due
    BY ApplyIs
  <1>2. /\ live' \in Corpora /\ evidence' \in SUBSET Links /\ shadow' \in Corpora \cup {None}
        /\ ~InPlace => shadow' \in Corpora
    BY <1>1, TargetChanges
  <1>3. ReplayTypeOK'
    BY <1>1, <1>2 DEF TypeInv, ReplayTypeOK
  <1>4. replay.at = "apply"
    BY DEF Apply, At
  <1>5. WorkspaceShape' /\ PlaceShape'
    BY <1>1, <1>2, <1>4 DEF TypeInv, Shape, WorkspaceShape, PlaceShape, InPlace,
      Complete, Running, InWorkspace, Rebuilding, Processing, Redoing
  <1>6. EventShape'
    <2>1. ASSUME replay'.at \in Processing PROVE ~Skips(e) /\ e.type = "observed"
      BY <1>1, <2>1 DEF Processing
    <2>2. e.key \in Keys
      BY DEF Events
    <2>3. s \in 1..replay.upto
      BY <1>1, Fields, ReplayAssumption DEF TypeInv
    <2>4. QED
      BY <1>1, <2>1, <2>2, <2>3 DEF EventShape, Skips
  <1>7. QED
    BY <1>3, <1>5, <1>6 DEF TypeInv, Shape

LEMMA ProcessTypes ==
  ASSUME TypeInv, NormalizeOne \/ EmbedOne
  PROVE  TypeInv'
  <1>1. PICK c, p : /\ \/ At("normalize") /\ c = Normalized(Target, log[replay.pos].key, replay.pos) /\ p = "embed"
                       \/ At("embed") /\ c = Embedded(Target, log[replay.pos].key, replay.pos) /\ p = "apply"
                    /\ SetTarget(c) /\ Under(p)
    BY DEF NormalizeOne, EmbedOne
  <1>2. replay.at \in Processing /\ replay.at \in InWorkspace /\ p \in Places
    BY <1>1 DEF At, Processing, InWorkspace, Places, Running
  <1>3. Target \in Corpora /\ log[replay.pos].key \in Keys
    BY <1>2, TargetIs, Fields DEF TypeInv, Shape, EventShape
  <1>4. c \in Corpora
    BY <1>1, <1>3, NormalizedOne, EmbeddedOne
  <1>5. /\ live' \in Corpora /\ evidence' \in SUBSET Links /\ shadow' \in Corpora \cup {None}
        /\ ~InPlace => shadow' \in Corpora
    BY <1>1, <1>4, TargetChanges
  <1>6. log' = log /\ graph' = graph /\ due' = due
    BY DEF NormalizeOne, EmbedOne
  <1>7. ReplayTypeOK'
    BY <1>1, <1>2, <1>5, <1>6, MovingTypes DEF TypeInv, ReplayTypeOK
  <1>8. Shape'
    <2>1. \/ replay.at = "normalize" /\ replay'.at = "embed"
          \/ replay.at = "embed" /\ replay'.at = "apply"
      BY <1>1, <1>2, Moves DEF At, TypeInv
    <2>2. WorkspaceShape' /\ PlaceShape'
      BY <1>1, <1>2, <1>5, <1>6, <2>1, Moves DEF TypeInv, Shape, WorkspaceShape, PlaceShape, InPlace,
        Complete, Running, InWorkspace, Rebuilding, Processing, Redoing
    <2>3. EventShape'
      BY <1>1, <1>2, <1>6, <2>1, Moves DEF TypeInv, Shape, EventShape, Processing
    <2>4. QED
      BY <2>2, <2>3 DEF Shape
  <1>9. QED
    BY <1>7, <1>8 DEF TypeInv

LEMMA EndOfLogTypes ==
  ASSUME TypeInv, EndOfLog
  PROVE  TypeInv'
  <1>1. PICK p : p = CASE ~InPlace -> "swap"
                       [] InPlace /\ Complete -> "project"
                       [] OTHER -> "restore"
    OBVIOUS
  <1>2. p \in Places /\ Under(p)
    BY <1>1 DEF EndOfLog, Places, Running
  <1>3. ReplayTypeOK'
    BY <1>2, MovingTypes DEF EndOfLog, TypeInv, ReplayTypeOK
  <1>4. Shape'
    <2>1. replay.at = "apply"
      BY DEF EndOfLog, At
    <2>2. \/ p = "swap" /\ ~InPlace
          \/ p = "project" /\ InPlace
          \/ p = "restore" /\ InPlace
      BY <1>1
    <2>3. QED
      BY <1>2, <2>1, <2>2, Moves DEF EndOfLog, TypeInv, Shape, WorkspaceShape, PlaceShape, EventShape,
        InPlace, Complete, Running, InWorkspace, Rebuilding, Processing, Redoing
  <1>5. QED
    BY <1>3, <1>4 DEF TypeInv

LEMMA TargetsTypes ==
  ASSUME TypeInv, FindTargets
  PROVE  TypeInv'
  <1>1. PICK p, todo : /\ p = (IF At("target") THEN "rechunk" ELSE "reembed")
                       /\ todo = {<<k, Current(live, k).seq>> : k \in {x \in Keys : Reprocessed(x)}}
    OBVIOUS
  <1>2. todo \subseteq Keys \X Seqs
    <2>1. ASSUME NEW k \in Keys, Reprocessed(k) PROVE Current(live, k).seq \in Seqs
      BY <2>1, CurrentRow DEF TypeInv, ReplayTypeOK, Reprocessed, Shown, Rows
    <2>2. QED
      BY <1>1, <2>1
  <1>3. replay' = [replay EXCEPT !.at = p, !.todo = todo]
    BY <1>1 DEF FindTargets
  <1>4. /\ replay' \in Replays /\ replay'.at = p /\ replay'.mode = replay.mode
        /\ replay'.stage = replay.stage /\ replay'.scope = replay.scope
        /\ replay'.after = replay.after /\ replay'.kept = replay.kept /\ replay'.todo = todo
    <2>1. p \in Ended \cup Running
      BY <1>1 DEF Running
    <2>2. todo \in SUBSET (Keys \X Seqs)
      BY <1>2
    <2>3. QED
      BY <1>3, <2>1, <2>2 DEF TypeInv, ReplayTypeOK, Replays
  <1>5. ReplayTypeOK'
    BY <1>4 DEF FindTargets, TypeInv, ReplayTypeOK
  <1>6. Shape'
    <2>1. \/ replay.at = "target" /\ p = "rechunk"
          \/ replay.at = "retarget" /\ p = "reembed"
      BY <1>1 DEF FindTargets, At
    <2>2. QED
      BY <1>4, <2>1 DEF FindTargets, TypeInv, Shape, WorkspaceShape, PlaceShape, EventShape, InPlace,
        Complete, Running, InWorkspace, Rebuilding, Processing, Redoing
  <1>7. QED
    BY <1>5, <1>6 DEF TypeInv

LEMMA ReprocessTypes ==
  ASSUME TypeInv, NEW k \in Keys, NEW s \in Seqs, Reprocess(k, s)
  PROVE  TypeInv'
  <1>1. PICK c : /\ \/ At("rechunk") /\ c = Normalized(live, k, s)
                    \/ At("reembed") /\ c = Embedded(live, k, s)
                 /\ SetLive(c)
    BY DEF Reprocess
  <1>2. c \in Corpora
    BY <1>1, NormalizedOne, EmbeddedOne DEF TypeInv, ReplayTypeOK
  <1>3. live' \in Corpora /\ evidence' \in SUBSET Links
    BY <1>1, <1>2, LiveChanges DEF TypeInv
  <1>4. PICK todo : todo = replay.todo \ {<<k, s>>}
    OBVIOUS
  <1>5. todo \in SUBSET (Keys \X Seqs) /\ replay' = [replay EXCEPT !.todo = todo]
    BY <1>4, Fields DEF TypeInv, Reprocess
  <1>6. /\ replay' \in Replays /\ replay'.at = replay.at /\ replay'.mode = replay.mode
        /\ replay'.stage = replay.stage /\ replay'.scope = replay.scope
        /\ replay'.after = replay.after /\ replay'.kept = replay.kept /\ replay'.todo = todo
    BY <1>5 DEF TypeInv, ReplayTypeOK, Replays
  <1>7. ReplayTypeOK'
    BY <1>3, <1>6 DEF Reprocess, TypeInv, ReplayTypeOK
  <1>8. Shape'
    <2>1. replay.at \in {"rechunk", "reembed"}
      BY <1>1 DEF At
    <2>2. QED
      BY <1>6, <2>1 DEF Reprocess, TypeInv, Shape, WorkspaceShape, PlaceShape, EventShape, InPlace,
        Complete, Running, InWorkspace, Rebuilding, Processing, Redoing
  <1>9. QED
    BY <1>7, <1>8 DEF TypeInv

LEMMA EndOfTargetsTypes ==
  ASSUME TypeInv, EndOfTargets
  PROVE  TypeInv'
  <1>1. PICK p : p = IF At("rechunk") THEN "retarget" ELSE "restore"
    OBVIOUS
  <1>2. p \in Places /\ Under(p)
    BY <1>1 DEF EndOfTargets, Places, Running
  <1>3. ReplayTypeOK'
    BY <1>2, MovingTypes DEF EndOfTargets, TypeInv, ReplayTypeOK
  <1>4. Shape'
    <2>1. \/ replay.at = "rechunk" /\ p = "retarget"
          \/ replay.at = "reembed" /\ p = "restore"
      BY <1>1 DEF EndOfTargets, At
    <2>2. QED
      BY <1>2, <2>1, Moves DEF EndOfTargets, TypeInv, Shape, WorkspaceShape, PlaceShape, EventShape,
        InPlace, Complete, Running, InWorkspace, Rebuilding, Processing, Redoing
  <1>5. QED
    BY <1>3, <1>4 DEF TypeInv

LEMMA SwapTypes ==
  ASSUME TypeInv, Swap \/ Project
  PROVE  TypeInv'
  <1>1. PICK p : p = (IF At("swap") THEN "cleargraph" ELSE "restore") /\ p \in Places
    BY DEF Places, Running
  <1>2. Under(p)
    BY <1>1 DEF Swap, Project, At
  <1>3. live' \in Corpora /\ shadow' \in Corpora \cup {None} /\ graph' \in {"shows", "empty", "dangles"}
    <2>1. At("swap") => ~InPlace /\ shadow \in Corpora
      BY DEF At, TypeInv, Shape, WorkspaceShape, PlaceShape, InWorkspace
    <2>2. QED
      BY <2>1 DEF Swap, Project, TypeInv, ReplayTypeOK
  <1>4. ReplayTypeOK'
    BY <1>1, <1>2, <1>3, MovingTypes DEF Swap, Project, TypeInv, ReplayTypeOK
  <1>5. Shape'
    <2>1. \/ replay.at = "swap" /\ p = "cleargraph"
          \/ replay.at = "project" /\ p = "restore"
      BY <1>1 DEF Swap, Project, At
    <2>2. QED
      BY <1>1, <1>2, <2>1, Moves DEF TypeInv, Shape, WorkspaceShape, PlaceShape, EventShape,
        InPlace, Complete, Running, InWorkspace, Rebuilding, Processing, Redoing
  <1>6. QED
    BY <1>4, <1>5 DEF TypeInv

LEMMA FailIs ==
  ASSUME ReplayTypeOK, Fail
  PROVE  /\ replay' \in Replays /\ replay'.at = "unwind" /\ replay'.mode = replay.mode
         /\ replay'.after = replay.after /\ replay'.kept = replay.kept /\ replay'.stage = "all"
  <1>1. replay.mode \in {"place", "shadow"} /\ replay.after \in Afters /\ replay.kept \in SUBSET Links
    BY Fields
  <1>2. "unwind" \in Ended \cup Running
    BY DEF Running
  <1>3. replay' = [Idle EXCEPT !.at = "unwind", !.mode = replay.mode,
                               !.after = replay.after, !.kept = replay.kept]
    BY DEF Fail
  <1>4. QED
    BY <1>1, <1>2, <1>3, IdleIsOne DEF Replays

LEMMA EndTypes ==
  ASSUME TypeInv, Fail \/ Restore \/ Kill
  PROVE  TypeInv'
  <1>1. replay' \in Replays /\ replay'.at \in Ended \cup {"unwind"}
    <2>1. CASE Fail
      BY <2>1, FailIs DEF TypeInv
    <2>2. ASSUME NEW p \in Ended, Over(p) PROVE replay' \in Replays /\ replay'.at \in Ended
      BY <2>2, Ends DEF TypeInv
    <2>3. QED
      BY <2>1, <2>2 DEF Restore, Kill, Ended
  <1>2. evidence' \in SUBSET Links
    <2>1. ASSUME NEW l \in Restorable PROVE Relinked(live, l) \in Links
      <3>1. l \in Links /\ Citable(live, l) /\ live \in Corpora
        BY Fields DEF TypeInv, ReplayTypeOK, Restorable
      <3>2. QED
        BY <3>1, LinkIs
    <2>2. QED
      BY <2>1 DEF Fail, Restore, Kill, TypeInv, ReplayTypeOK
  <1>3. /\ log' = log /\ live' = live /\ graph' = graph /\ shadow' \in {shadow, None}
        /\ due' \in {due, Nothing}
    BY DEF Fail, Restore, Kill
  <1>4. /\ due'.chunk \in [Keys -> {"none", "bare", "full", None}]
        /\ due'.links \in SUBSET Links
    BY <1>3, NothingIsDue DEF TypeInv, ReplayTypeOK
  <1>5. ReplayTypeOK'
    BY <1>1, <1>2, <1>3, <1>4 DEF TypeInv, ReplayTypeOK
  <1>6. QED
    BY <1>1, <1>5, AtRest DEF TypeInv

LEMMA TypeStep ==
  ASSUME TypeInv, [Next]_vars
  PROVE  TypeInv'
  <1>1. CASE UNCHANGED vars
    <2>1. ReplayTypeOK'
      BY <1>1 DEF vars, TypeInv, ReplayTypeOK
    <2>2. Shape'
      BY <1>1 DEF vars, TypeInv, Shape, WorkspaceShape, PlaceShape, EventShape, InPlace, Complete
    <2>3. QED
      BY <2>1, <2>2 DEF TypeInv
  <1>2. CASE ReplayStep
    BY <1>2, BeginTypes, CreateTypes, ClearTypes, ClearGraphTypes, ScanTypes, OpenTypes, ApplyTypes,
      ProcessTypes, EndOfLogTypes, TargetsTypes, ReprocessTypes, EndOfTargetsTypes, SwapTypes, EndTypes
      DEF ReplayStep
  <1>3. ASSUME NEW k \in Keys,
               \/ Observe(k) \/ Hide(k) \/ Purge(k) \/ Work(k)
               \/ \E o \in Owners, chunk \in BOOLEAN : Link(o, k, chunk)
        PROVE  TypeInv'
    BY <1>3, OthersMeddle, MeddlingTypes DEF TypeInv
  <1>4. QED
    BY <1>1, <1>2, <1>3 DEF Next

LEMMA TypeInit == Init => TypeInv
  <1> SUFFICES ASSUME Init PROVE TypeInv
    OBVIOUS
  <1>1. Empty \in Corpora /\ log \in Seq(Events) /\ Len(log) <= MaxEvents
    BY ReplayAssumption DEF Init, Empty, Corpora
  <1>2. ReplayTypeOK
    BY <1>1, IdleIsOne, NothingIsDue DEF Init, ReplayTypeOK
  <1>3. Shape
    BY IdleIsOne DEF Init, Shape, WorkspaceShape, PlaceShape, EventShape, InPlace, Running, InWorkspace,
      Rebuilding, Processing, Redoing
  <1>4. QED
    BY <1>2, <1>3 DEF TypeInv

\* A replay keeps to the tables it may write: what it holds in each place is what the
\* place works on.
THEOREM Invariance == Spec => []TypeInv
  BY TypeInit, TypeStep, PTL DEF Spec

\* The log, the tables, the workspace, the evidence and what a replay remembers have
\* the shape the code gives them.
THEOREM TypeCorrect == Spec => []ReplayTypeOK
  <1>1. TypeInv => ReplayTypeOK
    BY DEF TypeInv
  <1>2. QED
    BY <1>1, Invariance, PTL
-----------------------------------------------------------------------------
(* The story of one item *)

LEMMA NothingInOrder ==
  ASSUME NEW n \in Nat
  PROVE  Orderly(<<>>, n)
  BY DEF Orderly

LEMMA LogSteps ==
  ASSUME TypeInv, [Next]_vars
  PROVE  log' = log \/ \E e \in Events : log' = Append(log, e)
  <1>1. CASE UNCHANGED vars
    BY <1>1 DEF vars
  <1>2. CASE ReplayStep
    BY <1>2 DEF ReplayStep, Begin, Create, Clear, ClearGraph, ScanPurged, OpenLog, Apply, NormalizeOne,
      EmbedOne, EndOfLog, FindTargets, EndOfTargets, Reprocess, Swap, Project, Fail, Restore, Kill
  <1>3. ASSUME NEW k \in Keys,
               \/ Observe(k) \/ Hide(k) \/ Purge(k) \/ Work(k)
               \/ \E o \in Owners, chunk \in BOOLEAN : Link(o, k, chunk)
        PROVE  log' = log \/ \E e \in Events : log' = Append(log, e)
    BY <1>3, OthersMeddle DEF TypeInv, Meddles
  <1>4. QED
    BY <1>1, <1>2, <1>3 DEF Next

LEMMA DeterminateStep ==
  ASSUME TypeInv, [Next]_vars, NEW k \in Keys, Determinate(k)
  PROVE  Determinate(k)'
  <1>1. log \in Seq(Events)
    BY DEF TypeInv, ReplayTypeOK
  <1>2. CASE log' = log
    BY <1>2 DEF Determinate
  <1>3. ASSUME NEW e \in Events, log' = Append(log, e) PROVE Determinate(k)'
    <2>1. PICK s, l : s = log /\ l = Len(s)
      OBVIOUS
    <2>2. PICK t : t = Append(s, e)
      OBVIOUS
    <2>3. s \in Seq(Events) /\ l \in Nat /\ Len(t) = l + 1 /\ Determined(s, k)
      BY <1>1, <2>1, <2>2 DEF Determinate
    <2>4. /\ Determined(t, k)
          /\ \A n \in 0..l : Telling(k, t)[n] = Telling(k, s)[n]
          /\ Telling(k, t)[l + 1] =
               IF e.key = k THEN Told(Telling(k, s)[l], l + 1, e) ELSE Telling(k, s)[l]
      BY <2>1, <2>2, <2>3, OneMoreTold
    <2>5. \A n \in 0..l : Orderly(Telling(k, t)[n], n)
      BY <2>1, <2>4 DEF Determinate
    <2>6. Orderly(Telling(k, t)[l + 1], l + 1)
      <3>1. PICK v : v = Telling(k, s)[l]
        OBVIOUS
      <3>2. Orderly(v, l)
        BY <2>1, <2>3, <3>1 DEF Determinate
      <3>3. Orderly(Told(v, l + 1, e), l + 1)
        BY <2>3, <3>2, ToldInOrder
      <3>4. Orderly(v, l + 1)
        BY <2>3, <3>2 DEF Orderly, Marks
      <3>5. QED
        BY <2>4, <3>1, <3>3, <3>4
    <2>7. \A n \in 0..(l + 1) : n \in 0..l \/ n = l + 1
      BY <2>3
    <2>8. \A n \in 0..Len(t) : Orderly(Telling(k, t)[n], n)
      BY <2>3, <2>5, <2>6, <2>7
    <2>9. log' = t
      BY <1>3, <2>1, <2>2
    <2>10. QED
      BY <2>4, <2>8, <2>9 DEF Determinate
  <1>4. QED
    BY <1>2, <1>3, LogSteps

LEMMA DeterminateInit ==
  ASSUME Init, NEW k \in Keys
  PROVE  Determinate(k)
  <1>1. log = <<>> /\ 0..Len(log) = {0}
    BY DEF Init
  <1>2. Determined(log, k) /\ Telling(k, log)[0] = <<>>
    BY <1>1, NothingTold
  <1>3. Orderly(<<>>, 0)
    BY NothingInOrder
  <1>4. QED
    BY <1>1, <1>2, <1>3 DEF Determinate

LEMMA SaidInOrder ==
  ASSUME TypeInv, NEW k \in Keys, Determinate(k)
  PROVE  Orderly(Said(k), Len(log)) /\ Len(log) \in Nat
  <1>1. Len(log) \in Nat /\ Len(log) \in 0..Len(log)
    BY DEF TypeInv, ReplayTypeOK
  <1>2. QED
    BY <1>1, NothingInOrder DEF Said, Determinate

LEMMA AsLoggedInOrder ==
  ASSUME TypeInv, NEW k \in Keys, Determinate(k), AsLogged(k)
  PROVE  Ascending(live[k])
  BY SaidInOrder, OrderlyRows DEF AsLogged, TypeInv, ReplayTypeOK

\* The log may have grown, but not about this item.
SameStory(k) ==
  /\ Len(log) \in Nat /\ Len(log') \in Nat /\ Len(log) <= Len(log')
  /\ \A n \in 1..Len(log) : log'[n] = log[n]
  /\ \A n \in 0..Len(log) : Telling(k, log')[n] = Telling(k, log)[n]
  /\ Telling(k, log')[Len(log')] = Telling(k, log)[Len(log)]
  /\ Purged(k)' <=> Purged(k)
  /\ Said(k)' = Said(k)

LEMMA SameLog ==
  ASSUME TypeInv, NEW k \in Keys, log' = log
  PROVE  SameStory(k)
  <1>1. Len(log) \in Nat
    BY DEF TypeInv, ReplayTypeOK
  <1>2. Purged(k)' <=> Purged(k)
    BY DEF Purged
  <1>3. Said(k)' = Said(k)
    BY <1>2 DEF Said
  <1>4. QED
    BY <1>1, <1>2, <1>3 DEF SameStory

LEMMA OtherItem ==
  ASSUME TypeInv, NEW k \in Keys, Determinate(k), NEW e \in Events, e.key # k, log' = Append(log, e)
  PROVE  SameStory(k)
  <1>1. PICK s, l, t : s = log /\ l = Len(s) /\ t = Append(s, e)
    OBVIOUS
  <1>2. /\ s \in Seq(Events) /\ l \in Nat /\ Len(t) = l + 1 /\ Determined(s, k)
        /\ DOMAIN s = 1..l /\ DOMAIN t = 1..(l + 1)
        /\ \A n \in 1..l : t[n] = s[n]
        /\ t[l + 1] = e
    BY <1>1 DEF Determinate, TypeInv, ReplayTypeOK
  <1>3. /\ \A n \in 0..l : Telling(k, t)[n] = Telling(k, s)[n]
        /\ Telling(k, t)[l + 1] = Telling(k, s)[l]
    BY <1>1, <1>2, OneMoreTold
  <1>4. log' = t
    BY <1>1
  <1>5. Purged(k)' <=> Purged(k)
    <2>1. Purged(k) <=> \E i \in 1..l : s[i].key = k /\ s[i].type = "purged"
      BY <1>1, <1>2 DEF Purged
    <2>2. Purged(k)' <=> \E i \in 1..(l + 1) : t[i].key = k /\ t[i].type = "purged"
      BY <1>2, <1>4 DEF Purged
    <2>3. QED
      BY <1>2, <2>1, <2>2
  <1>6. Said(k)' = Said(k)
    BY <1>1, <1>2, <1>3, <1>4, <1>5 DEF Said
  <1>7. QED
    BY <1>1, <1>2, <1>3, <1>4, <1>5, <1>6 DEF SameStory

-----------------------------------------------------------------------------
(* What is owed for an item that nobody else has touched *)

Untouched(k) == due.chunk[k] # None

\* As the replay found it; as good as it found it.
AsFound(k) == AsLogged(k) /\ due.chunk[k] = ChunkOf(k)
Fulfilled(k) == AsLogged(k) /\ Rank(ChunkOf(k)) >= Rank(due.chunk[k])

\* The version that is current went through the whole pipeline.
Embeds(rows) == rows = <<>> \/ Last(rows).chunk = "full"

\* What of the log has been read so far is what the rows say.
Rebuilds(k, rows) ==
  /\ replay.at \in {"cleargraph", "scan", "open"} => rows = <<>>
  /\ replay.at \in {"open", "apply"} \cup Processing => (k \in replay.purged <=> Purged(k))
  /\ replay.at \in {"apply"} \cup Processing =>
       /\ replay.pos <= replay.upto
       /\ Telling(k, log)[replay.upto] = Telling(k, log)[Len(log)]
       /\ Versions(rows) = IF Purged(k) THEN <<>> ELSE Telling(k, log)[replay.pos]
  /\ replay.at = "apply" => Embeds(rows)
  /\ replay.at \in Processing =>
       IF log[replay.pos].key = k
         THEN /\ rows # <<>> /\ Last(rows).seq = replay.pos /\ ~Last(rows).hidden
              /\ Last(rows).chunk = IF At("normalize") THEN "none" ELSE "bare"
         ELSE Embeds(rows)
  /\ replay.at = "swap" => Versions(rows) = Said(k) /\ Embeds(rows)

\* A stage that is done again: what still has to be done is on the list.
Redoes(k) ==
  /\ AsLogged(k)
  /\ ~Reprocessed(k) => Fulfilled(k)
  /\ replay.at \in {"rechunk", "reembed"} =>
       \A s \in Seqs : <<k, s>> \in replay.todo => Reprocessed(k) /\ s = Current(live, k).seq
  /\ Reprocessed(k) =>
       /\ replay.at = "rechunk" =>
            <<k, Current(live, k).seq>> \in replay.todo \/ ChunkOf(k) # "none"
       /\ replay.at \in {"retarget", "reembed"} =>
            (due.chunk[k] # "none" => ChunkOf(k) # "none")
       /\ replay.at = "reembed" =>
            <<k, Current(live, k).seq>> \in replay.todo \/ ChunkOf(k) # "bare"

IsSaid(k) == due.chunk[k] # "none" => Said(k) # <<>>

Keeps(k) ==
  \/ replay.at \in {"create", "clear"}
  \/ ~InPlace /\ replay.at \in InWorkspace
  \/ InPlace /\ replay.at \in Rebuilding \cup {"cleargraph"} /\ k \notin replay.scope

Replaces(k) ==
  /\ replay.at \in Rebuilding \cup {"swap"} \/ (InPlace /\ At("cleargraph"))
  /\ replay.after = 0 /\ k \in replay.scope

HasFulfilled ==
  \/ ~InPlace /\ At("cleargraph")
  \/ replay.at \in {"project", "restore", "unwind", "done"} /\ (replay.after = 0 \/ ~InPlace)

Promised(k) ==
  /\ IsSaid(k)
  /\ Keeps(k) => AsFound(k)
  /\ Replaces(k) => Rebuilds(k, Target[k])
  /\ replay.at \in Redoing => Redoes(k)
  /\ HasFulfilled => Fulfilled(k)

\* The rows of the item are what they were, and so is what is owed for it.
Same(k) == SameStory(k) /\ live'[k] = live[k] /\ due'.chunk[k] = due.chunk[k]

LEMMA SameState ==
  ASSUME NEW k \in Keys, Same(k)
  PROVE  /\ AsLogged(k)' <=> AsLogged(k)
         /\ ChunkOf(k)' = ChunkOf(k)
         /\ live'[k] # <<>> <=> live[k] # <<>>
         /\ Shown(live, k)' <=> Shown(live, k)
         /\ Current(live, k)' = Current(live, k)
         /\ AsFound(k)' <=> AsFound(k)
         /\ Fulfilled(k)' <=> Fulfilled(k)
         /\ IsSaid(k)' <=> IsSaid(k)
  <1>1. AsLogged(k)' <=> AsLogged(k)
    BY DEF Same, SameStory, AsLogged
  <1>2. Current(live, k)' = Current(live, k)
    BY DEF Same, Current
  <1>3. ChunkOf(k)' = ChunkOf(k) /\ (Shown(live, k)' <=> Shown(live, k))
    BY <1>2 DEF Same, ChunkOf, Shown
  <1>4. QED
    BY <1>1, <1>2, <1>3 DEF Same, SameStory, AsFound, Fulfilled, IsSaid

LEMMA FoundIsFulfilled ==
  ASSUME TypeInv, NEW k \in Keys, AsFound(k)
  PROVE  Fulfilled(k)
  BY ChunkIs DEF TypeInv, AsFound, Fulfilled, Rank

\* A rebuilt item has its chunks, if it has anything.
LEMMA RebuiltIsFulfilled ==
  ASSUME NEW chunk \in {"none", "bare", "full"}, NEW rows, Embeds(rows), rows = <<>> => chunk = "none"
  PROVE  Rank(IF rows = <<>> THEN "none" ELSE Last(rows).chunk) >= Rank(chunk)
  BY DEF Embeds, Rank

LEMMA DueIs ==
  ASSUME TypeInv, NEW k \in Keys, Untouched(k)
  PROVE  due.chunk[k] \in {"none", "bare", "full"}
  BY DEF TypeInv, ReplayTypeOK, Untouched

\* While others are at another item.
LEMMA MeddlingKeeps ==
  ASSUME TypeInv, NEW k \in Keys, Determinate(k), Untouched(k) => Promised(k),
         NEW j \in Keys, Meddles(j), Untouched(k)'
  PROVE  Promised(k)'
  <1>1. /\ replay' = replay /\ due'.chunk[j] = None /\ k # j
        /\ due'.chunk[k] = due.chunk[k]
    <2>1. due' # Nothing
      BY NothingIsDue DEF Untouched
    <2>2. /\ replay' = replay
          /\ due'.chunk[j] = None
          /\ \A i \in Keys : i # j => due'.chunk[i] = due.chunk[i]
      BY <2>1, TouchIs DEF Meddles, TypeInv
    <2>3. k # j
      BY <2>2 DEF Untouched
    <2>4. QED
      BY <2>2, <2>3
  <1>2. SameStory(k)
    BY <1>1, SameLog, OtherItem DEF Meddles
  <1>3. live'[k] = live[k] /\ shadow' = shadow
    BY <1>1 DEF Meddles
  <1>4. Same(k)
    BY <1>1, <1>2, <1>3 DEF Same
  <1>5. Promised(k)
    BY <1>1 DEF Untouched
  <1>6. /\ InPlace' <=> InPlace
        /\ Keeps(k)' <=> Keeps(k)
        /\ Replaces(k)' <=> Replaces(k)
        /\ HasFulfilled' <=> HasFulfilled
    BY <1>1 DEF InPlace, At, Keeps, Replaces, HasFulfilled
  <1>7. Replaces(k) => Rebuilds(k, Target[k])'
    <2>1. PICK rows : rows = Target[k]
      OBVIOUS
    <2>2. Target[k]' = rows
      BY <1>1, <1>3, <1>6, <2>1 DEF Target
    <2>3. ASSUME Rebuilds(k, rows) PROVE Rebuilds(k, rows)'
      <3>1. replay.at \in {"apply"} \cup Processing =>
              /\ replay.upto \in 0..Len(log) /\ replay.pos \in Nat
              /\ replay.pos <= replay.upto
        BY <1>2, <2>3, Fields, ReplayAssumption DEF Rebuilds, TypeInv, Shape, PlaceShape, SameStory
      <3>2. replay.at \in {"apply"} \cup Processing =>
              /\ replay.pos \in 0..Len(log)
              /\ Telling(k, log')[replay.upto] = Telling(k, log)[replay.upto]
              /\ Telling(k, log')[replay.pos] = Telling(k, log)[replay.pos]
        BY <1>2, <3>1 DEF SameStory
      <3>3. replay.at \in Processing => log'[replay.pos] = log[replay.pos]
        BY <1>2, <3>1 DEF SameStory, TypeInv, Shape, EventShape
      <3>4. /\ Telling(k, log')[Len(log')] = Telling(k, log)[Len(log)]
            /\ Purged(k)' <=> Purged(k)
            /\ Said(k)' = Said(k)
        BY <1>2 DEF SameStory
      <3>5. QED
        BY <1>1, <2>3, <3>2, <3>3, <3>4 DEF Rebuilds, At
    <2>4. Rebuilds(k, Target[k])' <=> Rebuilds(k, rows)'
      BY <2>2 DEF Rebuilds, At
    <2>5. QED
      BY <1>5, <2>1, <2>3, <2>4 DEF Promised
  <1>8. Redoes(k)' <=> Redoes(k)
    <2>1. Reprocessed(k)' <=> Reprocessed(k)
      BY <1>1, <1>4, SameState DEF Reprocessed
    <2>2. QED
      BY <1>1, <1>4, <2>1, SameState DEF Redoes, Same
  <1>9. QED
    BY <1>1, <1>4, <1>5, <1>6, <1>7, <1>8, SameState DEF Promised

LEMMA BeginPromises ==
  ASSUME TypeInv, NEW k \in Keys, NEW mode \in Modes, NEW stage \in Stages,
         NEW scope \in Sources \cup {Keys}, NEW after \in Afters, Begin(mode, stage, scope, after),
         Untouched(k)'
  PROVE  Promised(k)'
  <1>1. /\ log' = log /\ live' = live
        /\ replay'.at \in {"create", "clear"}
    BY DEF Begin
  <1>2. AsLogged(k) /\ due'.chunk[k] = ChunkOf(k)
    BY DEF Begin, Untouched
  <1>3. SameStory(k)
    BY <1>1, SameLog
  <1>4. AsFound(k)'
    BY <1>1, <1>2, <1>3 DEF AsFound, AsLogged, ChunkOf, Current, SameStory
  <1>5. IsSaid(k)'
    <2>1. ChunkOf(k) # "none" => live[k] # <<>>
      BY DEF ChunkOf
    <2>2. live[k] # <<>> => Versions(live[k]) # <<>>
      BY CurrentRow DEF TypeInv, ReplayTypeOK
    <2>3. QED
      BY <1>2, <1>3, <2>1, <2>2 DEF AsLogged, IsSaid, SameStory
  <1>6. ~Replaces(k)' /\ replay'.at \notin Redoing /\ ~HasFulfilled'
    BY <1>1 DEF Replaces, Redoing, HasFulfilled, Rebuilding, At
  <1>7. QED
    BY <1>4, <1>5, <1>6 DEF Promised

\* What every other step of the replay starts from.
Owed(k) == TypeInv /\ Determinate(k) /\ Untouched(k) /\ Promised(k)

LEMMA CreatePromises ==
  ASSUME NEW k \in Keys, Owed(k), Create
  PROVE  Promised(k)'
  <1>1. Same(k)
    BY SameLog DEF Owed, Create, Same
  <1>2. replay.at = "create" /\ replay'.at = "clear"
    BY Moves DEF Create, At, Owed, TypeInv, Places, Running
  <1>3. AsFound(k)
    BY <1>2 DEF Owed, Promised, Keeps
  <1>4. ~Replaces(k)' /\ replay'.at \notin Redoing /\ ~HasFulfilled'
    BY <1>2 DEF Replaces, Redoing, HasFulfilled, Rebuilding, At
  <1>5. QED
    BY <1>1, <1>3, <1>4, SameState DEF Promised, Owed

LEMMA ClearPromises ==
  ASSUME NEW k \in Keys, Owed(k), Clear
  PROVE  Promised(k)'
  <1>1. TypeInv /\ live \in Corpora /\ ReplayTypeOK
    BY DEF Owed, TypeInv, ReplayTypeOK
  <1>2. SameStory(k) /\ due' = due /\ replay.at = "clear"
    BY <1>1, SameLog DEF Clear, At
  <1>3. AsFound(k) /\ IsSaid(k)
    BY <1>2 DEF Owed, Promised, Keeps
  <1>4. IsSaid(k)'
    BY <1>2, <1>3 DEF IsSaid, SameStory
  <1>5. PICK p : p = IF InPlace /\ Complete THEN "cleargraph" ELSE AfterClearing
    OBVIOUS
  <1>6. AfterClearing = CASE replay.stage = "all" -> "scan"
                          [] replay.stage = "normalize" -> "target"
                          [] replay.stage = "embed" -> "retarget"
    BY DEF AfterClearing
  <1>7. /\ Under(p) /\ p \in Places
        /\ \/ p \in {"scan", "cleargraph"} /\ replay.stage = "all"
           \/ p = "target" /\ replay.stage = "normalize"
           \/ p = "retarget" /\ replay.stage = "embed"
        /\ ~InPlace => Complete /\ p = "scan"
    <2>1. ~InPlace => Complete
      BY <1>1, <1>2 DEF TypeInv, Shape, WorkspaceShape, Running
    <2>2. replay.stage \in Stages
      BY <1>1, Fields
    <2>3. QED
      BY <1>5, <1>6, <2>1, <2>2 DEF Clear, Complete, Stages, Places, Running
  <1>8. /\ replay'.at = p /\ replay'.mode = replay.mode /\ replay'.stage = replay.stage
        /\ replay'.scope = replay.scope /\ replay'.after = replay.after
        /\ replay'.todo = replay.todo
    BY <1>1, <1>7, Moves
  <1>9. CASE ~InPlace
    <2>1. Same(k) /\ shadow'[k] = <<>> /\ p = "scan" /\ ~InPlace'
      BY <1>2, <1>7, <1>8, <1>9 DEF Clear, Same, Empty, InPlace
    <2>2. AsFound(k)'
      BY <1>3, <2>1, SameState
    <2>3. Target[k]' = <<>>
      BY <2>1 DEF Target
    <2>4. Rebuilds(k, Target[k])'
      BY <1>8, <2>1, <2>3 DEF Rebuilds, Processing
    <2>5. replay'.at \notin Redoing /\ ~HasFulfilled'
      BY <1>8, <2>1 DEF Redoing, HasFulfilled, At
    <2>6. QED
      BY <1>4, <2>2, <2>4, <2>5 DEF Promised
  <1>10. CASE InPlace /\ replay.stage = "all"
    <2>1. /\ p \in {"scan", "cleargraph"} /\ InPlace'
          /\ live' = Cleared
      BY <1>1, <1>7, <1>8, <1>10, ClearedItems, LiveChanges DEF Clear, InPlace
    <2>2. live'[k] = IF k \in replay.scope THEN <<>> ELSE live[k]
      BY <1>1, <1>10, <2>1, ClearedItems
    <2>3. k \notin replay.scope => AsFound(k)'
      BY <1>2, <1>3, <2>2, SameState DEF Same
    <2>4. Keeps(k)' => k \notin replay.scope
      BY <1>8, <2>1 DEF Keeps, InWorkspace
    <2>5. Replaces(k)' => Rebuilds(k, Target[k])'
      <3>1. ASSUME k \in replay.scope PROVE Target[k]' = <<>>
        BY <2>1, <2>2, <3>1 DEF Target
      <3>2. replay'.at \in {"scan", "cleargraph"}
        BY <1>8, <2>1
      <3>3. Replaces(k)' => k \in replay.scope
        BY <1>8 DEF Replaces
      <3>4. ASSUME Target[k]' = <<>> PROVE Rebuilds(k, Target[k])'
        BY <3>2, <3>4 DEF Rebuilds, Processing
      <3>5. QED
        BY <3>1, <3>3, <3>4
    <2>6. replay'.at \notin Redoing /\ ~HasFulfilled'
      BY <1>8, <2>1 DEF Redoing, HasFulfilled, At
    <2>7. QED
      BY <1>4, <2>3, <2>4, <2>5, <2>6 DEF Promised
  <1>11. CASE InPlace /\ replay.stage # "all"
    <2>1. /\ live' = Cleared /\ live' \in Corpora
          /\ \/ p = "target" /\ replay.stage = "normalize"
             \/ p = "retarget" /\ replay.stage = "embed"
      BY <1>1, <1>7, <1>11, ClearedItems, LiveChanges DEF Clear
    <2>2. PICK chunk \in {"none", "bare"} :
            \/ /\ replay.stage = "normalize" /\ chunk = "none" /\ p = "target"
               /\ live'[k] = IF Reprocessed(k) THEN WithChunk(live, k, chunk) ELSE live[k]
            \/ /\ replay.stage = "embed" /\ chunk = "bare" /\ p = "retarget"
               /\ live'[k] = IF Reprocessed(k) /\ Current(live, k).chunk # "none"
                               THEN WithChunk(live, k, chunk) ELSE live[k]
      BY <1>1, <2>1, ClearedItems
    <2>3. \/ live'[k] = live[k] /\ (replay.stage = "normalize" => ~Reprocessed(k))
          \/ /\ Reprocessed(k) /\ live[k] # <<>>
             /\ live'[k] = WithChunk(live, k, chunk)
             /\ replay.stage = "embed" => Current(live, k).chunk # "none"
      BY <2>2 DEF Reprocessed, Shown
    <2>4. Versions(live'[k]) = Versions(live[k])
      BY <1>1, <2>3, WithChunkOne
    <2>5. AsLogged(k)'
      BY <1>2, <1>3, <2>4 DEF AsFound, AsLogged, SameStory
    <2>6. Reprocessed(k)' <=> Reprocessed(k)
      BY <1>1, <1>8, <2>1, <2>4, SameCurrent DEF Reprocessed, Shown, Current
    <2>7. ~Reprocessed(k)' => Fulfilled(k)'
      <3>1. ASSUME ~Reprocessed(k) PROVE Same(k)
        BY <1>2, <2>3, <3>1 DEF Same
      <3>2. Fulfilled(k)
        BY <1>1, <1>3, FoundIsFulfilled
      <3>3. QED
        BY <2>6, <3>1, <3>2, SameState
    <2>8. ASSUME p = "retarget", due.chunk[k] # "none" PROVE ChunkOf(k)' # "none"
      <3>1. ChunkOf(k) # "none" /\ replay.stage = "embed" /\ live[k] # <<>>
        BY <1>3, <2>1, <2>8 DEF AsFound, ChunkOf
      <3>2. CASE live'[k] = live[k]
        BY <3>1, <3>2 DEF ChunkOf, Current
      <3>3. CASE live'[k] = WithChunk(live, k, chunk)
        <4>1. chunk = "bare"
          BY <2>2, <3>1
        <4>2. /\ live'[k] # <<>>
              /\ Last(live'[k]) = [Current(live, k) EXCEPT !.chunk = chunk]
              /\ Current(live, k) \in Rows
          <5>1. Current(live, k) \in Rows
            BY <1>1, <3>1, CurrentRow
          <5>2. chunk \in {"none", "bare", "full"}
            OBVIOUS
          <5>3. /\ WithChunk(live, k, chunk) # <<>>
                /\ Last(WithChunk(live, k, chunk)) = [Current(live, k) EXCEPT !.chunk = chunk]
            BY <1>1, <3>1, <5>2, WithChunkOne
          <5>4. QED
            BY <3>3, <5>1, <5>3
        <4>3. Last(live'[k]).chunk = "bare"
          BY <4>1, <4>2 DEF Rows
        <4>4. QED
          BY <4>2, <4>3 DEF ChunkOf, Current
      <3>4. QED
        BY <2>3, <3>2, <3>3
    <2>9. Redoes(k)'
      BY <1>2, <1>8, <2>1, <2>5, <2>7, <2>8 DEF Redoes
    <2>10. ~Keeps(k)' /\ ~Replaces(k)' /\ ~HasFulfilled'
      BY <1>8, <2>1 DEF Keeps, Replaces, HasFulfilled, Rebuilding, InWorkspace, At
    <2>11. QED
      BY <1>4, <2>9, <2>10 DEF Promised
  <1>12. QED
    BY <1>9, <1>10, <1>11

LEMMA ClearGraphPromises ==
  ASSUME NEW k \in Keys, Owed(k), ClearGraph
  PROVE  Promised(k)'
  <1>1. Same(k) /\ live' = live /\ shadow' = shadow
    BY SameLog DEF Owed, ClearGraph, Same
  <1>2. PICK p : p = IF InPlace THEN "scan" ELSE "project"
    OBVIOUS
  <1>3. Under(p) /\ p \in Places /\ replay.at = "cleargraph"
    BY <1>2 DEF ClearGraph, At, Places, Running
  <1>4. /\ replay'.at = p /\ replay'.mode = replay.mode
        /\ replay'.scope = replay.scope /\ replay'.after = replay.after
    BY <1>3, Moves DEF Owed, TypeInv
  <1>5. CASE InPlace
    <2>1. InPlace' /\ replay'.at = "scan"
      BY <1>2, <1>4, <1>5 DEF InPlace
    <2>2. Keeps(k)' => Keeps(k)
      BY <1>3, <1>4, <1>5, <2>1 DEF Keeps
    <2>3. Replaces(k)' => Rebuilds(k, Target[k])'
      <3>1. Replaces(k)' => Replaces(k)
        BY <1>3, <1>4, <1>5 DEF Replaces, At
      <3>2. Target[k]' = Target[k]
        BY <1>1, <1>5, <2>1 DEF Target
      <3>3. Replaces(k) => Target[k] = <<>>
        BY <1>3 DEF Owed, Promised, Rebuilds
      <3>4. QED
        BY <2>1, <3>1, <3>2, <3>3 DEF Rebuilds, Processing
    <2>4. replay'.at \notin Redoing /\ ~HasFulfilled'
      BY <2>1 DEF Redoing, HasFulfilled, At
    <2>5. QED
      BY <1>1, <2>2, <2>3, <2>4, SameState DEF Promised, Owed
  <1>6. CASE ~InPlace
    <2>1. HasFulfilled /\ replay'.at = "project"
      BY <1>2, <1>3, <1>4, <1>6 DEF HasFulfilled, At
    <2>2. ~Keeps(k)' /\ ~Replaces(k)' /\ replay'.at \notin Redoing
      BY <2>1 DEF Keeps, Replaces, Redoing, Rebuilding, InWorkspace, At
    <2>3. QED
      BY <1>1, <2>1, <2>2, SameState DEF Promised, Owed
  <1>7. QED
    BY <1>5, <1>6

LEMMA ScanPromises ==
  ASSUME NEW k \in Keys, Owed(k), ScanPurged
  PROVE  Promised(k)'
  <1>1. Same(k) /\ live' = live /\ shadow' = shadow
    BY SameLog DEF Owed, ScanPurged, Same
  <1>2. replay.at = "scan" /\ ReplayTypeOK /\ DOMAIN log = 1..Len(log)
    BY DEF ScanPurged, At, Owed, TypeInv, ReplayTypeOK
  <1>3. PICK ks : ks = {j \in replay.scope :
                          \E i \in DOMAIN log : i > replay.after /\ log[i].type = "purged"
                                                /\ log[i].key = j}
    OBVIOUS
  <1>4. /\ replay'.at = "open" /\ replay'.mode = replay.mode /\ replay'.purged = ks
        /\ replay'.scope = replay.scope /\ replay'.after = replay.after
    <2>1. replay' = [replay EXCEPT !.at = "open", !.purged = ks]
      BY <1>3 DEF ScanPurged
    <2>2. QED
      BY <1>2, <2>1 DEF ReplayTypeOK, Replays
  <1>5. Keeps(k)' => Keeps(k)
    BY <1>2, <1>4 DEF Keeps, InPlace, InWorkspace, Rebuilding
  <1>6. Replaces(k)' => Rebuilds(k, Target[k])'
    <2>1. SUFFICES ASSUME Replaces(k)' PROVE Rebuilds(k, Target[k])'
      OBVIOUS
    <2>2. Replaces(k) /\ replay.after = 0 /\ k \in replay.scope
      BY <1>2, <1>4, <2>1 DEF Replaces, Rebuilding, At
    <2>3. Target[k] = <<>>
      BY <1>2, <2>2 DEF Owed, Promised, Rebuilds
    <2>4. Target[k]' = <<>>
      BY <1>1, <1>4, <2>3 DEF Target, InPlace
    <2>5. k \in ks <=> Purged(k)
      BY <1>2, <1>3, <2>2 DEF Purged
    <2>6. Purged(k)' <=> Purged(k)
      BY <1>1 DEF Same, SameStory
    <2>7. QED
      BY <1>4, <2>4, <2>5, <2>6 DEF Rebuilds, Processing
  <1>7. replay'.at \notin Redoing /\ ~HasFulfilled'
    BY <1>4 DEF Redoing, HasFulfilled, At
  <1>8. QED
    BY <1>1, <1>5, <1>6, <1>7, SameState DEF Promised, Owed

LEMMA OpenPromises ==
  ASSUME NEW k \in Keys, Owed(k), OpenLog
  PROVE  Promised(k)'
  <1>1. Same(k) /\ live' = live /\ shadow' = shadow /\ log' = log
    BY SameLog DEF Owed, OpenLog, Same
  <1>2. replay.at = "open" /\ ReplayTypeOK /\ Len(log) \in Nat /\ log \in Seq(Events)
    BY DEF OpenLog, At, Owed, TypeInv, ReplayTypeOK
  <1>3. /\ replay'.at = "apply" /\ replay'.mode = replay.mode /\ replay'.purged = replay.purged
        /\ replay'.scope = replay.scope /\ replay'.after = replay.after
        /\ replay'.pos = replay.after /\ replay'.upto = Len(log)
    BY <1>2 DEF OpenLog, ReplayTypeOK, Replays
  <1>4. Keeps(k)' => Keeps(k)
    BY <1>2, <1>3 DEF Keeps, InPlace, InWorkspace, Rebuilding
  <1>5. Replaces(k)' => Rebuilds(k, Target[k])'
    <2>1. SUFFICES ASSUME Replaces(k)' PROVE Rebuilds(k, Target[k])'
      OBVIOUS
    <2>2. Replaces(k) /\ replay.after = 0
      BY <1>2, <1>3, <2>1 DEF Replaces, Rebuilding, At
    <2>3. Target[k] = <<>> /\ (k \in replay.purged <=> Purged(k))
      BY <1>2, <2>2 DEF Owed, Promised, Rebuilds
    <2>4. Target[k]' = <<>>
      BY <1>1, <1>3, <2>3 DEF Target, InPlace
    <2>5. Purged(k)' <=> Purged(k)
      BY <1>1 DEF Same, SameStory
    <2>6. Telling(k, log)[0] = <<>>
      BY <1>2, ToldSoFar DEF Owed, Determinate
    <2>7. Versions(<<>>) = <<>>
      BY DEF Versions
    <2>8. QED
      BY <1>1, <1>2, <1>3, <2>2, <2>3, <2>4, <2>5, <2>6, <2>7 DEF Rebuilds, Processing, Embeds
  <1>6. replay'.at \notin Redoing /\ ~HasFulfilled'
    BY <1>3 DEF Redoing, HasFulfilled, At
  <1>7. QED
    BY <1>1, <1>4, <1>5, <1>6, SameState DEF Promised, Owed

LEMMA ApplyPromises ==
  ASSUME NEW k \in Keys, Owed(k), Apply
  PROVE  Promised(k)'
  <1>0. TypeInv /\ log \in Seq(Events) /\ replay.at = "apply"
    BY DEF Owed, TypeInv, ReplayTypeOK, Apply, At
  <1>1. PICK s \in 1..Len(log), e \in Events, c \in Corpora :
           /\ s = replay.pos + 1 /\ s <= replay.upto /\ s \in Seqs /\ e = log[s] /\ c = Applied(e, s)
           /\ SetTarget(c)
           /\ replay'.at = (IF ~Skips(e) /\ e.type = "observed" THEN "normalize" ELSE "apply")
           /\ replay'.pos = s
           /\ replay'.mode = replay.mode
           /\ replay'.scope = replay.scope /\ replay'.after = replay.after
           /\ replay'.purged = replay.purged /\ replay'.upto = replay.upto
           /\ log' = log /\ due' = due
    BY <1>0, ApplyIs
  <1>2. /\ InPlace => live' = c /\ shadow' = shadow
        /\ ~InPlace => shadow' = c /\ live' = live
    BY <1>0, <1>1, TargetChanges
  <1>3. /\ InPlace' <=> InPlace
        /\ Target' = c
        /\ Target \in Corpora /\ e.key \in Keys /\ e.type \in {"observed", "deleted", "purged"}
        /\ SameStory(k)
    BY <1>0, <1>1, <1>2, TargetIs, SameLog DEF InPlace, Target, InWorkspace, Events
  <1>4. \/ Skips(e) /\ c = Target /\ replay'.at = "apply"
        \/ /\ ~Skips(e) /\ e.type = "observed" /\ c = AddVersion(Target, e.key, s)
           /\ replay'.at = "normalize"
        \/ /\ ~Skips(e) /\ e.type = "deleted" /\ c = HideCurrent(Target, e.key)
           /\ replay'.at = "apply"
    BY <1>1, <1>3 DEF Applied, Skips
  <1>5. ASSUME e.key # k \/ Skips(e) PROVE c[k] = Target[k]
    <2>0. Target \in Corpora /\ e.key \in Keys /\ s \in Seqs
      BY <1>1, <1>3
    <2>1. \A j \in Keys : j # e.key => AddVersion(Target, e.key, s)[j] = Target[j]
      BY <2>0, AddedOthers
    <2>2. \A j \in Keys : j # e.key => HideCurrent(Target, e.key)[j] = Target[j]
      BY <1>3, HiddenOne
    <2>3. QED
      BY <1>4, <1>5, <2>1, <2>2
  <1>6. Keeps(k)' => AsFound(k)'
    <2>1. SUFFICES ASSUME Keeps(k)' PROVE AsFound(k)'
      OBVIOUS
    <2>2. replay'.at \in {"apply", "normalize"}
      BY <1>4
    <2>3. Keeps(k) /\ (InPlace => k \notin replay.scope)
      BY <1>0, <1>1, <1>3, <2>1, <2>2 DEF Keeps, InWorkspace, Rebuilding
    <2>4. live'[k] = live[k]
      BY <1>2, <1>5, <2>3 DEF Skips, Target
    <2>5. Same(k)
      BY <1>1, <1>3, <2>4 DEF Same
    <2>6. QED
      BY <2>3, <2>5, SameState DEF Owed, Promised
  <1>7. Replaces(k)' => Rebuilds(k, Target[k])'
    <2>1. SUFFICES ASSUME Replaces(k)' PROVE Rebuilds(k, Target[k])'
      OBVIOUS
    <2>2. Replaces(k) /\ k \in replay.scope
      BY <1>0, <1>1, <2>1 DEF Replaces, Rebuilding, At
    <2>3. PICK rows, new : rows = Target[k] /\ new = c[k]
      OBVIOUS
    <2>4. Rebuilds(k, rows)
      BY <2>2, <2>3 DEF Owed, Promised
    <2>5. /\ (k \in replay.purged <=> Purged(k)) /\ (Purged(k)' <=> Purged(k))
          /\ Telling(k, log)[replay.upto] = Telling(k, log)[Len(log)]
          /\ Versions(rows) = (IF Purged(k) THEN <<>> ELSE Telling(k, log)[s - 1])
          /\ Embeds(rows)
      <3>1. replay.pos = s - 1
        BY <1>0, <1>1, Fields DEF TypeInv
      <3>2. QED
        BY <1>0, <1>3, <2>4, <3>1 DEF Rebuilds, SameStory
    <2>6. Telling(k, log)[s] = IF e.key = k THEN Told(Telling(k, log)[s - 1], s, e)
                               ELSE Telling(k, log)[s - 1]
      BY <1>0, <1>1, ToldSoFar DEF Owed, Determinate
    <2>7. ASSUME /\ Versions(new) = (IF Purged(k) THEN <<>> ELSE Telling(k, log)[s])
                 /\ replay'.at = "apply" => Embeds(new)
                 /\ replay'.at = "normalize" =>
                      IF e.key = k
                        THEN /\ new # <<>> /\ Last(new).seq = s /\ ~Last(new).hidden
                             /\ Last(new).chunk = "none"
                        ELSE Embeds(new)
          PROVE  Rebuilds(k, Target[k])'
      <3>1. Target[k]' = new
        BY <1>3, <2>3
      <3>2. replay'.at \in {"apply", "normalize"}
        BY <1>4
      <3>3. QED
        BY <1>1, <2>5, <2>7, <3>1, <3>2 DEF Rebuilds, Processing, At
    <2>8. CASE e.key # k
      BY <1>5, <2>3, <2>5, <2>6, <2>7, <2>8
    <2>9. CASE e.key = k /\ Purged(k)
      <3>1. Skips(e)
        BY <2>5, <2>9 DEF Skips
      <3>2. new = rows /\ replay'.at = "apply"
        BY <1>4, <1>5, <2>3, <3>1
      <3>3. QED
        BY <2>5, <2>7, <2>9, <3>2
    <2>10. CASE e.key = k /\ ~Purged(k)
      <3>1. ~Skips(e)
        <4>1. e.type # "purged"
          BY <1>0, <1>1, <2>10 DEF Purged
        <4>2. QED
          BY <2>2, <2>5, <2>10, <4>1 DEF Skips
      <3>2. CASE e.type = "observed"
        <4>1. c = AddVersion(Target, k, s) /\ replay'.at = "normalize"
          BY <1>4, <2>10, <3>1, <3>2
        <4>2. /\ new # <<>>
              /\ Last(new) = [seq |-> s, hidden |-> FALSE, chunk |-> "none"]
              /\ Versions(new) = Append(Versions(rows), <<s, FALSE>>)
          <5>1. Target \in Corpora /\ s \in Seqs
            BY <1>1, <1>3
          <5>2. rows = Target[k] /\ new = AddVersion(Target, k, s)[k]
            BY <2>3, <4>1
          <5>3. /\ AddVersion(Target, k, s)[k] # <<>>
                /\ Last(AddVersion(Target, k, s)[k]) =
                     [seq |-> s, hidden |-> FALSE, chunk |-> "none"]
                /\ Versions(AddVersion(Target, k, s)[k]) =
                     Append(Versions(Target[k]), <<s, FALSE>>)
            BY <5>1, AddedRow
          <5>4. QED
            BY <5>2, <5>3
        <4>3. Versions(new) = Told(Versions(rows), s, e)
          BY <3>2, <4>2 DEF Told
        <4>4. Versions(new) = Telling(k, log)[s]
          BY <2>5, <2>6, <2>10, <4>3
        <4>5. Last(new).seq = s /\ ~Last(new).hidden /\ Last(new).chunk = "none"
          BY <4>2
        <4>6. QED
          BY <2>7, <2>10, <4>1, <4>2, <4>4, <4>5
      <3>3. CASE e.type = "deleted"
        <4>1. c = HideCurrent(Target, k) /\ replay'.at = "apply"
          BY <1>4, <2>10, <3>1, <3>3
        <4>2. Versions(rows) = <<>> <=> rows = <<>>
          BY <1>3, <2>3, CurrentRow
        <4>3. CASE rows = <<>>
          <5>1. new = rows
            BY <2>3, <4>1, <4>3 DEF HideCurrent
          <5>2. Told(Versions(rows), s, e) = Versions(rows)
            BY <3>3, <4>2, <4>3 DEF Told
          <5>3. QED
            BY <2>5, <2>6, <2>7, <2>10, <4>1, <5>1, <5>2
        <4>4. CASE rows # <<>>
          <5>1. PICK v : v = Versions(rows)
            OBVIOUS
          <5>2. /\ new # <<>> /\ Last(new).chunk = Last(rows).chunk
                /\ v # <<>> /\ Versions(new) = [v EXCEPT ![Len(v)] = <<@[1], TRUE>>]
            BY <1>3, <2>3, <4>1, <4>4, <5>1, HiddenOne DEF Current
          <5>3. Versions(new) = Told(v, s, e)
            BY <3>3, <5>2 DEF Told
          <5>4. Embeds(new)
            BY <2>5, <4>4, <5>2 DEF Embeds
          <5>5. QED
            BY <2>5, <2>6, <2>7, <2>10, <4>1, <5>1, <5>3, <5>4
        <4>5. QED
          BY <4>3, <4>4
      <3>4. QED
        BY <1>4, <3>1, <3>2, <3>3
    <2>11. QED
      BY <2>8, <2>9, <2>10
  <1>8. IsSaid(k)'
    BY <1>1, <1>3 DEF IsSaid, SameStory, Owed, Promised
  <1>9. replay'.at \notin Redoing /\ ~HasFulfilled'
    BY <1>4 DEF Redoing, HasFulfilled, At
  <1>10. QED
    BY <1>6, <1>7, <1>8, <1>9 DEF Promised

LEMMA ProcessPromises ==
  ASSUME NEW k \in Keys, Owed(k), NormalizeOne \/ EmbedOne
  PROVE  Promised(k)'
  <1>0. TypeInv /\ log \in Seq(Events) /\ ReplayTypeOK
    BY DEF Owed, TypeInv, ReplayTypeOK
  <1>1. PICK j, s, c, p :
          /\ j = log[replay.pos].key /\ s = replay.pos
          /\ \/ replay.at = "normalize" /\ c = Normalized(Target, j, s) /\ p = "embed"
             \/ replay.at = "embed" /\ c = Embedded(Target, j, s) /\ p = "apply"
          /\ SetTarget(c) /\ Under(p)
          /\ log' = log /\ due' = due
    BY DEF NormalizeOne, EmbedOne, At
  <1>2. replay.at \in Processing /\ replay.at \in InWorkspace /\ p \in Places
    BY <1>1 DEF Processing, InWorkspace, Places, Running
  <1>3. Target \in Corpora /\ j \in Keys /\ j \in replay.scope
    BY <1>0, <1>1, <1>2, TargetIs, Fields DEF TypeInv, Shape, EventShape
  <1>4. c \in Corpora /\ \A i \in Keys : i # j => c[i] = Target[i]
    BY <1>1, <1>3, NormalizedOne, EmbeddedOne
  <1>5. /\ InPlace => live' = c /\ shadow' = shadow
        /\ ~InPlace => shadow' = c /\ live' = live
    BY <1>0, <1>1, <1>4, TargetChanges
  <1>6. /\ replay'.at = p /\ replay'.mode = replay.mode
        /\ replay'.scope = replay.scope /\ replay'.after = replay.after
        /\ replay'.purged = replay.purged /\ replay'.upto = replay.upto /\ replay'.pos = replay.pos
    BY <1>0, <1>1, <1>2, Moves
  <1>7. (InPlace' <=> InPlace) /\ Target' = c /\ SameStory(k)
    BY <1>0, <1>1, <1>5, <1>6, SameLog DEF InPlace, Target
  <1>8. p \in {"embed", "apply"} /\ replay.at \in {"normalize", "embed"}
    BY <1>1
  <1>9. Keeps(k)' => AsFound(k)'
    <2>1. SUFFICES ASSUME Keeps(k)' PROVE AsFound(k)'
      OBVIOUS
    <2>2. Keeps(k) /\ (InPlace => k \notin replay.scope)
      BY <1>6, <1>7, <1>8, <2>1 DEF Keeps, InWorkspace, Rebuilding
    <2>3. live'[k] = live[k]
      BY <1>3, <1>4, <1>5, <2>2 DEF Target
    <2>4. Same(k)
      BY <1>1, <1>7, <2>3 DEF Same
    <2>5. QED
      BY <2>2, <2>4, SameState DEF Owed, Promised
  <1>10. Replaces(k)' => Rebuilds(k, Target[k])'
    <2>1. SUFFICES ASSUME Replaces(k)' PROVE Rebuilds(k, Target[k])'
      OBVIOUS
    <2>2. Replaces(k) /\ k \in replay.scope
      BY <1>6, <1>8, <2>1 DEF Replaces, Rebuilding, At
    <2>3. PICK rows, new : rows = Target[k] /\ new = c[k]
      OBVIOUS
    <2>4. Rebuilds(k, rows)
      BY <2>2, <2>3 DEF Owed, Promised
    <2>5. /\ (k \in replay.purged <=> Purged(k)) /\ (Purged(k)' <=> Purged(k))
          /\ Telling(k, log)[replay.upto] = Telling(k, log)[Len(log)]
          /\ Versions(rows) = (IF Purged(k) THEN <<>> ELSE Telling(k, log)[s])
          /\ replay.pos <= replay.upto
          /\ IF j = k
               THEN /\ rows # <<>> /\ Last(rows).seq = s /\ ~Last(rows).hidden
                    /\ Last(rows).chunk = IF replay.at = "normalize" THEN "none" ELSE "bare"
               ELSE Embeds(rows)
      BY <1>1, <1>2, <1>7, <2>4 DEF Rebuilds, SameStory, At
    <2>6. ASSUME /\ Versions(new) = Versions(rows)
                 /\ p = "apply" => Embeds(new)
                 /\ p = "embed" =>
                      IF j = k
                        THEN /\ new # <<>> /\ Last(new).seq = s /\ ~Last(new).hidden
                             /\ Last(new).chunk = "bare"
                        ELSE Embeds(new)
          PROVE  Rebuilds(k, Target[k])'
      <3>1. Target[k]' = new
        BY <1>7, <2>3
      <3>2. QED
        BY <1>1, <1>6, <1>8, <2>5, <2>6, <3>1 DEF Rebuilds, Processing, At
    <2>7. CASE j # k
      BY <1>4, <2>3, <2>5, <2>6, <2>7
    <2>8. CASE j = k
      <3>1. rows # <<>> /\ Last(rows) = Current(Target, k)
        BY <2>3, <2>5, <2>8 DEF Current
      <3>2. Versions(new) = Versions(rows) /\ new # <<>>
        BY <1>1, <1>3, <2>3, <2>8, <3>1, NormalizedOne, EmbeddedOne
      <3>3. /\ Last(new).seq = s /\ ~Last(new).hidden
        <4>1. Current(c, k).seq = Current(Target, k).seq /\ Current(c, k).hidden = Current(Target, k).hidden
          BY <1>3, <1>4, <2>3, <3>1, <3>2, SameCurrent
        <4>2. QED
          BY <2>3, <2>5, <2>8, <3>1, <4>1 DEF Current
      <3>4. CASE replay.at = "normalize"
        <4>1. c = Normalized(Target, k, s) /\ p = "embed"
          BY <1>1, <2>8, <3>4
        <4>2. Ascending(Target[k])
          <5>1. PICK n : n = Len(log) /\ n \in Nat
            BY <1>0
          <5>2. s \in 0..n
            BY <1>0, <1>1, <1>2, <5>1, Fields DEF TypeInv, Shape, EventShape, PlaceShape, Processing
          <5>3. Orderly(Telling(k, log)[s], s) /\ s \in Nat /\ Orderly(<<>>, s)
            BY <5>1, <5>2, NothingInOrder DEF Owed, Determinate
          <5>4. Orderly(Versions(Target[k]), s)
            BY <2>3, <2>5, <5>3
          <5>5. QED
            BY <1>3, <5>3, <5>4, OrderlyRows
        <4>3. Current(c, k).chunk = "bare"
          <5>1. /\ Target[k] # <<>> /\ s = Current(Target, k).seq /\ ~Current(Target, k).hidden
                /\ Current(Target, k).chunk = "none"
            BY <2>3, <2>5, <2>8, <3>1, <3>4
          <5>2. QED
            BY <1>3, <4>1, <4>2, <5>1, NormalizedOne
        <4>4. Last(new).chunk = "bare"
          BY <2>3, <4>3 DEF Current
        <4>5. QED
          BY <2>6, <2>8, <3>2, <3>3, <4>1, <4>4
      <3>5. CASE replay.at = "embed"
        <4>1. c = Embedded(Target, k, s) /\ p = "apply"
          BY <1>1, <2>8, <3>5
        <4>2. Current(c, k).chunk = "full"
          <5>1. /\ Target[k] # <<>> /\ s = Current(Target, k).seq /\ ~Current(Target, k).hidden
                /\ Current(Target, k).chunk = "bare"
            BY <2>3, <2>5, <2>8, <3>1, <3>5
          <5>2. QED
            BY <1>3, <4>1, <5>1, EmbeddedOne
        <4>3. Embeds(new)
          BY <2>3, <4>2 DEF Current, Embeds
        <4>4. QED
          BY <2>6, <3>2, <4>1, <4>3
      <3>6. QED
        BY <1>8, <3>4, <3>5
    <2>9. QED
      BY <2>7, <2>8
  <1>11. IsSaid(k)'
    BY <1>1, <1>7 DEF IsSaid, SameStory, Owed, Promised
  <1>12. replay'.at \notin Redoing /\ ~HasFulfilled'
    BY <1>6, <1>8 DEF Redoing, HasFulfilled, At
  <1>13. QED
    BY <1>9, <1>10, <1>11, <1>12 DEF Promised

\* What has been read to the end is what the log says.
LEMMA ReadToTheEnd ==
  ASSUME NEW k \in Keys, Owed(k), EndOfLog, Replaces(k)
  PROVE  Versions(Target[k]) = Said(k) /\ Embeds(Target[k])
  <1>1. replay.at = "apply" /\ replay.pos >= replay.upto
    BY DEF EndOfLog, At
  <1>2. /\ replay.pos <= replay.upto
        /\ Telling(k, log)[replay.upto] = Telling(k, log)[Len(log)]
        /\ Versions(Target[k]) = (IF Purged(k) THEN <<>> ELSE Telling(k, log)[replay.pos])
        /\ Embeds(Target[k])
    BY <1>1 DEF Owed, Promised, Rebuilds
  <1>3. replay.pos = replay.upto
    BY <1>1, <1>2, Fields, ReplayAssumption DEF Owed, TypeInv
  <1>4. QED
    BY <1>2, <1>3 DEF Said

\* Rows that are what the log says, with their chunks, are as good as any.
LEMMA SaidIsFulfilled ==
  ASSUME NEW k \in Keys, Owed(k), NEW c \in Corpora, Versions(c[k]) = Said(k), Embeds(c[k]),
         SameStory(k), live' = c, due' = due
  PROVE  Fulfilled(k)'
  <1>1. AsLogged(k)'
    BY DEF AsLogged, SameStory
  <1>2. c[k] = <<>> => Said(k) = <<>>
    BY CurrentRow
  <1>3. due.chunk[k] \in {"none", "bare", "full"}
    BY DueIs DEF Owed
  <1>4. c[k] = <<>> => due.chunk[k] = "none"
    BY <1>2 DEF Owed, Promised, IsSaid
  <1>5. PICK rows, chunk : rows = c[k] /\ chunk = due.chunk[k]
    OBVIOUS
  <1>6. Rank(IF rows = <<>> THEN "none" ELSE Last(rows).chunk) >= Rank(chunk)
    BY <1>3, <1>4, <1>5, RebuiltIsFulfilled
  <1>7. ChunkOf(k)' = IF rows = <<>> THEN "none" ELSE Last(rows).chunk
    BY <1>5 DEF ChunkOf, Current
  <1>8. QED
    BY <1>1, <1>5, <1>6, <1>7 DEF Fulfilled

LEMMA EndOfLogPromises ==
  ASSUME NEW k \in Keys, Owed(k), EndOfLog
  PROVE  Promised(k)'
  <1>1. /\ Same(k) /\ live' = live /\ shadow' = shadow /\ due' = due /\ SameStory(k)
        /\ TypeInv /\ live \in Corpora
    BY SameLog DEF Owed, EndOfLog, Same, TypeInv, ReplayTypeOK
  <1>2. PICK p : p = CASE ~InPlace -> "swap"
                       [] InPlace /\ Complete -> "project"
                       [] OTHER -> "restore"
    OBVIOUS
  <1>3. /\ Under(p) /\ p \in Places /\ replay.at = "apply"
        /\ \/ ~InPlace /\ p = "swap"
           \/ InPlace /\ p \in {"project", "restore"}
    BY <1>2 DEF EndOfLog, At, Places, Running
  <1>4. /\ replay'.at = p /\ replay'.mode = replay.mode
        /\ replay'.scope = replay.scope /\ replay'.after = replay.after
    BY <1>1, <1>3, Moves DEF TypeInv
  <1>5. IsSaid(k)'
    BY <1>1, SameState DEF Owed, Promised
  <1>6. CASE ~InPlace /\ p = "swap"
    <2>1. Keeps(k)' => AsFound(k)'
      <3>1. Keeps(k)
        BY <1>3, <1>6 DEF Keeps, InWorkspace
      <3>2. QED
        BY <1>1, <3>1, SameState DEF Owed, Promised
    <2>2. Replaces(k)' => Rebuilds(k, Target[k])'
      <3>1. Replaces(k)' => Replaces(k)
        BY <1>3, <1>4 DEF Replaces, Rebuilding
      <3>2. Target[k]' = Target[k]
        BY <1>1, <1>4, <1>6 DEF Target, InPlace
      <3>3. Said(k)' = Said(k)
        BY <1>1 DEF SameStory
      <3>4. Replaces(k) => Versions(Target[k]) = Said(k) /\ Embeds(Target[k])
        BY ReadToTheEnd
      <3>5. QED
        BY <1>4, <1>6, <3>1, <3>2, <3>3, <3>4 DEF Rebuilds, Processing
    <2>3. replay'.at \notin Redoing /\ ~HasFulfilled'
      BY <1>4, <1>6 DEF Redoing, HasFulfilled, At
    <2>4. QED
      BY <1>5, <2>1, <2>2, <2>3 DEF Promised
  <1>7. CASE InPlace /\ p \in {"project", "restore"}
    <2>1. InPlace'
      BY <1>4, <1>7 DEF InPlace
    <2>2. HasFulfilled' => Fulfilled(k)'
      <3>1. SUFFICES ASSUME HasFulfilled' PROVE Fulfilled(k)'
        OBVIOUS
      <3>2. replay.after = 0
        BY <1>4, <2>1, <3>1 DEF HasFulfilled
      <3>3. CASE k \in replay.scope
        <4>1. Replaces(k)
          BY <1>3, <3>2, <3>3 DEF Replaces, Rebuilding
        <4>2. Versions(live[k]) = Said(k) /\ Embeds(live[k])
          BY <1>7, <4>1, ReadToTheEnd DEF Target
        <4>3. QED
          BY <1>1, <4>2, SaidIsFulfilled
      <3>4. CASE k \notin replay.scope
        <4>1. Keeps(k)
          BY <1>3, <1>7, <3>4 DEF Keeps, Rebuilding
        <4>2. Fulfilled(k)
          BY <1>1, <4>1, FoundIsFulfilled DEF Owed, Promised
        <4>3. QED
          BY <1>1, <4>2, SameState
      <3>5. QED
        BY <3>3, <3>4
    <2>3. ~Keeps(k)' /\ ~Replaces(k)' /\ replay'.at \notin Redoing
      BY <1>4, <1>7 DEF Keeps, Replaces, Redoing, InWorkspace, Rebuilding, At
    <2>4. QED
      BY <1>5, <2>2, <2>3 DEF Promised
  <1>8. QED
    BY <1>3, <1>6, <1>7

LEMMA SwapPromises ==
  ASSUME NEW k \in Keys, Owed(k), Swap
  PROVE  Promised(k)'
  <1>1. TypeInv /\ SameStory(k) /\ replay.at = "swap" /\ due' = due /\ live' = shadow
    BY SameLog DEF Owed, Swap, At
  <1>2. ~InPlace /\ Complete /\ shadow \in Corpora
    BY <1>1 DEF TypeInv, Shape, PlaceShape, WorkspaceShape, Running, InWorkspace
  <1>3. replay'.at = "cleargraph" /\ replay'.mode = replay.mode
    BY <1>1, Moves DEF Swap, TypeInv, Places, Running
  <1>4. Replaces(k)
    BY <1>1, <1>2 DEF Replaces, Complete
  <1>5. Versions(shadow[k]) = Said(k) /\ Embeds(shadow[k])
    BY <1>1, <1>2, <1>4 DEF Owed, Promised, Rebuilds, Target
  <1>6. Fulfilled(k)'
    BY <1>1, <1>2, <1>5, SaidIsFulfilled
  <1>7. IsSaid(k)'
    BY <1>1 DEF IsSaid, SameStory, Owed, Promised
  <1>8. ~Keeps(k)' /\ ~Replaces(k)' /\ replay'.at \notin Redoing
    BY <1>2, <1>3 DEF Keeps, Replaces, Redoing, InWorkspace, Rebuilding, At, InPlace
  <1>9. QED
    BY <1>6, <1>7, <1>8 DEF Promised

LEMMA ProjectPromises ==
  ASSUME NEW k \in Keys, Owed(k), Project
  PROVE  Promised(k)'
  <1>1. Same(k) /\ replay.at = "project" /\ TypeInv
    BY SameLog DEF Owed, Project, Same, At
  <1>2. replay'.at = "restore" /\ replay'.mode = replay.mode /\ replay'.after = replay.after
    BY <1>1, Moves DEF Project, TypeInv, Places, Running
  <1>3. HasFulfilled' => HasFulfilled
    BY <1>1, <1>2 DEF HasFulfilled, InPlace
  <1>4. ~Keeps(k)' /\ ~Replaces(k)' /\ replay'.at \notin Redoing
    BY <1>2 DEF Keeps, Replaces, Redoing, InWorkspace, Rebuilding, At
  <1>5. QED
    BY <1>1, <1>3, <1>4, SameState DEF Promised, Owed

LEMMA TargetsPromises ==
  ASSUME NEW k \in Keys, Owed(k), FindTargets
  PROVE  Promised(k)'
  <1>1. Same(k) /\ TypeInv /\ live' = live /\ replay.at \in {"target", "retarget"}
    BY SameLog DEF Owed, FindTargets, Same
  <1>2. PICK p, todo : /\ p = (IF At("target") THEN "rechunk" ELSE "reembed")
                       /\ todo = {<<j, Current(live, j).seq>> : j \in {x \in Keys : Reprocessed(x)}}
    OBVIOUS
  <1>3. /\ replay'.at = p /\ replay'.mode = replay.mode /\ replay'.scope = replay.scope
        /\ replay'.todo = todo
    <2>1. replay' = [replay EXCEPT !.at = p, !.todo = todo]
      BY <1>2 DEF FindTargets
    <2>2. replay \in Replays
      BY <1>1 DEF TypeInv, ReplayTypeOK
    <2>3. QED
      BY <2>1, <2>2 DEF Replays
  <1>4. Redoes(k) /\ IsSaid(k)
    BY <1>1 DEF Owed, Promised, Redoing
  <1>5. /\ Reprocessed(k)' <=> Reprocessed(k)
        /\ \A s : <<k, s>> \in todo <=> Reprocessed(k) /\ s = Current(live, k).seq
    BY <1>1, <1>2, <1>3, SameState DEF Reprocessed
  <1>6. p \in {"rechunk", "reembed"} /\ (p = "reembed" => replay.at = "retarget")
    BY <1>1, <1>2 DEF At
  <1>7. Redoes(k)'
    <2>1. AsLogged(k)' /\ (~Reprocessed(k)' => Fulfilled(k)')
      BY <1>1, <1>4, <1>5, SameState DEF Redoes
    <2>2. /\ ChunkOf(k)' = ChunkOf(k) /\ due'.chunk[k] = due.chunk[k]
          /\ Current(live, k)' = Current(live, k)
      BY <1>1, SameState DEF Same
    <2>3. QED
      BY <1>3, <1>4, <1>5, <1>6, <2>1, <2>2 DEF Redoes
  <1>8. ~Keeps(k)' /\ ~Replaces(k)' /\ ~HasFulfilled'
    BY <1>3, <1>6 DEF Keeps, Replaces, HasFulfilled, InWorkspace, Rebuilding, At
  <1>9. QED
    BY <1>1, <1>4, <1>7, <1>8, SameState DEF Promised

LEMMA ReprocessPromises ==
  ASSUME NEW k \in Keys, Owed(k), NEW j \in Keys, NEW s \in Seqs, Reprocess(j, s)
  PROVE  Promised(k)'
  <1>0. TypeInv /\ SameStory(k) /\ due' = due /\ live \in Corpora /\ ReplayTypeOK
    BY SameLog DEF Owed, Reprocess, TypeInv, ReplayTypeOK
  <1>1. PICK c : /\ \/ replay.at = "rechunk" /\ c = Normalized(live, j, s)
                    \/ replay.at = "reembed" /\ c = Embedded(live, j, s)
                 /\ SetLive(c)
    BY DEF Reprocess, At
  <1>2. c \in Corpora /\ \A i \in Keys : i # j => c[i] = live[i]
    BY <1>0, <1>1, NormalizedOne, EmbeddedOne
  <1>3. live' = c
    BY <1>1 DEF SetLive
  <1>4. PICK todo : todo = replay.todo \ {<<j, s>>}
    OBVIOUS
  <1>5. /\ replay'.at = replay.at /\ replay'.mode = replay.mode /\ replay'.scope = replay.scope
        /\ replay'.todo = todo
    BY <1>0, <1>4 DEF Reprocess, ReplayTypeOK, Replays
  <1>6. replay.at \in {"rechunk", "reembed"}
    BY <1>1
  <1>7. Redoes(k) /\ IsSaid(k)
    BY <1>6 DEF Owed, Promised, Redoing
  <1>8. IsSaid(k)'
    BY <1>0, <1>7 DEF IsSaid, SameStory
  <1>9. Redoes(k)'
    <2>1. CASE j # k
      <3>1. Same(k)
        BY <1>0, <1>2, <1>3, <2>1 DEF Same
      <3>2. \A x : <<k, x>> \in todo <=> <<k, x>> \in replay.todo
        BY <1>4, <2>1
      <3>3. Reprocessed(k)' <=> Reprocessed(k)
        BY <1>5, <3>1, SameState DEF Reprocessed
      <3>4. /\ AsLogged(k)' <=> AsLogged(k)
            /\ Fulfilled(k)' <=> Fulfilled(k)
            /\ ChunkOf(k)' = ChunkOf(k) /\ due'.chunk[k] = due.chunk[k]
            /\ Current(live, k)' = Current(live, k)
        BY <3>1, SameState DEF Same
      <3>5. QED
        BY <1>5, <1>7, <3>2, <3>3, <3>4 DEF Redoes
    <2>2. CASE j = k
      <3>1. <<k, s>> \in replay.todo
        BY <2>2 DEF Reprocess
      <3>2. Reprocessed(k) /\ s = Current(live, k).seq
        BY <1>6, <1>7, <3>1 DEF Redoes
      <3>3. live[k] # <<>> /\ ~Current(live, k).hidden
        BY <3>2 DEF Reprocessed, Shown
      <3>4. Versions(c[k]) = Versions(live[k]) /\ c[k] # <<>>
        BY <1>0, <1>1, <2>2, <3>3, NormalizedOne, EmbeddedOne
      <3>5. /\ Current(c, k).seq = Current(live, k).seq
            /\ Current(c, k).hidden = Current(live, k).hidden
        BY <1>0, <1>2, <3>3, <3>4, SameCurrent
      <3>6. Current(live, k)' = Current(c, k) /\ ChunkOf(k)' = Current(c, k).chunk
        BY <1>3, <3>4 DEF ChunkOf, Current
      <3>7. AsLogged(k)' /\ AsLogged(k)
        BY <1>0, <1>3, <1>7, <3>4 DEF Redoes, AsLogged, SameStory
      <3>8. Reprocessed(k)'
        BY <1>3, <1>5, <3>2, <3>3, <3>4, <3>5, <3>6 DEF Reprocessed, Shown
      <3>9. ChunkOf(k) = Current(live, k).chunk /\ Ascending(live[k])
        BY <1>0, <3>3, <3>7, AsLoggedInOrder DEF ChunkOf, Owed
      <3>10. \A x \in Seqs : <<k, x>> \in todo => x = Current(c, k).seq
        BY <1>4, <1>6, <1>7, <3>5 DEF Redoes
      <3>11. CASE replay.at = "rechunk"
        <4>1. Current(c, k).chunk = IF ChunkOf(k) = "none" THEN "bare" ELSE ChunkOf(k)
          BY <1>0, <1>1, <2>2, <3>2, <3>3, <3>9, <3>11, NormalizedOne
        <4>2. QED
          BY <1>5, <3>6, <3>7, <3>8, <3>10, <3>11, <4>1 DEF Redoes
      <3>12. CASE replay.at = "reembed"
        <4>1. Current(c, k).chunk = IF ChunkOf(k) = "bare" THEN "full" ELSE ChunkOf(k)
          BY <1>0, <1>1, <2>2, <3>2, <3>3, <3>9, <3>12, EmbeddedOne
        <4>2. due.chunk[k] # "none" => ChunkOf(k) # "none"
          BY <1>7, <3>2, <3>12 DEF Redoes
        <4>3. QED
          BY <1>0, <1>5, <3>6, <3>7, <3>8, <3>10, <3>12, <4>1, <4>2 DEF Redoes
      <3>13. QED
        BY <1>6, <3>11, <3>12
    <2>3. QED
      BY <2>1, <2>2
  <1>10. ~Keeps(k)' /\ ~Replaces(k)' /\ ~HasFulfilled'
    BY <1>5, <1>6 DEF Keeps, Replaces, HasFulfilled, InWorkspace, Rebuilding, At
  <1>11. QED
    BY <1>8, <1>9, <1>10 DEF Promised

LEMMA EndOfTargetsPromises ==
  ASSUME NEW k \in Keys, Owed(k), EndOfTargets
  PROVE  Promised(k)'
  <1>1. /\ Same(k) /\ TypeInv /\ replay.at \in {"rechunk", "reembed"} /\ replay.todo = {}
        /\ live' = live
    BY SameLog DEF Owed, EndOfTargets, Same
  <1>2. PICK p : p = IF At("rechunk") THEN "retarget" ELSE "restore"
    OBVIOUS
  <1>3. Under(p) /\ p \in Places
    BY <1>2 DEF EndOfTargets, Places, Running
  <1>4. replay'.at = p /\ replay'.mode = replay.mode /\ replay'.scope = replay.scope
    BY <1>1, <1>3, Moves DEF TypeInv
  <1>5. Redoes(k)
    BY <1>1 DEF Owed, Promised, Redoing
  <1>6. Reprocessed(k)' <=> Reprocessed(k)
    BY <1>1, <1>4, SameState DEF Reprocessed
  <1>7. CASE replay.at = "rechunk"
    <2>1. p = "retarget"
      BY <1>2, <1>7 DEF At
    <2>2. Reprocessed(k) => ChunkOf(k) # "none"
      BY <1>1, <1>5, <1>7 DEF Redoes
    <2>3. Redoes(k)'
      BY <1>1, <1>4, <1>5, <1>6, <2>1, <2>2, SameState DEF Redoes
    <2>4. ~Keeps(k)' /\ ~Replaces(k)' /\ ~HasFulfilled'
      BY <1>4, <2>1 DEF Keeps, Replaces, HasFulfilled, InWorkspace, Rebuilding, At
    <2>5. QED
      BY <1>1, <2>3, <2>4, SameState DEF Promised, Owed
  <1>8. CASE replay.at = "reembed"
    <2>1. p = "restore"
      BY <1>2, <1>8 DEF At
    <2>2. Fulfilled(k)
      <3>1. CASE Reprocessed(k)
        <4>1. /\ due.chunk[k] # "none" => ChunkOf(k) # "none"
              /\ ChunkOf(k) # "bare"
              /\ AsLogged(k)
          BY <1>1, <1>5, <1>8, <3>1 DEF Redoes
        <4>2. ChunkOf(k) \in {"none", "bare", "full"} /\ due.chunk[k] \in {"none", "bare", "full"}
          BY <1>1, ChunkIs, DueIs DEF Owed, TypeInv
        <4>3. QED
          BY <4>1, <4>2 DEF Fulfilled, Rank
      <3>2. QED
        BY <1>5, <3>1 DEF Redoes
    <2>3. ~Keeps(k)' /\ ~Replaces(k)' /\ replay'.at \notin Redoing
      BY <1>4, <2>1 DEF Keeps, Replaces, Redoing, InWorkspace, Rebuilding, At
    <2>4. QED
      BY <1>1, <2>2, <2>3, SameState DEF Promised, Owed
  <1>9. QED
    BY <1>1, <1>7, <1>8

LEMMA FailPromises ==
  ASSUME NEW k \in Keys, Owed(k), Fail, Untouched(k)'
  PROVE  Promised(k)'
  <1>1. TypeInv /\ live' = live /\ SameStory(k) /\ replay.at \in Running \ {"restore", "unwind"}
    BY SameLog DEF Owed, Fail
  <1>2. ~InPlace /\ due' = due
    BY NothingIsDue DEF Fail, Untouched
  <1>3. replay'.at = "unwind"
    BY <1>1, FailIs DEF TypeInv
  <1>4. replay.at \notin Redoing
    BY <1>1, <1>2 DEF TypeInv, Shape, WorkspaceShape
  <1>5. Keeps(k) \/ HasFulfilled
    BY <1>1, <1>2, <1>4 DEF Running, Redoing, Keeps, HasFulfilled, InWorkspace, At
  <1>6. Fulfilled(k)
    BY <1>1, <1>5, FoundIsFulfilled DEF Owed, Promised
  <1>7. Same(k)
    BY <1>1, <1>2 DEF Same
  <1>8. ~Keeps(k)' /\ ~Replaces(k)' /\ replay'.at \notin Redoing
    BY <1>3 DEF Keeps, Replaces, Redoing, InWorkspace, Rebuilding, At
  <1>9. QED
    BY <1>6, <1>7, <1>8, SameState DEF Promised, Owed

LEMMA RestorePromises ==
  ASSUME NEW k \in Keys, Owed(k), Restore
  PROVE  Promised(k)'
  <1>1. Same(k) /\ TypeInv /\ replay.at \in {"restore", "unwind"}
    BY SameLog DEF Owed, Restore, Same
  <1>2. PICK p \in {"lost", "done", "undone"} : Over(p)
    BY DEF Restore
  <1>3. replay'.at = p /\ replay'.mode = replay.mode /\ replay'.after = replay.after
    BY <1>1, <1>2, Ends DEF TypeInv, Ended
  <1>4. HasFulfilled' => HasFulfilled
    BY <1>1, <1>3 DEF HasFulfilled, InPlace, At
  <1>5. ~Keeps(k)' /\ ~Replaces(k)' /\ replay'.at \notin Redoing
    BY <1>3 DEF Keeps, Replaces, Redoing, InWorkspace, Rebuilding, At
  <1>6. QED
    BY <1>1, <1>4, <1>5, SameState DEF Promised, Owed

PromiseInv == \A k \in Keys : Determinate(k) /\ (Untouched(k) => Promised(k))

LEMMA PromiseStep ==
  ASSUME TypeInv, PromiseInv, [Next]_vars
  PROVE  PromiseInv'
  <1> SUFFICES ASSUME NEW k \in Keys, Untouched(k)'
               PROVE  Promised(k)'
    BY DeterminateStep DEF PromiseInv
  <1>1. Determinate(k) /\ (Untouched(k) => Promised(k))
    BY DEF PromiseInv
  <1>2. CASE UNCHANGED vars
    <2>1. Same(k) /\ replay' = replay /\ live' = live /\ shadow' = shadow /\ log' = log
      BY <1>2, SameLog DEF vars, Same
    <2>2. Promised(k)
      BY <1>1, <1>2 DEF vars, Untouched
    <2>3. /\ Keeps(k)' <=> Keeps(k)
          /\ Replaces(k)' <=> Replaces(k)
          /\ HasFulfilled' <=> HasFulfilled
          /\ Target' = Target
      BY <2>1 DEF Keeps, Replaces, HasFulfilled, InPlace, At, Target
    <2>4. Rebuilds(k, Target[k])' <=> Rebuilds(k, Target[k])
      BY <2>1, <2>3 DEF Rebuilds, At, Same, SameStory
    <2>5. Redoes(k)' <=> Redoes(k)
      BY <2>1, SameState DEF Redoes, Reprocessed, Same
    <2>6. QED
      BY <2>1, <2>2, <2>3, <2>4, <2>5, SameState DEF Promised
  <1>3. CASE \E mode \in Modes, stage \in Stages, scope \in Sources \cup {Keys},
               after \in Afters : Begin(mode, stage, scope, after)
    BY <1>3, BeginPromises
  <1>4. CASE Create \/ Clear \/ ClearGraph \/ ScanPurged \/ OpenLog \/ Apply \/ NormalizeOne \/ EmbedOne
             \/ EndOfLog \/ FindTargets \/ EndOfTargets
             \/ (\E j \in Keys, s \in Seqs : Reprocess(j, s))
             \/ Swap \/ Project \/ Restore
    <2>1. due' = due
      BY <1>4 DEF Create, Clear, ClearGraph, ScanPurged, OpenLog, Apply, NormalizeOne, EmbedOne, EndOfLog,
        FindTargets, EndOfTargets, Reprocess, Swap, Project, Restore
    <2>2. Owed(k)
      BY <1>1, <2>1 DEF Owed, Untouched
    <2>3. QED
      BY <1>4, <2>2, CreatePromises, ClearPromises, ClearGraphPromises, ScanPromises, OpenPromises,
        ApplyPromises, ProcessPromises, EndOfLogPromises, TargetsPromises, EndOfTargetsPromises,
        ReprocessPromises, SwapPromises, ProjectPromises, RestorePromises
  <1>5. CASE Fail
    <2>1. Owed(k)
      BY <1>1, <1>5, NothingIsDue DEF Owed, Untouched, Fail
    <2>2. QED
      BY <1>5, <2>1, FailPromises
  <1>6. CASE Kill
    BY <1>6, NothingIsDue DEF Kill, Untouched
  <1>7. ASSUME NEW j \in Keys,
               \/ Observe(j) \/ Hide(j) \/ Purge(j) \/ Work(j)
               \/ \E o \in Owners, chunk \in BOOLEAN : Link(o, j, chunk)
        PROVE  Promised(k)'
    <2>1. Meddles(j)
      BY <1>7, OthersMeddle DEF TypeInv
    <2>2. QED
      BY <1>1, <2>1, MeddlingKeeps
  <1>8. CASE ReplayStep
    BY <1>3, <1>4, <1>5, <1>6, <1>8 DEF ReplayStep
  <1>9. QED
    BY <1>2, <1>7, <1>8 DEF Next

LEMMA PromiseInit == Init => PromiseInv
  BY DeterminateInit, NothingIsDue DEF Init, PromiseInv, Untouched

LEMMA Promises == Spec => []PromiseInv
  BY PromiseInit, PromiseStep, Invariance, PTL DEF Spec

\* A replay that has finished has rebuilt what it cleared, in any mode, stage and scope,
\* whatever happens to other items meanwhile (replay.py _reprocessed).
THEOREM ClearedIsRebuilt == Spec => []WhatWasClearedIsRebuilt
  <1>1. PromiseInv => WhatWasClearedIsRebuilt
    BY DEF PromiseInv, Promised, Untouched, HasFulfilled, Fulfilled, At, WhatWasClearedIsRebuilt
  <1>2. QED
    BY <1>1, Promises, PTL

\* What is about to be swapped in says of every item what the log says, unless somebody
\* else has written to it since the replay began (replay.py _rebuild, shadow.py swap_in).
THEOREM TheSwapIsTheLog == Spec => []TheWorkspaceIsTheLog
  <1>1. TypeInv /\ PromiseInv => TheWorkspaceIsTheLog
    <2> SUFFICES ASSUME TypeInv, PromiseInv, At("swap"), NEW k \in Keys, due.chunk[k] # None
                 PROVE  Versions(shadow[k]) = Said(k)
      BY DEF TheWorkspaceIsTheLog
    <2>1. replay.at = "swap" /\ Promised(k)
      BY DEF At, PromiseInv, Untouched
    <2>2. ~InPlace /\ Complete
      BY <2>1 DEF TypeInv, Shape, PlaceShape, WorkspaceShape, Running
    <2>3. Replaces(k)
      BY <2>1, <2>2 DEF Replaces, Complete
    <2>4. QED
      BY <2>1, <2>2, <2>3 DEF Promised, Rebuilds, Target
  <1>2. QED
    BY <1>1, Invariance, Promises, PTL
-----------------------------------------------------------------------------
(* Evidence *)

SameLink(l, x) == x.owner = l.owner /\ x.key = l.key /\ x.chunk = l.chunk

\* A link that is due can be made as soon as its item is fulfilled: the log says that the
\* item is shown, it had a chunk if the link is to one, and the process remembers the link.
Recalled(l) ==
  /\ Untouched(l.key)
  /\ Said(l.key) # <<>> /\ ~Last(Said(l.key))[2]
  /\ l.chunk => due.chunk[l.key] # "none"
  /\ replay.at \in Running => \E x \in replay.kept : SameLink(l, x)

EvidenceInv == (\A l \in due.links : Recalled(l)) /\ EvidenceComesBack

LEMMA BeginRecalls ==
  ASSUME TypeInv, NEW mode \in Modes, NEW stage \in Stages, NEW scope \in Sources \cup {Keys},
         NEW after \in Afters, Begin(mode, stage, scope, after)
  PROVE  EvidenceInv'
  <1>0. live \in Corpora /\ evidence \in SUBSET Links /\ ReplayTypeOK
    BY DEF TypeInv, ReplayTypeOK
  <1>1. /\ log' = log /\ replay'.at \in {"create", "clear"} /\ replay'.kept = evidence
        /\ due'.chunk = [k \in Keys |-> IF AsLogged(k) THEN ChunkOf(k) ELSE None]
        /\ due'.links = {Relinked(live, l) : l \in {x \in evidence : AsLogged(x.key) /\ Citable(live, x)}}
    BY DEF Begin
  <1>2. ASSUME NEW l \in due'.links
        PROVE  Recalled(l)'
    <2>0. PICK x \in evidence : AsLogged(x.key) /\ Citable(live, x) /\ l = Relinked(live, x)
      BY <1>1
    <2>1. PICK k : k = x.key
      OBVIOUS
    <2>2. x \in Links /\ k \in Keys /\ l.key = k /\ l.owner = x.owner /\ l.chunk = x.chunk
      BY <1>0, <2>0, <2>1, LinkIs
    <2>3. SameStory(k)
      BY <1>1, <2>2, SameLog
    <2>4. due'.chunk[k] = ChunkOf(k) /\ ChunkOf(k) \in {"none", "bare", "full"}
      BY <1>0, <1>1, <2>0, <2>1, <2>2, ChunkIs
    <2>5. live[k] # <<>> /\ ~Current(live, k).hidden
      BY <2>0, <2>1 DEF Citable, Shown
    <2>6. Said(k) = Versions(live[k])
      BY <2>0, <2>1 DEF AsLogged
    <2>7. Said(k) # <<>> /\ ~Last(Said(k))[2]
      <3>1. Versions(live[k]) # <<>>
        BY <1>0, <2>2, <2>5, CurrentRow
      <3>2. Last(Versions(live[k])) = <<Current(live, k).seq, Current(live, k).hidden>>
        BY <1>0, <2>2, <2>5, SameCurrent
      <3>3. QED
        BY <2>5, <2>6, <3>1, <3>2
    <2>8. l.chunk => ChunkOf(k) # "none"
      BY <2>0, <2>1, <2>2, <2>5 DEF Citable, ChunkOf
    <2>9. SameLink(l, x)
      BY <2>1, <2>2 DEF SameLink
    <2>10. Said(k)' = Said(k)
      BY <2>3 DEF SameStory
    <2>11. QED
      BY <1>1, <2>2, <2>4, <2>7, <2>8, <2>9, <2>10, ReplayAssumption DEF Recalled, Untouched
  <1>3. EvidenceComesBack'
    BY <1>1 DEF EvidenceComesBack, At
  <1>4. QED
    BY <1>1, <1>2, <1>3 DEF EvidenceInv

\* While the replay goes on, and nobody has written to the log.
LEMMA GoingOnRecalls ==
  ASSUME TypeInv, EvidenceInv, log' = log, due' \in {due, Nothing}, replay'.kept = replay.kept,
         replay.at \in Running, replay'.at \in Running
  PROVE  EvidenceInv'
  <1>1. ASSUME NEW l \in due'.links PROVE Recalled(l)'
    <2>1. due' = due /\ Recalled(l)
      BY <1>1, NothingIsDue DEF EvidenceInv
    <2>2. l.key \in Keys
      BY <1>1, <2>1 DEF TypeInv, ReplayTypeOK, Links
    <2>3. SameStory(l.key)
      BY <2>2, SameLog
    <2>4. QED
      BY <2>1, <2>3 DEF Recalled, Untouched, SameStory
  <1>2. EvidenceComesBack'
    BY DEF EvidenceComesBack, At, Running
  <1>3. QED
    BY <1>1, <1>2 DEF EvidenceInv

LEMMA MeddlingRecalls ==
  ASSUME TypeInv, PromiseInv, EvidenceInv, NEW j \in Keys, Meddles(j)
  PROVE  EvidenceInv'
  <1>1. CASE replay' = Idle /\ due' = Nothing
    BY <1>1, IdleIsOne, NothingIsDue DEF EvidenceInv, EvidenceComesBack, At
  <1>2. CASE /\ replay.at \notin Ended /\ replay' = replay
             /\ \A i \in Keys : i # j => due'.chunk[i] = due.chunk[i]
             /\ due'.links = {l \in due.links : l.key # j}
    <2>1. ASSUME NEW l \in due'.links PROVE Recalled(l)'
      <3>1. l \in due.links /\ l.key # j /\ l.key \in Keys /\ Recalled(l)
        BY <1>2, <2>1 DEF EvidenceInv, TypeInv, ReplayTypeOK, Links
      <3>2. SameStory(l.key)
        BY <3>1, SameLog, OtherItem DEF Meddles, PromiseInv
      <3>3. QED
        BY <1>2, <3>1, <3>2 DEF Recalled, Untouched, SameStory
    <2>2. EvidenceComesBack'
      BY <1>2 DEF EvidenceComesBack, At, Ended
    <2>3. QED
      BY <2>1, <2>2 DEF EvidenceInv
  <1>3. QED
    BY <1>1, <1>2, TouchIs DEF Meddles, TypeInv

\* Every link that is due can be made of one that the process remembers.
LEMMA DueCanBeMade ==
  ASSUME TypeInv, PromiseInv, EvidenceInv, HasFulfilled, replay.at \in Running, NEW l \in due.links
  PROVE  \E x \in Restorable : Relinked(live, x) = Relinked(live, l)
  <1>0. live \in Corpora /\ l \in Links /\ Recalled(l)
    BY DEF TypeInv, ReplayTypeOK, EvidenceInv
  <1>1. PICK k : k = l.key /\ k \in Keys
    BY <1>0 DEF Links
  <1>2. PICK x \in replay.kept : SameLink(l, x)
    BY <1>0 DEF Recalled
  <1>3. x \in Links /\ x.key = k /\ x.owner = l.owner /\ x.chunk = l.chunk
    BY <1>1, <1>2, Fields DEF TypeInv, SameLink
  <1>4. Fulfilled(k)
    BY <1>0, <1>1 DEF Recalled, PromiseInv, Promised
  <1>5. Versions(live[k]) = Said(k) /\ Said(k) # <<>> /\ ~Last(Said(k))[2]
    BY <1>0, <1>1, <1>4 DEF Recalled, Fulfilled, AsLogged
  <1>6. live[k] # <<>> /\ ~Current(live, k).hidden
    <2>1. live[k] # <<>>
      BY <1>0, <1>1, <1>5, CurrentRow
    <2>2. Last(Versions(live[k])) = <<Current(live, k).seq, Current(live, k).hidden>>
      BY <1>0, <1>1, <2>1, SameCurrent
    <2>3. QED
      BY <1>5, <2>1, <2>2
  <1>7. l.chunk => Current(live, k).chunk # "none"
    <2>1. SUFFICES ASSUME l.chunk PROVE Current(live, k).chunk # "none"
      OBVIOUS
    <2>2. due.chunk[k] \in {"bare", "full"}
      BY <1>0, <1>1, <2>1, DueIs DEF Recalled
    <2>3. ChunkOf(k) \in {"none", "bare", "full"} /\ Rank(ChunkOf(k)) >= Rank(due.chunk[k])
      BY <1>1, <1>4, ChunkIs DEF TypeInv, Fulfilled
    <2>4. ChunkOf(k) # "none"
      BY <2>2, <2>3 DEF Rank
    <2>5. QED
      BY <1>6, <2>4 DEF ChunkOf
  <1>8. x \in Restorable
    BY <1>3, <1>6, <1>7 DEF Restorable, Citable, Shown
  <1>9. Relinked(live, x) = Relinked(live, l)
    <2>1. PICK s : s = Current(live, k).seq
      OBVIOUS
    <2>2. Relinked(live, x) = [x EXCEPT !.ver = s] /\ Relinked(live, l) = [l EXCEPT !.ver = s]
      BY <1>1, <1>3, <2>1 DEF Relinked
    <2>3. QED
      BY <1>0, <1>1, <1>3, <2>2 DEF Links
  <1>10. QED
    BY <1>8, <1>9

LEMMA RestoreRecalls ==
  ASSUME TypeInv, PromiseInv, EvidenceInv, Restore
  PROVE  EvidenceInv'
  <1>1. /\ replay.at \in {"restore", "unwind"} /\ log' = log /\ live' = live /\ due' = due
        /\ replay.at \in Running
    BY DEF Restore, Running
  <1>2. PICK p \in {"lost", "done", "undone"} :
          /\ Over(p)
          /\ p # "lost" => evidence' = evidence \cup {Relinked(live, x) : x \in Restorable}
          /\ p = "done" => replay.at = "restore"
          /\ p = "undone" => replay.at = "unwind"
    BY DEF Restore, At
  <1>3. replay'.at = p /\ replay'.mode = replay.mode /\ replay'.after = replay.after
    BY <1>2, Ends DEF TypeInv, Ended
  <1>4. ASSUME NEW l \in due'.links PROVE Recalled(l)'
    <2>1. Recalled(l) /\ l.key \in Keys
      BY <1>1, <1>4 DEF EvidenceInv, TypeInv, ReplayTypeOK, Links
    <2>2. SameStory(l.key)
      BY <1>1, <2>1, SameLog
    <2>3. replay'.at \notin Running
      BY <1>3 DEF Running
    <2>4. QED
      BY <1>1, <2>1, <2>2, <2>3 DEF Recalled, Untouched, SameStory
  <1>5. EvidenceComesBack'
    <2>1. SUFFICES ASSUME (At("done") /\ replay.after = 0)' \/ (At("undone") /\ ~InPlace)'
                   PROVE  Brought'
      BY DEF EvidenceComesBack
    <2>2. HasFulfilled /\ p # "lost"
      BY <1>2, <1>3, <2>1 DEF At, InPlace, HasFulfilled
    <2>3. ASSUME NEW l \in due.links PROVE Relinked(live, l) \in evidence'
      <3>1. PICK x \in Restorable : Relinked(live, x) = Relinked(live, l)
        BY <1>1, <2>2, <2>3, DueCanBeMade
      <3>2. QED
        BY <1>2, <2>2, <3>1
    <2>4. \A l : Relinked(live', l) = Relinked(live, l)
      BY <1>1
    <2>5. QED
      BY <1>1, <2>3, <2>4 DEF Brought
  <1>6. QED
    BY <1>4, <1>5 DEF EvidenceInv

LEMMA KeptGoingOn ==
  ASSUME TypeInv,
         \/ Create \/ Clear \/ ClearGraph \/ ScanPurged \/ OpenLog \/ Apply \/ NormalizeOne \/ EmbedOne
         \/ EndOfLog \/ FindTargets \/ EndOfTargets
         \/ (\E k \in Keys, s \in Seqs : Reprocess(k, s))
         \/ Swap \/ Project \/ Fail
  PROVE  /\ log' = log /\ due' \in {due, Nothing} /\ replay'.kept = replay.kept
         /\ replay.at \in Running /\ replay'.at \in Running
  <1>0. ReplayTypeOK /\ replay \in Replays
    BY DEF TypeInv, ReplayTypeOK
  <1>1. ASSUME NEW p \in Running, Under(p) PROVE replay'.kept = replay.kept /\ replay'.at \in Running
    BY <1>0, <1>1, Moves DEF Places
  <1>2. CASE Create \/ ClearGraph \/ NormalizeOne \/ EmbedOne \/ EndOfLog \/ EndOfTargets \/ Swap \/ Project
    BY <1>1, <1>2 DEF Create, ClearGraph, NormalizeOne, EmbedOne, EndOfLog, EndOfTargets, Swap, Project,
      At, Running
  <1>3. CASE Clear
    <2>1. AfterClearing \in Running
      BY <1>0, Fields DEF AfterClearing, Stages, Running
    <2>2. QED
      BY <1>1, <1>3, <2>1 DEF Clear, At, Running
  <1>4. CASE Apply
    BY <1>4, ApplyIs DEF Apply, At, Running
  <1>5. CASE ScanPurged
    BY <1>0, <1>5 DEF ScanPurged, At, Running, Replays
  <1>6. CASE OpenLog
    BY <1>0, <1>6 DEF OpenLog, At, Running, Replays
  <1>7. CASE FindTargets
    BY <1>0, <1>7 DEF FindTargets, At, Running, Replays
  <1>8. CASE \E k \in Keys, s \in Seqs : Reprocess(k, s)
    BY <1>0, <1>8 DEF Reprocess, At, Running, Replays
  <1>9. CASE Fail
    BY <1>0, <1>9, FailIs DEF Fail, Running
  <1>10. QED
    BY <1>2, <1>3, <1>4, <1>5, <1>6, <1>7, <1>8, <1>9

LEMMA EvidenceStep ==
  ASSUME TypeInv, PromiseInv, EvidenceInv, [Next]_vars
  PROVE  EvidenceInv'
  <1>1. CASE UNCHANGED vars
    <2>1. ASSUME NEW l \in due'.links PROVE Recalled(l)'
      <3>1. Recalled(l) /\ l.key \in Keys
        BY <1>1, <2>1 DEF vars, EvidenceInv, TypeInv, ReplayTypeOK, Links
      <3>2. SameStory(l.key)
        BY <1>1, <3>1, SameLog DEF vars
      <3>3. QED
        BY <1>1, <3>1, <3>2 DEF vars, Recalled, Untouched, SameStory
    <2>2. EvidenceComesBack'
      BY <1>1 DEF vars, EvidenceInv, EvidenceComesBack, Brought, At, InPlace
    <2>3. QED
      BY <2>1, <2>2 DEF EvidenceInv
  <1>2. CASE \E mode \in Modes, stage \in Stages, scope \in Sources \cup {Keys},
               after \in Afters : Begin(mode, stage, scope, after)
    BY <1>2, BeginRecalls
  <1>3. CASE Create \/ Clear \/ ClearGraph \/ ScanPurged \/ OpenLog \/ Apply \/ NormalizeOne \/ EmbedOne
             \/ EndOfLog \/ FindTargets \/ EndOfTargets
             \/ (\E k \in Keys, s \in Seqs : Reprocess(k, s))
             \/ Swap \/ Project \/ Fail
    BY <1>3, KeptGoingOn, GoingOnRecalls
  <1>4. CASE Restore
    BY <1>4, RestoreRecalls
  <1>5. CASE Kill
    <2>1. replay'.at = "killed"
      BY <1>5, Ends DEF Kill, TypeInv, Ended
    <2>2. QED
      BY <1>5, <2>1, NothingIsDue DEF Kill, EvidenceInv, EvidenceComesBack, At
  <1>6. ASSUME NEW j \in Keys,
               \/ Observe(j) \/ Hide(j) \/ Purge(j) \/ Work(j)
               \/ \E o \in Owners, chunk \in BOOLEAN : Link(o, j, chunk)
        PROVE  EvidenceInv'
    BY <1>6, OthersMeddle, MeddlingRecalls DEF TypeInv
  <1>7. CASE ReplayStep
    BY <1>2, <1>3, <1>4, <1>5, <1>7 DEF ReplayStep
  <1>8. QED
    BY <1>1, <1>6, <1>7 DEF Next

LEMMA EvidenceInit == Init => EvidenceInv
  BY NothingIsDue, IdleIsOne DEF Init, EvidenceInv, EvidenceComesBack, At

\* A replay that has finished has put back every link whose item nobody touched and the
\* log still shows, and so has one into a workspace that failed (replay.py __call__,
\* _restore_evidence).
THEOREM TheEvidenceComesBack == Spec => []EvidenceComesBack
  <1>1. EvidenceInv => EvidenceComesBack
    BY DEF EvidenceInv
  <1>2. QED
    BY <1>1, EvidenceInit, EvidenceStep, Invariance, Promises, PTL DEF Spec
=============================================================================
