--------------------------- MODULE FlyweightProofs ---------------------------
(***************************************************************************)
(* The flyweight for every table of layouts that is sound, every length of *)
(* vector and every use of the classes: no write leaves the vector, and a  *)
(* reader gets what was written.  Each stretch of the buffer has a place   *)
(* that its key determines, and the places of two keys do not meet.        *)
(*                                                                         *)
(* And the server's encoder for every event: how many of its calls were    *)
(* made determines the group, what is in the buffer and where it ends.     *)
(***************************************************************************)
EXTENDS ReutersEncoder, SequenceTheorems, FiniteSetTheorems, TLAPS

Blk == Layout[kind].block + extra
EntryBlk == Layout[kind].entryBlock + extra
Start == HeaderLength + Blk

(* Where the stretch of a key lies. *)
HeaderPlace(at, len, key) ==
  /\ len = 2
  /\ \/ at = 0 /\ key = HeaderKey("blockLength")
     \/ at = 2 /\ key = HeaderKey("templateId")
     \/ at = 4 /\ key = HeaderKey("schemaId")
     \/ at = 6 /\ key = HeaderKey("version")

GroupPlace(at, len, key) ==
  /\ len = 2
  /\ \/ at = Start /\ key = GroupKey("blockLength")
     \/ at = Start + 2 /\ key = GroupKey("numInGroup")

RootPlace(at, len, key) ==
  \E f \in DOMAIN Fields :
    /\ Fields[f].type # "constant"
    /\ key = RootKey(f) /\ at = HeaderLength + Fields[f].at /\ len = Fields[f].len

EntryPlace(at, len, key) ==
  \E i \in DOMAIN placed, f \in DOMAIN EntryFields :
    /\ EntryFields[f].type # "constant"
    /\ key = EntryKey(i, f) /\ at = placed[i] + EntryFields[f].at
    /\ len = EntryFields[f].len

IsPlace(at, len, key) ==
  \/ HeaderPlace(at, len, key) \/ GroupPlace(at, len, key)
  \/ RootPlace(at, len, key) \/ EntryPlace(at, len, key)

(* The entries lie behind the group's dimensions, one behind the other. *)
PlacesOK ==
  /\ \A i \in DOMAIN placed :
       /\ i \in Nat \ {0} /\ placed[i] \in Nat /\ Start + 4 <= placed[i]
  /\ \A i, j \in DOMAIN placed : i < j => placed[i] + EntryBlk <= placed[j]

KindOK == kind \in Kind /\ extra \in Extra

-----------------------------------------------------------------------------
LEMMA Lengths ==
  ASSUME KindOK
  PROVE  /\ Layout[kind].block \in Nat /\ Layout[kind].entryBlock \in Nat
         /\ Layout[kind].template \in Nat
         /\ Blk \in Nat /\ EntryBlk \in Nat /\ Start \in Nat /\ Start = 8 + Blk
         /\ Layout[kind].block <= Blk /\ Layout[kind].entryBlock <= EntryBlk
         /\ SoundTable(Fields, Layout[kind].block)
         /\ SoundTable(EntryFields, Layout[kind].entryBlock)
BY LayoutAssumption, FlyweightAssumption
   DEF KindOK, Blk, EntryBlk, Start, HeaderLength, Fields, EntryFields

(* The place of a root field lies in the block. *)
LEMMA RootInside ==
  ASSUME KindOK, NEW at, NEW len, NEW key, RootPlace(at, len, key)
  PROVE  /\ at \in Nat /\ len \in Nat \ {0} /\ key.entry = 0
         /\ 8 <= at /\ at + len <= Start
<1>1. PICK f \in DOMAIN Fields :
        /\ Fields[f].type # "constant"
        /\ key = RootKey(f) /\ at = HeaderLength + Fields[f].at /\ len = Fields[f].len
  BY DEF RootPlace
<1>2. /\ Fields[f].at \in Nat /\ Fields[f].len \in Nat /\ Fields[f].len > 0
      /\ Fields[f].end \in Nat
      /\ Fields[f].at + Fields[f].len <= Fields[f].end
      /\ Fields[f].end <= Layout[kind].block
  BY <1>1, Lengths DEF SoundTable
<1>3. key.entry = 0
  BY <1>1 DEF RootKey
<1> QED
  BY <1>1, <1>2, <1>3, Lengths DEF HeaderLength

(* That of a field of an entry lies in that entry. *)
LEMMA EntryInside ==
  ASSUME KindOK, PlacesOK, NEW at, NEW len, NEW key, EntryPlace(at, len, key)
  PROVE  /\ at \in Nat /\ len \in Nat \ {0}
         /\ key.entry \in DOMAIN placed /\ key.entry \in Nat \ {0}
         /\ placed[key.entry] <= at /\ at + len <= placed[key.entry] + EntryBlk
         /\ Start + 4 <= at
<1>1. PICK i \in DOMAIN placed, f \in DOMAIN EntryFields :
        /\ EntryFields[f].type # "constant"
        /\ key = EntryKey(i, f) /\ at = placed[i] + EntryFields[f].at
        /\ len = EntryFields[f].len
  BY DEF EntryPlace
<1>2. /\ EntryFields[f].at \in Nat /\ EntryFields[f].len \in Nat
      /\ EntryFields[f].len > 0 /\ EntryFields[f].end \in Nat
      /\ EntryFields[f].at + EntryFields[f].len <= EntryFields[f].end
      /\ EntryFields[f].end <= Layout[kind].entryBlock
  BY <1>1, Lengths DEF SoundTable
<1>3. key.entry = i
  BY <1>1 DEF EntryKey
<1>4. placed[i] \in Nat /\ i \in Nat \ {0} /\ Start + 4 <= placed[i]
  BY DEF PlacesOK
<1> QED
  BY <1>1, <1>2, <1>3, <1>4, Lengths

(* A place is a stretch of at least a byte. *)
LEMMA PlaceType ==
  ASSUME KindOK, PlacesOK, NEW at, NEW len, NEW key, IsPlace(at, len, key)
  PROVE  at \in Nat /\ len \in Nat \ {0}
<1>1. CASE HeaderPlace(at, len, key) BY <1>1 DEF HeaderPlace
<1>2. CASE GroupPlace(at, len, key)
  BY <1>2, Lengths DEF GroupPlace
<1>3. CASE RootPlace(at, len, key) BY <1>3, RootInside
<1>4. CASE EntryPlace(at, len, key) BY <1>4, EntryInside
<1> QED BY <1>1, <1>2, <1>3, <1>4 DEF IsPlace

(* Which part of the message a key belongs to. *)
LEMMA PlaceParts ==
  ASSUME KindOK, PlacesOK, NEW at, NEW len, NEW key, IsPlace(at, len, key)
  PROVE  /\ key.entry = -1 => HeaderPlace(at, len, key)
         /\ key.entry = -2 => GroupPlace(at, len, key)
         /\ key.entry = 0 => RootPlace(at, len, key)
         /\ key.entry \notin {-1, -2, 0} => EntryPlace(at, len, key)
         /\ key.entry \in {-1, -2} \cup Nat
<1>1. HeaderPlace(at, len, key) => key.entry = -1
  BY DEF HeaderPlace, HeaderKey
<1>2. GroupPlace(at, len, key) => key.entry = -2
  BY DEF GroupPlace, GroupKey
<1>3. RootPlace(at, len, key) => key.entry = 0
  BY RootInside
<1>4. EntryPlace(at, len, key) => key.entry \in Nat \ {0}
  BY EntryInside
<1> QED BY <1>1, <1>2, <1>3, <1>4 DEF IsPlace

(* A key has one place. *)
LEMMA OnePlace ==
  ASSUME KindOK, PlacesOK, NEW key,
         NEW a, NEW l, IsPlace(a, l, key), NEW b, NEW m, IsPlace(b, m, key)
  PROVE  a = b /\ l = m
<1>1. CASE key.entry = -1
  <2>1. HeaderPlace(a, l, key) /\ HeaderPlace(b, m, key) BY <1>1, PlaceParts
  <2> QED BY <2>1 DEF HeaderPlace, HeaderKey
<1>2. CASE key.entry = -2
  <2>1. GroupPlace(a, l, key) /\ GroupPlace(b, m, key) BY <1>2, PlaceParts
  <2> QED BY <2>1 DEF GroupPlace, GroupKey
<1>3. CASE key.entry = 0
  <2>1. RootPlace(a, l, key) /\ RootPlace(b, m, key) BY <1>3, PlaceParts
  <2> QED BY <2>1 DEF RootPlace, RootKey
<1>4. CASE key.entry \notin {-1, -2, 0}
  <2>1. EntryPlace(a, l, key) /\ EntryPlace(b, m, key) BY <1>4, PlaceParts
  <2> QED BY <2>1 DEF EntryPlace, EntryKey
<1> QED BY <1>1, <1>2, <1>3, <1>4

(* The places of different keys do not meet. *)
LEMMA PlacesApart ==
  ASSUME KindOK, PlacesOK,
         NEW a, NEW l, NEW k, IsPlace(a, l, k),
         NEW b, NEW m, NEW j, IsPlace(b, m, j), k # j
  PROVE  a + l <= b \/ b + m <= a
<1>0. a \in Nat /\ l \in Nat /\ b \in Nat /\ m \in Nat
  BY PlaceType
<1>1. ASSUME NEW at, NEW len, NEW key, IsPlace(at, len, key)
      PROVE  /\ key.entry = -1 => at + len <= 8
             /\ key.entry = -2 => Start <= at /\ at + len <= Start + 4
             /\ key.entry = 0 => 8 <= at /\ at + len <= Start
             /\ key.entry \notin {-1, -2, 0} => Start + 4 <= at
  <2>1. key.entry = -1 => at + len <= 8
    BY <1>1, PlaceParts DEF HeaderPlace
  <2>2. key.entry = -2 => Start <= at /\ at + len <= Start + 4
    BY <1>1, PlaceParts, Lengths DEF GroupPlace
  <2>3. key.entry = 0 => 8 <= at /\ at + len <= Start
    BY <1>1, PlaceParts, RootInside
  <2>4. key.entry \notin {-1, -2, 0} => Start + 4 <= at
    BY <1>1, PlaceParts, EntryInside
  <2> QED BY <2>1, <2>2, <2>3, <2>4
<1>2. CASE k.entry = -1 /\ j.entry = -1
  <2>1. HeaderPlace(a, l, k) /\ HeaderPlace(b, m, j) BY <1>2, PlaceParts
  <2> QED BY <2>1 DEF HeaderPlace
<1>3. CASE k.entry = -2 /\ j.entry = -2
  <2>1. GroupPlace(a, l, k) /\ GroupPlace(b, m, j) BY <1>3, PlaceParts
  <2> QED BY <2>1, Lengths DEF GroupPlace
<1>4. CASE k.entry = 0 /\ j.entry = 0
  <2>1. RootPlace(a, l, k) /\ RootPlace(b, m, j) BY <1>4, PlaceParts
  <2>2. PICK f \in DOMAIN Fields :
          k = RootKey(f) /\ a = HeaderLength + Fields[f].at /\ l = Fields[f].len
    BY <2>1 DEF RootPlace
  <2>3. PICK g \in DOMAIN Fields :
          j = RootKey(g) /\ b = HeaderLength + Fields[g].at /\ m = Fields[g].len
    BY <2>1 DEF RootPlace
  <2>4. f # g BY <2>2, <2>3
  <2>5. /\ Fields[f].at \in Nat /\ Fields[f].len \in Nat
        /\ Fields[g].at \in Nat /\ Fields[g].len \in Nat
        /\ \/ Fields[f].at + Fields[f].len <= Fields[g].at
           \/ Fields[g].at + Fields[g].len <= Fields[f].at
    BY <2>4, Lengths DEF SoundTable
  <2> QED BY <2>2, <2>3, <2>5 DEF HeaderLength
<1>5. CASE k.entry \notin {-1, -2, 0} /\ j.entry \notin {-1, -2, 0}
  <2>1. EntryPlace(a, l, k) /\ EntryPlace(b, m, j) BY <1>5, PlaceParts
  <2>2. PICK i \in DOMAIN placed, f \in DOMAIN EntryFields :
          /\ k = EntryKey(i, f) /\ a = placed[i] + EntryFields[f].at
          /\ l = EntryFields[f].len
    BY <2>1 DEF EntryPlace
  <2>3. PICK h \in DOMAIN placed, g \in DOMAIN EntryFields :
          /\ j = EntryKey(h, g) /\ b = placed[h] + EntryFields[g].at
          /\ m = EntryFields[g].len
    BY <2>1 DEF EntryPlace
  <2>4. i \in Nat /\ h \in Nat /\ placed[i] \in Nat /\ placed[h] \in Nat
    BY DEF PlacesOK
  <2>5. k.entry = i /\ j.entry = h
    BY <2>2, <2>3 DEF EntryKey
  <2>6. CASE i = h
    <3>1. f # g BY <2>2, <2>3, <2>6
    <3>2. /\ EntryFields[f].at \in Nat /\ EntryFields[f].len \in Nat
          /\ EntryFields[g].at \in Nat /\ EntryFields[g].len \in Nat
          /\ \/ EntryFields[f].at + EntryFields[f].len <= EntryFields[g].at
             \/ EntryFields[g].at + EntryFields[g].len <= EntryFields[f].at
      BY <3>1, Lengths DEF SoundTable
    <3> QED BY <2>2, <2>3, <2>4, <2>6, <3>2
  <2>7. CASE i < h
    <3>1. placed[i] + EntryBlk <= placed[h] BY <2>7 DEF PlacesOK
    <3>2. a + l <= placed[i] + EntryBlk /\ placed[h] <= b
      BY <2>1, <2>5, EntryInside
    <3> QED BY <1>0, <2>4, <3>1, <3>2, Lengths
  <2>8. CASE h < i
    <3>1. placed[h] + EntryBlk <= placed[i] BY <2>8 DEF PlacesOK
    <3>2. b + m <= placed[h] + EntryBlk /\ placed[i] <= a
      BY <2>1, <2>5, EntryInside
    <3> QED BY <1>0, <2>4, <3>1, <3>2, Lengths
  <2> QED BY <2>4, <2>6, <2>7, <2>8
<1>6. CASE (k.entry = -1) # (j.entry = -1) \/ (k.entry = 0) # (j.entry = 0)
             \/ (k.entry = -2) # (j.entry = -2)
  BY <1>0, <1>1, <1>6, Lengths
<1> QED BY <1>2, <1>3, <1>4, <1>5, <1>6

-----------------------------------------------------------------------------
(* The buffer: every stretch in the place of its key, one for a key.       *)
Laid(m) ==
  \A s \in m : /\ s = Stretch(s.at, s.len, s.key, s.value)
               /\ s.value \in Nat
               /\ IsPlace(s.at, s.len, s.key)
Single(m) == \A s, t \in m : s.key = t.key => s = t
Has(m, key, value) == \E s \in m : s.key = key /\ s.value = value

(* A write in the place of a key replaces its stretch and spoils no other. *)
LEMMA WriteReplaces ==
  ASSUME KindOK, PlacesOK, NEW m, Laid(m), Single(m),
         NEW at, NEW len, NEW key, IsPlace(at, len, key), NEW value \in Nat,
         NEW w, w = Write(m, at, len, key, value)
  PROVE  /\ w = {s \in m : s.key # key} \cup {Stretch(at, len, key, value)}
         /\ Laid(w) /\ Single(w) /\ Has(w, key, value)
         /\ \A k, v : k # key => (Has(m, k, v) <=> Has(w, k, v))
<1> DEFINE new == Stretch(at, len, key, value)
<1>1. at \in Nat /\ len \in Nat \ {0}
  BY PlaceType
<1>2. \A s \in m : s.key = key => s.at = at /\ s.len = len
  BY OnePlace DEF Laid
<1>3. \A s \in m : s.key # key => Apart(s, at, len)
  BY PlacesApart DEF Laid, Apart
<1>4. \A s \in m : s.key # key => ~(s.at = at /\ s.len = len)
  BY <1>1, <1>3 DEF Apart
<1>5. {t \in m : ~(t.at = at /\ t.len = len)} = {s \in m : s.key # key}
  BY <1>2, <1>4
<1>6. w = {IF Apart(s, at, len) THEN s ELSE [s EXCEPT !.key = Spoilt] :
             s \in {t \in m : t.key # key}} \cup {new}
  BY <1>5, Zenon DEF Write
<1>7. w = {s \in m : s.key # key} \cup {new}
  BY <1>3, <1>6
<1>8. /\ new.at = at /\ new.len = len /\ new.key = key /\ new.value = value
      /\ new = Stretch(new.at, new.len, new.key, new.value)
  BY DEF Stretch
<1>9. Laid(w)
  BY <1>7, <1>8 DEF Laid
<1>10. Single(w)
  BY <1>7, <1>8 DEF Single
<1>11. Has(w, key, value) /\ \A k, v : k # key => (Has(m, k, v) <=> Has(w, k, v))
  BY <1>7, <1>8 DEF Has
<1> QED BY <1>7, <1>9, <1>10, <1>11

(* A read in the place of a key finds its stretch, or zeros. *)
LEMMA ReadFinds ==
  ASSUME KindOK, PlacesOK, NEW m, Laid(m), Single(m),
         NEW at, NEW len, NEW key, IsPlace(at, len, key)
  PROVE  /\ \A v : Has(m, key, v) => Read(m, at, len) = [key |-> key, value |-> v]
         /\ (\A s \in m : s.key # key) => Read(m, at, len) = Zero
<1> DEFINE hit == {s \in m : ~Apart(s, at, len)}
<1>1. at \in Nat /\ len \in Nat \ {0}
  BY PlaceType
<1>2. \A s \in m : s.key # key => Apart(s, at, len)
  BY PlacesApart DEF Laid, Apart
<1>3. ASSUME NEW v, Has(m, key, v)
      PROVE  Read(m, at, len) = [key |-> key, value |-> v]
  <2>1. PICK s \in m : s.key = key /\ s.value = v BY <1>3 DEF Has
  <2>2. s.at = at /\ s.len = len BY <2>1, OnePlace DEF Laid
  <2>3. ~Apart(s, at, len) BY <1>1, <2>2 DEF Apart
  <2>4. hit = {s} BY <1>2, <2>1, <2>3 DEF Single
  <2>5. (CHOOSE t \in hit : TRUE) = s BY <2>4
  <2> HIDE DEF hit
  <2>6. Read(m, at, len) =
          IF hit = {} THEN Zero
          ELSE LET t == CHOOSE t \in hit : TRUE
               IN  IF hit = {t} /\ t.at = at /\ t.len = len
                   THEN [key |-> t.key, value |-> t.value]
                   ELSE [key |-> Spoilt, value |-> 0]
    BY DEF Read, hit
  <2> QED BY <2>1, <2>2, <2>4, <2>5, <2>6
<1>4. ASSUME \A s \in m : s.key # key PROVE Read(m, at, len) = Zero
  <2>1. hit = {} BY <1>2, <1>4
  <2> QED BY <2>1 DEF Read
<1> QED BY <1>3, <1>4

-----------------------------------------------------------------------------
(* The inductive invariant.  n entries were written, up to end. *)
Extent(n, end) ==
  /\ n \in Nat /\ DOMAIN placed = 1..n
  /\ \A i \in DOMAIN placed :
       /\ i = 1 => placed[i] = Start + 4
       /\ i + 1 \in DOMAIN placed => placed[i + 1] = placed[i] + EntryBlk
  /\ n = 0 => end \in {Start, Start + 4}
  /\ n > 0 => end = placed[n] + EntryBlk /\ Start + 4 <= end
  /\ end # Start => /\ Has(mem, GroupKey("blockLength"), EntryBlk)
                    /\ \E c \in Nat : Has(mem, GroupKey("numInGroup"), c)

Stored ==
  /\ \A k \in DOMAIN put : k.entry \in Nat /\ Has(mem, k, put[k])
  /\ \A s \in mem : s.key.entry \in Nat => s.key \in DOMAIN put

MemOK ==
  /\ PlacesOK /\ Laid(mem) /\ Single(mem) /\ Stored
  /\ Has(mem, HeaderKey("blockLength"), Blk)

InMessage ==
  msg.offset = 8 /\ msg.block = Blk

Encoding ==
  /\ MemOK /\ InMessage
  /\ Extent(grp.index, msg.position)
  /\ Start <= msg.position /\ msg.position <= size
  /\ \A i \in DOMAIN placed : placed[i] + EntryBlk <= msg.position
  /\ \A s \in mem : s.at + s.len <= msg.position
  /\ grp.open <=> msg.position # Start
  /\ grp.open => grp.start = Start /\ grp.block = EntryBlk
  /\ grp.index > 0 => grp.open /\ grp.offset = placed[grp.index]

Sent == MemOK /\ \E n \in Nat : Extent(n, size)

Decoding ==
  /\ Sent /\ InMessage
  /\ ~grp.open => grp.index = 0 /\ msg.position = Start
  /\ grp.open => /\ Layout[kind].entryBlock > 0 /\ grp.block = EntryBlk
                 /\ size # Start
                 /\ grp.index = 0 => msg.position = Start + 4
                 /\ grp.index > 0 => /\ grp.index \in DOMAIN placed
                                     /\ grp.offset = placed[grp.index]
                                     /\ msg.position = placed[grp.index] + EntryBlk

IInv ==
  /\ TypeOK /\ InBounds
  /\ pc = "new" => mem = {} /\ put = << >> /\ placed = << >> /\ grp = NoGroup
  /\ pc = "encode" => Encoding
  /\ pc = "sent" => Sent
  /\ pc = "decode" => Decoding

LEMMA InitIInv == Init => IInv
<1> SUFFICES ASSUME Init PROVE IInv
  OBVIOUS
<1>1. TypeOK
  BY FlyweightAssumption DEF Init, TypeOK, NoGroup
<1> QED BY <1>1 DEF Init, IInv, InBounds

(* An exception leaves everything as it is. *)
LEMMA ThrowKeeps ==
  ASSUME IInv, Throw PROVE IInv'
<1>1. TypeOK' /\ InBounds'
  BY DEF IInv, Throw, TypeOK, InBounds, object, history
<1> QED BY <1>1 DEF IInv, Throw

-----------------------------------------------------------------------------
(* Places depend on the kind, the schema and where the entries are. *)
LEMMA PlacesSame ==
  ASSUME UNCHANGED <<kind, extra, placed>>
  PROVE  /\ Blk' = Blk /\ EntryBlk' = EntryBlk /\ Start' = Start
         /\ PlacesOK' <=> PlacesOK
         /\ \A a, l, k : IsPlace(a, l, k)' <=> IsPlace(a, l, k)
         /\ \A m : Laid(m)' <=> Laid(m)
<1>1. Blk' = Blk /\ EntryBlk' = EntryBlk /\ Start' = Start
      /\ Fields' = Fields /\ EntryFields' = EntryFields
  BY DEF Blk, EntryBlk, Start, Fields, EntryFields
<1>2. PlacesOK' <=> PlacesOK
  BY <1>1 DEF PlacesOK
<1>3. ASSUME NEW a, NEW l, NEW k
      PROVE  IsPlace(a, l, k)' <=> IsPlace(a, l, k)
  BY <1>1 DEF IsPlace, HeaderPlace, GroupPlace, RootPlace, EntryPlace
<1>4. ASSUME NEW m PROVE Laid(m)' <=> Laid(m)
  BY <1>3 DEF Laid
<1> QED BY <1>1, <1>2, <1>3, <1>4

(* What a write in the place of a key does to the buffer. *)
LEMMA StoreValue ==
  ASSUME KindOK, MemOK, NEW at, NEW len, NEW key, IsPlace(at, len, key),
         NEW value \in Nat,
         mem' = Write(mem, at, len, key, value),
         UNCHANGED <<kind, extra, placed>>,
         \/ /\ key.entry \in Nat
            /\ put' = [k \in DOMAIN put \cup {key} |-> IF k = key THEN value ELSE put[k]]
         \/ key.entry \notin Nat /\ key # HeaderKey("blockLength") /\ put' = put
  PROVE  /\ MemOK'
         /\ \A s \in mem' : s \in mem \/ (s.at = at /\ s.len = len)
         /\ Has(mem', key, value)
         /\ \A k, v : k # key => (Has(mem, k, v) <=> Has(mem', k, v))
         /\ \A s \in mem' : s.value \in Nat /\ s.at \in Nat /\ s.len \in Nat
<1>1. /\ mem' = {s \in mem : s.key # key} \cup {Stretch(at, len, key, value)}
      /\ Laid(mem') /\ Single(mem') /\ Has(mem', key, value)
      /\ \A k, v : k # key => (Has(mem, k, v) <=> Has(mem', k, v))
  BY WriteReplaces DEF MemOK
<1>2. Stored'
  <2>1. \A s \in mem' : s \in mem \/ s.key = key
    BY <1>1 DEF Stretch
  <2>2. CASE /\ key.entry \in Nat
             /\ put' = [k \in DOMAIN put \cup {key} |-> IF k = key THEN value ELSE put[k]]
    <3>1. ASSUME NEW k \in DOMAIN put'
          PROVE  k.entry \in Nat /\ Has(mem', k, put'[k])
      BY <1>1, <2>2, <3>1 DEF MemOK, Stored
    <3>2. ASSUME NEW s \in mem', s.key.entry \in Nat
          PROVE  s.key \in DOMAIN put'
      BY <2>1, <2>2, <3>2 DEF MemOK, Stored
    <3> QED BY <3>1, <3>2 DEF Stored, Has
  <2>3. CASE key.entry \notin Nat /\ put' = put
    <3>1. ASSUME NEW k \in DOMAIN put PROVE k.entry \in Nat /\ Has(mem', k, put[k])
      BY <1>1, <2>3 DEF MemOK, Stored
    <3>2. ASSUME NEW s \in mem', s.key.entry \in Nat PROVE s.key \in DOMAIN put
      BY <2>1, <2>3, <3>2 DEF MemOK, Stored
    <3> QED BY <2>3, <3>1, <3>2 DEF Stored, Has
  <2> QED BY <2>2, <2>3
<1>3. Has(mem', HeaderKey("blockLength"), Blk)
  BY <1>1 DEF MemOK, HeaderKey
<1>4. MemOK'
  BY <1>1, <1>2, <1>3, PlacesSame DEF MemOK, Single, Has
<1>5. \A s \in mem' : s \in mem \/ (s.at = at /\ s.len = len)
  BY <1>1 DEF Stretch
<1>6. \A s \in mem' : s.value \in Nat /\ s.at \in Nat /\ s.len \in Nat
  BY <1>1, PlaceType DEF Laid, MemOK
<1> QED BY <1>1, <1>4, <1>5, <1>6

LEMMA HeaderKeysDiffer ==
  /\ HeaderKey("templateId") # HeaderKey("blockLength")
  /\ HeaderKey("schemaId") # HeaderKey("blockLength")
  /\ HeaderKey("version") # HeaderKey("blockLength")
BY DEF HeaderKey

LEMMA WrapKeeps ==
  ASSUME IInv, WrapForEncode PROVE IInv'
<1>1. CASE HeaderLength + (Layout[kind].block + extra) > size
  BY <1>1, ThrowKeeps DEF WrapForEncode
<1>2. CASE ~(HeaderLength + (Layout[kind].block + extra) > size)
  <2>1. /\ pc = "new" /\ pc' = "encode"
        /\ mem' = WriteHeader(mem, Blk, Layout[kind].template)
        /\ msg' = [offset |-> 8, position |-> Start, block |-> Blk]
        /\ UNCHANGED <<kind, extra, size, grp, put, placed>>
    BY <1>2 DEF WrapForEncode, Blk, Start, HeaderLength, object, history
  <2>2. /\ KindOK /\ TypeOK /\ mem = {} /\ put = << >> /\ placed = << >>
        /\ grp = NoGroup
    BY <2>1 DEF IInv, TypeOK, KindOK
  <2>3. PlacesOK
    BY <2>2 DEF PlacesOK
  <2>4. Laid({}) /\ Single({})
    BY DEF Laid, Single
  <2> DEFINE template == Layout[kind].template
  <2>t. template \in Nat
    BY <2>2, Lengths
  <2> HIDE DEF template
  <2> DEFINE m1 == Write({}, 0, 2, HeaderKey("blockLength"), Blk)
             m2 == Write(m1, 2, 2, HeaderKey("templateId"), template)
             m3 == Write(m2, 4, 2, HeaderKey("schemaId"), 101)
             m4 == Write(m3, 6, 2, HeaderKey("version"), 1)
  <2>5. /\ IsPlace(0, 2, HeaderKey("blockLength"))
        /\ IsPlace(2, 2, HeaderKey("templateId"))
        /\ IsPlace(4, 2, HeaderKey("schemaId"))
        /\ IsPlace(6, 2, HeaderKey("version"))
    BY DEF IsPlace, HeaderPlace
  <2>6. Laid(m1) /\ Single(m1) /\ Has(m1, HeaderKey("blockLength"), Blk)
        /\ \A s \in m1 : s = Stretch(0, 2, HeaderKey("blockLength"), Blk)
    BY <2>2, <2>3, <2>4, <2>5, WriteReplaces, Lengths
  <2> HIDE DEF m1
  <2>7. Laid(m2) /\ Single(m2) /\ Has(m2, HeaderKey("blockLength"), Blk)
        /\ \A s \in m2 : s \in m1 \/ s = Stretch(2, 2, HeaderKey("templateId"), template)
    BY <2>t, <2>2, <2>3, <2>5, <2>6, WriteReplaces, HeaderKeysDiffer
  <2> HIDE DEF m2
  <2>8. Laid(m3) /\ Single(m3) /\ Has(m3, HeaderKey("blockLength"), Blk)
        /\ \A s \in m3 : s \in m2 \/ s = Stretch(4, 2, HeaderKey("schemaId"), 101)
    BY <2>2, <2>3, <2>5, <2>7, WriteReplaces, HeaderKeysDiffer
  <2> HIDE DEF m3
  <2>9. Laid(m4) /\ Single(m4) /\ Has(m4, HeaderKey("blockLength"), Blk)
        /\ \A s \in m4 : s \in m3 \/ s = Stretch(6, 2, HeaderKey("version"), 1)
    BY <2>2, <2>3, <2>5, <2>8, WriteReplaces, HeaderKeysDiffer
  <2>10. mem' = m4
    BY <2>1, <2>2 DEF WriteHeader, m1, m2, m3, template
  <2> HIDE DEF m4
  <2>11. \A s \in mem' : s.key.entry = -1 /\ s.at + s.len <= 8
                         /\ s.at \in Nat /\ s.len \in Nat /\ s.value \in Nat
    BY <2>t, <2>2, <2>6, <2>7, <2>8, <2>9, <2>10, Lengths DEF Stretch, HeaderKey
  <2>12. MemOK'
    <3>1. Stored'
      BY <2>1, <2>2, <2>11 DEF Stored
    <3> QED BY <2>1, <2>3, <2>9, <2>10, <3>1, PlacesSame DEF MemOK, Single, Has
  <2>13. Extent(grp.index, msg.position)'
    BY <2>1, <2>2, PlacesSame DEF Extent, NoGroup
  <2>14. Start \in Nat /\ Start >= 8 /\ Start <= size /\ size \in Nat
    <3>1. Blk \in Nat BY <2>2, Lengths
    <3>2. size \in Nat BY <2>2 DEF TypeOK
    <3>3. Start = 8 + Blk BY DEF Start, HeaderLength
    <3>4. ~(8 + Blk > size) BY <1>2 DEF HeaderLength, Blk
    <3> QED BY <3>1, <3>2, <3>3, <3>4
  <2>15. Encoding'
    BY <2>1, <2>2, <2>11, <2>12, <2>13, <2>14, PlacesSame
       DEF Encoding, InMessage, NoGroup
  <2>16. TypeOK'
    BY <2>1, <2>2, <2>11, <2>14, Lengths DEF TypeOK
  <2>17. InBounds'
    BY <2>1, <2>11, <2>14 DEF InBounds
  <2> QED BY <2>1, <2>15, <2>16, <2>17 DEF IInv
<1> QED BY <1>1, <1>2

(* A setter of any field in the place of its key. *)
LEMMA PutAtKeeps ==
  ASSUME IInv, pc = "encode", NEW base, NEW field, NEW key, NEW value \in Nat,
         NEW tooLong, PutAt(base, field, key, value, tooLong),
         key.entry \in Nat,
         field.type # "constant" => IsPlace(base + field.at, field.len, key),
         base + field.at + field.len <= msg.position
  PROVE  IInv'
<1> DEFINE throws == tooLong \/ (field.type = "composite" /\ base + field.end > size)
<1>1. CASE throws
  BY <1>1, ThrowKeeps DEF PutAt
<1>2. CASE ~throws
  <2>1. /\ field.type # "constant"
        /\ mem' = Write(mem, base + field.at, field.len, key, value)
        /\ put' = [k \in DOMAIN put \cup {key} |-> IF k = key THEN value ELSE put[k]]
        /\ UNCHANGED <<pc, kind, extra, size, msg, grp, placed>>
    BY <1>2 DEF PutAt, object
  <2>2. Encoding /\ TypeOK /\ KindOK
    BY DEF IInv, TypeOK, KindOK
  <2>3. /\ MemOK'
        /\ \A s \in mem' : s \in mem \/ (s.at = base + field.at /\ s.len = field.len)
        /\ \A k, v : k # key => (Has(mem, k, v) <=> Has(mem', k, v))
        /\ \A s \in mem' : s.value \in Nat /\ s.at \in Nat /\ s.len \in Nat
    BY <2>1, <2>2, StoreValue DEF Encoding
  <2>4. Extent(grp.index, msg.position)'
    <3>1. /\ Has(mem, GroupKey("blockLength"), EntryBlk)
               <=> Has(mem', GroupKey("blockLength"), EntryBlk)
          /\ \A c : Has(mem, GroupKey("numInGroup"), c)
                      <=> Has(mem', GroupKey("numInGroup"), c)
      BY <2>3 DEF GroupKey
    <3> QED BY <2>1, <2>2, <3>1, PlacesSame DEF Extent, Encoding, Has
  <2>5. \A s \in mem' : s.at + s.len <= msg.position
    BY <2>2, <2>3 DEF Encoding
  <2>6. Encoding'
    BY <2>1, <2>2, <2>3, <2>4, <2>5, PlacesSame DEF Encoding, InMessage
  <2>7. TypeOK'
    BY <2>1, <2>2, <2>3 DEF TypeOK
  <2>8. InBounds'
    BY <2>1, <2>2, <2>3, <2>5 DEF InBounds, Encoding, TypeOK
  <2> QED BY <2>1, <2>6, <2>7, <2>8 DEF IInv
<1> QED BY <1>1, <1>2

LEMMA PutKeeps ==
  ASSUME IInv, NEW f, NEW value \in Nat, NEW tooLong, Put(f, value, tooLong)
  PROVE  IInv'
<1>1. /\ pc = "encode" /\ f \in DOMAIN Fields
      /\ PutAt(msg.offset, Fields[f], RootKey(f), value, tooLong)
  BY DEF Put
<1>2. Encoding /\ KindOK /\ TypeOK
  BY <1>1 DEF IInv, TypeOK, KindOK
<1>3. RootKey(f).entry \in Nat
  BY DEF RootKey
<1>4. Fields[f].type # "constant" =>
        IsPlace(msg.offset + Fields[f].at, Fields[f].len, RootKey(f))
  BY <1>1, <1>2 DEF IsPlace, RootPlace, Encoding, InMessage, HeaderLength
<1>5. msg.offset + Fields[f].at + Fields[f].len <= msg.position
  <2>1. /\ Fields[f].at \in Nat /\ Fields[f].len \in Nat /\ Fields[f].end \in Nat
        /\ Fields[f].at + Fields[f].len <= Fields[f].end
        /\ Fields[f].end <= Layout[kind].block
    BY <1>1, <1>2, Lengths DEF SoundTable
  <2>2. msg.offset = 8 /\ Start <= msg.position /\ msg.position \in Nat
    BY <1>2 DEF Encoding, InMessage, TypeOK
  <2> QED BY <1>2, <2>1, <2>2, Lengths
<1> QED BY <1>1, <1>3, <1>4, <1>5, PutAtKeeps

LEMMA PutEntryKeeps ==
  ASSUME IInv, NEW f, NEW value \in Nat, PutEntry(f, value)
  PROVE  IInv'
<1>1. /\ pc = "encode" /\ grp.index > 0 /\ f \in DOMAIN EntryFields
      /\ PutAt(grp.offset, EntryFields[f], EntryKey(grp.index, f), value, FALSE)
  BY DEF PutEntry
<1>2. Encoding /\ KindOK /\ TypeOK
  BY <1>1 DEF IInv, TypeOK, KindOK
<1>3. grp.index \in Nat /\ grp.index \in DOMAIN placed
      /\ grp.offset = placed[grp.index]
  BY <1>1, <1>2 DEF Encoding, Extent, TypeOK
<1>4. EntryKey(grp.index, f).entry \in Nat
  BY <1>3 DEF EntryKey
<1>5. EntryFields[f].type # "constant" =>
        IsPlace(grp.offset + EntryFields[f].at, EntryFields[f].len, EntryKey(grp.index, f))
  BY <1>1, <1>3 DEF IsPlace, EntryPlace
<1>6. grp.offset + EntryFields[f].at + EntryFields[f].len <= msg.position
  <2>1. /\ EntryFields[f].at \in Nat /\ EntryFields[f].len \in Nat
        /\ EntryFields[f].end \in Nat
        /\ EntryFields[f].at + EntryFields[f].len <= EntryFields[f].end
        /\ EntryFields[f].end <= Layout[kind].entryBlock
    BY <1>1, <1>2, Lengths DEF SoundTable
  <2>2. placed[grp.index] + EntryBlk <= msg.position /\ placed[grp.index] \in Nat
        /\ msg.position \in Nat
    BY <1>2, <1>3 DEF Encoding, TypeOK
  <2> QED BY <1>2, <1>3, <2>1, <2>2, Lengths
<1> QED BY <1>1, <1>4, <1>5, <1>6, PutAtKeeps

(* The dimensions of the group, behind the block. *)
LEMMA CountKeeps ==
  ASSUME IInv, NEW count \in Nat, CountEntries(count) PROVE IInv'
<1>1. /\ pc = "encode" /\ Layout[kind].entryBlock > 0 /\ ~grp.open
      /\ Encoding /\ KindOK /\ TypeOK
  BY DEF CountEntries, IInv, TypeOK, KindOK
<1>2. CASE count > MaxCount \/ msg.position + GroupSizeLength > size
  BY <1>2, ThrowKeeps DEF CountEntries
<1>3. CASE ~(count > MaxCount \/ msg.position + GroupSizeLength > size)
  <2>1. /\ mem' = WriteGroupSize(mem, msg.position, EntryBlk, count)
        /\ grp' = [open |-> TRUE, start |-> msg.position, count |-> count,
                   block |-> EntryBlk, index |-> 0, offset |-> 0]
        /\ msg' = [msg EXCEPT !.position = @ + 4]
        /\ UNCHANGED <<pc, kind, extra, size, put, placed>>
    BY <1>3 DEF CountEntries, EntryBlk, GroupSizeLength, object, history
  <2>2. msg.position = Start /\ grp.index = 0 /\ Start \in Nat /\ EntryBlk \in Nat
    BY <1>1, Lengths DEF Encoding, TypeOK
  <2>3. IsPlace(Start, 2, GroupKey("blockLength"))
        /\ IsPlace(Start + 2, 2, GroupKey("numInGroup"))
    BY DEF IsPlace, GroupPlace
  <2> DEFINE m1 == Write(mem, Start, 2, GroupKey("blockLength"), EntryBlk)
  <2>4. /\ GroupKey("blockLength") # GroupKey("numInGroup")
        /\ GroupKey("blockLength") # HeaderKey("blockLength")
        /\ GroupKey("numInGroup") # HeaderKey("blockLength")
        /\ GroupKey("blockLength").entry = -2 /\ GroupKey("numInGroup").entry = -2
    BY DEF GroupKey, HeaderKey
  <2>5. /\ m1 = {s \in mem : s.key # GroupKey("blockLength")}
                  \cup {Stretch(Start, 2, GroupKey("blockLength"), EntryBlk)}
        /\ Laid(m1) /\ Single(m1) /\ Has(m1, GroupKey("blockLength"), EntryBlk)
        /\ \A k, v : k # GroupKey("blockLength") => (Has(mem, k, v) <=> Has(m1, k, v))
    BY <1>1, <2>2, <2>3, WriteReplaces DEF Encoding, MemOK
  <2>6. mem' = Write(m1, Start + 2, 2, GroupKey("numInGroup"), count)
    BY <2>1, <2>2 DEF WriteGroupSize
  <2> HIDE DEF m1
  <2>7. /\ mem' = {s \in m1 : s.key # GroupKey("numInGroup")}
                    \cup {Stretch(Start + 2, 2, GroupKey("numInGroup"), count)}
        /\ Laid(mem') /\ Single(mem') /\ Has(mem', GroupKey("numInGroup"), count)
        /\ \A k, v : k # GroupKey("numInGroup") => (Has(m1, k, v) <=> Has(mem', k, v))
    <3> DEFINE at == Start + 2
    <3>1. mem' = Write(m1, at, 2, GroupKey("numInGroup"), count)
          /\ IsPlace(at, 2, GroupKey("numInGroup"))
      BY <2>3, <2>6
    <3> HIDE DEF at
    <3>2. /\ mem' = {s \in m1 : s.key # GroupKey("numInGroup")}
                      \cup {Stretch(at, 2, GroupKey("numInGroup"), count)}
          /\ Laid(mem') /\ Single(mem') /\ Has(mem', GroupKey("numInGroup"), count)
          /\ \A k, v : k # GroupKey("numInGroup") => (Has(m1, k, v) <=> Has(mem', k, v))
      <4>1. KindOK /\ PlacesOK /\ Laid(m1) /\ Single(m1) /\ count \in Nat
        BY <1>1, <2>5 DEF Encoding, MemOK
      <4>2. \A w : w = Write(m1, at, 2, GroupKey("numInGroup"), count) =>
              /\ w = {s \in m1 : s.key # GroupKey("numInGroup")}
                      \cup {Stretch(at, 2, GroupKey("numInGroup"), count)}
              /\ Laid(w) /\ Single(w) /\ Has(w, GroupKey("numInGroup"), count)
              /\ \A k, v : k # GroupKey("numInGroup") => (Has(m1, k, v) <=> Has(w, k, v))
        BY <3>1, <4>1, WriteReplaces
      <4> QED BY <3>1, <4>2
    <3> QED BY <3>2 DEF at
  <2>8. ASSUME NEW s \in mem'
        PROVE  \/ s \in mem
               \/ /\ s.key.entry = -2 /\ s.at \in {Start, Start + 2} /\ s.len = 2
                  /\ s.value \in Nat
    BY <2>2, <2>4, <2>5, <2>7 DEF Stretch
  <2>9. Stored'
    <3>1. ASSUME NEW k \in DOMAIN put
          PROVE  k.entry \in Nat /\ Has(mem', k, put[k])
      <4>1. k.entry \in Nat /\ Has(mem, k, put[k])
        BY <1>1 DEF Encoding, MemOK, Stored
      <4>2. k # GroupKey("blockLength") /\ k # GroupKey("numInGroup")
        BY <2>4, <4>1
      <4> QED BY <2>5, <2>7, <4>1, <4>2
    <3>2. \A s \in mem' : s.key.entry \in Nat => s.key \in DOMAIN put
      BY <1>1, <2>8 DEF Encoding, MemOK, Stored
    <3> QED BY <2>1, <3>1, <3>2 DEF Stored, Has
  <2>10. MemOK'
    <3>1. Has(mem', HeaderKey("blockLength"), Blk)
      BY <1>1, <2>4, <2>5, <2>7 DEF Encoding, MemOK
    <3> QED BY <1>1, <2>1, <2>7, <2>9, <3>1, PlacesSame
            DEF Encoding, MemOK, Single, Has
  <2>11. Has(mem', GroupKey("blockLength"), EntryBlk)
    BY <2>4, <2>5, <2>7
  <2>12. DOMAIN placed = {}
    BY <1>1, <2>2 DEF Encoding, Extent
  <2>13. /\ msg'.position = Start + 4 /\ msg'.offset = 8 /\ msg'.block = Blk
         /\ Start + 4 <= size /\ size \in Nat
         /\ msg' \in [offset : Nat, position : Nat, block : Nat]
    BY <1>1, <1>3, <2>1, <2>2 DEF TypeOK, Encoding, InMessage, GroupSizeLength
  <2>14. Extent(grp.index, msg.position)'
    BY <2>1, <2>2, <2>7, <2>11, <2>12, <2>13, PlacesSame DEF Extent, Has
  <2>15. \A s \in mem' : s.at + s.len <= Start + 4
                         /\ s.at \in Nat /\ s.len \in Nat /\ s.value \in Nat
    BY <1>1, <2>2, <2>8 DEF Encoding, TypeOK
  <2>16. Encoding'
    BY <2>1, <2>2, <2>10, <2>12, <2>13, <2>14, <2>15, PlacesSame
       DEF Encoding, InMessage
  <2>17. TypeOK'
    BY <1>1, <2>1, <2>2, <2>12, <2>13, <2>15 DEF TypeOK
  <2>18. InBounds'
    BY <2>1, <2>2, <2>13, <2>15 DEF InBounds
  <2> QED BY <1>1, <2>1, <2>16, <2>17, <2>18 DEF IInv
<1> QED BY <1>2, <1>3

(* resetCountToIndex writes the count again in its place. *)
LEMMA ResetKeeps ==
  ASSUME IInv, ResetCountToIndex PROVE IInv'
<1>1. /\ pc = "encode" /\ grp.open
      /\ Encoding /\ KindOK /\ TypeOK
      /\ grp' = [grp EXCEPT !.count = grp.index]
      /\ mem' = Write(mem, grp.start + 2, 2, GroupKey("numInGroup"), grp.index)
      /\ UNCHANGED <<pc, kind, extra, size, msg, put, placed>>
  BY DEF ResetCountToIndex, IInv, TypeOK, KindOK, object, history
<1>2. grp.start = Start /\ grp.index \in Nat /\ Start \in Nat /\ msg.position \in Nat
      /\ size \in Nat
  BY <1>1, Lengths DEF Encoding, TypeOK
<1>3. IsPlace(Start + 2, 2, GroupKey("numInGroup"))
  BY DEF IsPlace, GroupPlace
<1>4. GroupKey("numInGroup").entry \notin Nat
      /\ GroupKey("numInGroup") # HeaderKey("blockLength")
      /\ GroupKey("numInGroup") # GroupKey("blockLength")
  BY DEF GroupKey, HeaderKey
<1>5. /\ MemOK'
      /\ \A s \in mem' : s \in mem \/ (s.at = Start + 2 /\ s.len = 2)
      /\ Has(mem', GroupKey("numInGroup"), grp.index)
      /\ \A k, v : k # GroupKey("numInGroup") => (Has(mem, k, v) <=> Has(mem', k, v))
      /\ \A s \in mem' : s.value \in Nat /\ s.at \in Nat /\ s.len \in Nat
  <2> DEFINE at == Start + 2
             key == GroupKey("numInGroup")
             index == grp.index
  <2>1. mem' = Write(mem, at, 2, key, index) /\ IsPlace(at, 2, key) /\ index \in Nat
        /\ key.entry \notin Nat /\ key # HeaderKey("blockLength")
    BY <1>1, <1>2, <1>3, <1>4
  <2> HIDE DEF at, key, index
  <2>2. /\ MemOK'
        /\ \A s \in mem' : s \in mem \/ (s.at = at /\ s.len = 2)
        /\ Has(mem', key, index)
        /\ \A k, v : k # key => (Has(mem, k, v) <=> Has(mem', k, v))
        /\ \A s \in mem' : s.value \in Nat /\ s.at \in Nat /\ s.len \in Nat
    BY <1>1, <2>1, StoreValue DEF Encoding
  <2> QED BY <2>2 DEF at, key, index
<1>6. grp'.index = grp.index /\ grp'.open /\ grp'.start = Start
      /\ grp'.block = grp.block /\ grp'.offset = grp.offset
      /\ grp' \in [open : BOOLEAN, start : Nat, block : Nat, count : Nat,
                   index : Nat, offset : Nat]
  BY <1>1, <1>2 DEF TypeOK
<1>7. Start + 4 <= msg.position
  BY <1>1, <1>2, Lengths DEF Encoding, Extent
<1>8. Extent(grp.index, msg.position)'
  <2>1. Has(mem', GroupKey("blockLength"), EntryBlk)
    BY <1>1, <1>2, <1>4, <1>5, <1>7 DEF Encoding, Extent
  <2>2. Extent(grp.index, msg.position)
    BY <1>1 DEF Encoding
  <2>3. \E c \in Nat : Has(mem', GroupKey("numInGroup"), c)
    BY <1>2, <1>5
  <2> QED BY <1>1, <1>6, <2>1, <2>2, <2>3, PlacesSame DEF Extent, Has
<1>9. \A s \in mem' : s.at + s.len <= msg.position
  BY <1>1, <1>2, <1>5, <1>7 DEF Encoding
<1>10. Encoding'
  BY <1>1, <1>5, <1>6, <1>8, <1>9, PlacesSame DEF Encoding, InMessage
<1>11. TypeOK'
  BY <1>1, <1>5, <1>6 DEF TypeOK
<1>12. InBounds'
  BY <1>1, <1>2, <1>5, <1>9 DEF InBounds, Encoding
<1> QED BY <1>1, <1>10, <1>11, <1>12 DEF IInv

(* next() in an encoder: one more entry behind the last. *)
LEMMA NextEncodeKeeps ==
  ASSUME IInv, pc = "encode", NextEntry PROVE IInv'
<1>1. grp.open /\ Encoding /\ KindOK /\ TypeOK
  BY DEF NextEntry, IInv, TypeOK, KindOK
<1>2. CASE grp.index >= grp.count \/ msg.position + grp.block > size
  BY <1>2, ThrowKeeps DEF NextEntry
<1>3. CASE ~(grp.index >= grp.count \/ msg.position + grp.block > size)
  <2>0. PICK n \in Nat, at \in Nat, eb \in Nat :
          n = grp.index /\ at = msg.position /\ eb = EntryBlk
    BY <1>1, Lengths DEF TypeOK
  <2>1. /\ grp' = [grp EXCEPT !.offset = at, !.index = n + 1]
        /\ msg' = [msg EXCEPT !.position = at + grp.block]
        /\ placed' = [i \in 1..(n + 1) |-> IF i <= n THEN placed[i] ELSE at]
        /\ UNCHANGED <<pc, kind, extra, size, mem, put>>
    BY <1>3, <2>0 DEF NextEntry, object
  <2>2. /\ size \in Nat /\ Start \in Nat /\ Blk \in Nat
        /\ DOMAIN placed = 1..n /\ at # Start /\ Start + 4 <= at
        /\ n = 0 => at = Start + 4
        /\ n > 0 => at = placed[n] + eb
        /\ grp.block = eb /\ grp.start = Start
        /\ \A i \in 1..n : placed[i] \in Nat /\ placed[i] + eb <= at
        /\ Start <= at
    <3>1. /\ size \in Nat /\ Start \in Nat /\ Blk \in Nat /\ DOMAIN placed = 1..n
          /\ n = 0 => at \in {Start, Start + 4}
          /\ n > 0 => at = placed[n] + eb /\ Start + 4 <= at
          /\ at # Start
      BY <1>1, <2>0, Lengths DEF Encoding, Extent, TypeOK
    <3> QED BY <1>1, <2>0, <3>1 DEF Encoding, TypeOK
  <2>3. /\ grp'.index = n + 1 /\ grp'.offset = at /\ grp'.open = grp.open
        /\ grp'.start = Start /\ grp'.block = eb
        /\ msg'.position = at + eb /\ msg'.offset = msg.offset
        /\ msg'.block = msg.block
        /\ grp' \in [open : BOOLEAN, start : Nat, block : Nat, count : Nat,
                     index : Nat, offset : Nat]
        /\ msg' \in [offset : Nat, position : Nat, block : Nat]
    <3>1. /\ grp \in [open : BOOLEAN, start : Nat, block : Nat, count : Nat,
                      index : Nat, offset : Nat]
          /\ msg \in [offset : Nat, position : Nat, block : Nat]
      BY <1>1 DEF TypeOK
    <3>2. /\ grp'.index = n + 1 /\ grp'.offset = at /\ grp'.open = grp.open
          /\ grp'.start = grp.start /\ grp'.block = grp.block
          /\ grp' \in [open : BOOLEAN, start : Nat, block : Nat, count : Nat,
                       index : Nat, offset : Nat]
      <4>1. PICK g : g = [grp EXCEPT !.offset = at]
        OBVIOUS
      <4>2. /\ g.index = n /\ g.offset = at /\ g.open = grp.open
            /\ g.start = grp.start /\ g.block = grp.block
            /\ g \in [open : BOOLEAN, start : Nat, block : Nat, count : Nat,
                     index : Nat, offset : Nat]
        BY <2>0, <3>1, <4>1
      <4>3. n + 1 \in Nat /\ grp' = [g EXCEPT !.index = n + 1]
        BY <2>1, <4>1
      <4> QED BY <4>2, <4>3
    <3>3. at + grp.block \in Nat /\ grp.block = eb /\ grp.start = Start
      BY <2>2
    <3>4. /\ msg'.position = at + grp.block /\ msg'.offset = msg.offset
          /\ msg'.block = msg.block
          /\ msg' \in [offset : Nat, position : Nat, block : Nat]
      BY <2>1, <3>1, <3>3
    <3> QED BY <3>2, <3>3, <3>4
  <2>4. /\ DOMAIN placed' = 1..(n + 1)
        /\ \A i \in 1..n : i \in 1..(n + 1) /\ placed'[i] = placed[i]
        /\ placed'[n + 1] = at
    BY <2>1, <2>2
  <2>5. Blk' = Blk /\ EntryBlk' = eb /\ EntryBlk = eb /\ Start' = Start
        /\ Fields' = Fields /\ EntryFields' = EntryFields
    BY <2>0, <2>1 DEF Blk, EntryBlk, Start, Fields, EntryFields
  <2>6. at + eb <= size
    BY <1>3, <2>0, <2>2
  <2>7. PlacesOK'
    <3>1. ASSUME NEW i \in 1..(n + 1)
          PROVE  i \in Nat \ {0} /\ placed'[i] \in Nat /\ Start + 4 <= placed'[i]
      <4>1. CASE i = n + 1 BY <2>2, <2>4, <4>1
      <4>2. CASE i \in 1..n
        BY <1>1, <2>2, <2>4, <4>2 DEF Encoding, MemOK, PlacesOK
      <4> QED BY <2>2, <4>1, <4>2
    <3>2. ASSUME NEW i \in 1..(n + 1), NEW j \in 1..(n + 1), i < j
          PROVE  placed'[i] + eb <= placed'[j]
      <4>1. CASE j = n + 1 BY <2>2, <2>4, <3>2, <4>1
      <4>2. CASE j \in 1..n
        <5>1. i \in 1..n BY <2>2, <3>2, <4>2
        <5> QED BY <1>1, <2>2, <2>4, <2>5, <3>2, <4>2, <5>1 DEF Encoding, MemOK, PlacesOK
      <4> QED BY <2>2, <4>1, <4>2
    <3> QED BY <2>4, <2>5, <3>1, <3>2 DEF PlacesOK
  <2>8. Laid(mem)'
    <3>1. ASSUME NEW a, NEW l, NEW k, IsPlace(a, l, k) PROVE IsPlace(a, l, k)'
      <4>1. EntryPlace(a, l, k) => EntryPlace(a, l, k)'
        BY <2>2, <2>4, <2>5 DEF EntryPlace
      <4> QED BY <2>5, <3>1, <4>1
              DEF IsPlace, HeaderPlace, GroupPlace, RootPlace
    <3> QED BY <1>1, <2>1, <3>1 DEF Encoding, MemOK, Laid
  <2>9. MemOK'
    BY <1>1, <2>1, <2>5, <2>7, <2>8 DEF Encoding, MemOK, Single, Stored, Has
  <2>10. Extent(n + 1, at + eb)'
    <3>1. Has(mem, GroupKey("blockLength"), eb)
          /\ \E c \in Nat : Has(mem, GroupKey("numInGroup"), c)
      BY <1>1, <2>0, <2>2 DEF Encoding, Extent
    <3>2. ASSUME NEW i \in 1..(n + 1)
          PROVE  /\ i = 1 => placed'[i] = Start + 4
                 /\ i + 1 \in 1..(n + 1) => placed'[i + 1] = placed'[i] + eb
      <4>1. CASE i = n + 1 BY <2>2, <2>4, <4>1
      <4>2. CASE i \in 1..n
        <5>1. /\ i = 1 => placed[i] = Start + 4
              /\ i + 1 \in 1..n => placed[i + 1] = placed[i] + eb
          BY <1>1, <2>0, <2>2, <4>2 DEF Encoding, Extent
        <5>2. CASE i = n BY <2>2, <2>4, <4>2, <5>1, <5>2
        <5>3. CASE i # n
          <6>1. i + 1 \in 1..n BY <2>2, <4>2, <5>3
          <6> QED BY <2>4, <4>2, <5>1, <6>1
        <5> QED BY <5>2, <5>3
      <4> QED BY <2>2, <4>1, <4>2
    <3>3. n + 1 \in Nat /\ n + 1 # 0 /\ at + eb = placed'[n + 1] + eb
          /\ Start + 4 <= at + eb
      BY <2>2, <2>4
    <3> QED BY <2>1, <2>4, <2>5, <3>1, <3>2, <3>3 DEF Extent, Has
  <2>11. Encoding'
    <3>1. \A i \in DOMAIN placed' : placed'[i] + eb <= at + eb
      <4> TAKE i \in DOMAIN placed'
      <4>1. CASE i = n + 1 BY <2>2, <2>4, <4>1
      <4>2. CASE i \in 1..n BY <2>2, <2>4, <4>2
      <4> QED BY <2>2, <2>4, <4>1, <4>2
    <3>2. \A s \in mem' : s.at + s.len <= at + eb
      <4>1. mem' = mem /\ \A s \in mem : s.at + s.len <= at
        BY <1>1, <2>0, <2>1 DEF Encoding
      <4>2. \A s \in mem : s.at \in Nat /\ s.len \in Nat
        BY <1>1 DEF TypeOK
      <4>3. at <= at + eb
        BY <2>2
      <4>4. ASSUME NEW s \in mem PROVE s.at + s.len <= at + eb
        <5>1. PICK e : e \in Nat /\ e = s.at + s.len BY <4>2
        <5>2. e <= at BY <4>1, <5>1
        <5> QED BY <2>2, <5>1, <5>2
      <4> QED BY <4>1, <4>4
    <3>3. Extent(grp.index, msg.position)'
      BY <2>3, <2>10
    <3>4. /\ Start <= at + eb /\ at + eb # Start /\ n + 1 > 0
          /\ grp.open = TRUE
      BY <1>1, <2>2 DEF TypeOK
    <3>5. /\ msg'.offset = 8 /\ msg'.block = Blk
      BY <1>1, <2>3 DEF Encoding, InMessage
    <3> QED BY <2>1, <2>3, <2>4, <2>5, <2>6, <2>9, <3>1, <3>2, <3>3, <3>4, <3>5
            DEF Encoding, InMessage
  <2>12. TypeOK'
    <3>1. \A i \in DOMAIN placed' : placed'[i] \in Nat
      BY <2>7 DEF PlacesOK
    <3> QED BY <1>1, <2>1, <2>3, <3>1 DEF TypeOK
  <2>13. InBounds'
    BY <2>1 DEF IInv, InBounds
  <2> QED BY <2>1, <2>11, <2>12, <2>13 DEF IInv
<1> QED BY <1>2, <1>3

(* The vector is cut behind the last stretch. *)
LEMMA FinishKeeps ==
  ASSUME IInv, Finish PROVE IInv'
<1>1. /\ pc' = "sent" /\ size' = msg.position
      /\ mem' = {s \in mem : s.at < msg.position}
      /\ UNCHANGED <<kind, extra, msg, grp, put, placed>>
      /\ Encoding /\ KindOK /\ TypeOK
  BY DEF Finish, IInv, TypeOK, KindOK, history
<1>2. \A s \in mem : s.at \in Nat /\ s.len \in Nat \ {0}
  BY <1>1, PlaceType DEF Encoding, MemOK, Laid
<1>3. msg.position \in Nat /\ \A s \in mem : s.at + s.len <= msg.position
  BY <1>1 DEF Encoding, TypeOK
<1>4. mem' = mem
  BY <1>1, <1>2, <1>3
<1>5. MemOK'
  BY <1>1, <1>4, PlacesSame DEF Encoding, MemOK, Stored, Single, Has
<1>6. Extent(grp.index, msg.position)
  BY <1>1 DEF Encoding
<1>7. Extent(grp.index, size)'
  BY <1>1, <1>4, <1>6, PlacesSame DEF Extent, Has
<1>8. grp'.index \in Nat
  BY <1>1 DEF TypeOK
<1>9. Sent'
  BY <1>5, <1>7, <1>8 DEF Sent
<1>10. TypeOK' /\ InBounds'
  BY <1>1, <1>3, <1>4 DEF TypeOK, InBounds
<1> QED BY <1>1, <1>9, <1>10 DEF IInv

(* The decoder's steps leave the vector and what was written to it. *)
LEMMA ReaderKeepsStore ==
  ASSUME IInv, UNCHANGED <<kind, extra, size, mem, put, placed>>
  PROVE  /\ MemOK' <=> MemOK
         /\ \A n : Extent(n, size)' <=> Extent(n, size)
         /\ Sent' <=> Sent
         /\ InBounds'
<1>1. MemOK' <=> MemOK
  BY PlacesSame DEF MemOK, Stored, Single, Has
<1>2. ASSUME NEW n PROVE Extent(n, size)' <=> Extent(n, size)
  BY PlacesSame DEF Extent, Has
<1>3. Sent' <=> Sent
  BY <1>1, <1>2 DEF Sent
<1>4. InBounds'
  BY DEF IInv, InBounds
<1> QED BY <1>1, <1>2, <1>3, <1>4

LEMMA WrapDecodeKeeps ==
  ASSUME IInv, WrapForDecode PROVE IInv'
<1>1. pc = "sent" /\ Sent /\ KindOK /\ TypeOK
  BY DEF WrapForDecode, IInv, TypeOK, KindOK
<1>2. Read(mem, 0, 2).value = Blk
  <2>1. IsPlace(0, 2, HeaderKey("blockLength"))
    BY DEF IsPlace, HeaderPlace
  <2>2. Read(mem, 0, 2) = [key |-> HeaderKey("blockLength"), value |-> Blk]
    BY <1>1, <2>1, ReadFinds DEF Sent, MemOK
  <2> QED BY <2>2
<1>3. CASE HeaderLength + Read(mem, 0, 2).value > size
  BY <1>3, ThrowKeeps DEF WrapForDecode
<1>4. CASE ~(HeaderLength + Read(mem, 0, 2).value > size)
  <2>1. /\ msg' = [offset |-> 8, position |-> 8 + Blk, block |-> Blk]
        /\ grp' = NoGroup /\ pc' = "decode"
        /\ UNCHANGED <<kind, extra, size, mem, put, placed>>
    BY <1>2, <1>4 DEF WrapForDecode, HeaderLength, object, history
  <2>2. Blk \in Nat /\ Start = 8 + Blk /\ Start' = Start /\ Blk' = Blk
    BY <1>1, <2>1, Lengths, PlacesSame
  <2>3. Decoding'
    BY <1>1, <2>1, <2>2, ReaderKeepsStore DEF Decoding, InMessage, NoGroup
  <2>4. TypeOK'
    BY <1>1, <2>1, <2>2 DEF TypeOK, NoGroup
  <2> QED BY <2>1, <2>3, <2>4, ReaderKeepsStore DEF IInv
<1> QED BY <1>3, <1>4

LEMMA OpenKeeps ==
  ASSUME IInv, OpenEntries PROVE IInv'
<1>1. /\ pc = "decode" /\ Layout[kind].entryBlock > 0 /\ ~grp.open
      /\ Decoding /\ KindOK /\ TypeOK
  BY DEF OpenEntries, IInv, TypeOK, KindOK
<1>2. CASE msg.position + GroupSizeLength > size
  BY <1>2, ThrowKeeps DEF OpenEntries
<1>3. CASE ~(msg.position + GroupSizeLength > size)
  <2>1. /\ grp' = [open |-> TRUE, start |-> msg.position, index |-> 0, offset |-> 0,
                   block |-> Read(mem, msg.position, 2).value,
                   count |-> Read(mem, msg.position + 2, 2).value]
        /\ msg' = [msg EXCEPT !.position = @ + 4]
        /\ UNCHANGED <<pc, kind, extra, size, mem, put, placed>>
    BY <1>3 DEF OpenEntries, GroupSizeLength, object, history
  <2>2. msg.position = Start /\ Start \in Nat /\ EntryBlk \in Nat /\ size \in Nat
    BY <1>1, Lengths DEF Decoding, TypeOK
  <2>3. size # Start
    BY <1>3, <2>2 DEF GroupSizeLength
  <2>4. PICK n \in Nat : Extent(n, size)
    BY <1>1 DEF Decoding, Sent
  <2>5. PICK c \in Nat : /\ Has(mem, GroupKey("blockLength"), EntryBlk)
                         /\ Has(mem, GroupKey("numInGroup"), c)
    BY <2>3, <2>4 DEF Extent
  <2>6. Read(mem, msg.position, 2).value = EntryBlk
    <3>1. IsPlace(Start, 2, GroupKey("blockLength"))
      BY DEF IsPlace, GroupPlace
    <3>2. Read(mem, Start, 2) = [key |-> GroupKey("blockLength"), value |-> EntryBlk]
      BY <1>1, <2>5, <3>1, ReadFinds DEF Decoding, Sent, MemOK
    <3> QED BY <2>2, <3>2
  <2>7. Read(mem, msg.position + 2, 2).value = c
    <3>1. PICK at : at = Start + 2
      OBVIOUS
    <3>2. IsPlace(at, 2, GroupKey("numInGroup"))
      BY <3>1 DEF IsPlace, GroupPlace
    <3>3. Read(mem, at, 2) = [key |-> GroupKey("numInGroup"), value |-> c]
      BY <1>1, <2>5, <3>2, ReadFinds DEF Decoding, Sent, MemOK
    <3> QED BY <2>2, <3>1, <3>3
  <2>8. /\ msg'.position = Start + 4 /\ msg'.offset = msg.offset
        /\ msg'.block = msg.block
        /\ msg' \in [offset : Nat, position : Nat, block : Nat]
    BY <1>1, <2>1, <2>2 DEF TypeOK
  <2>9. /\ grp'.open /\ grp'.index = 0 /\ grp'.block = EntryBlk
        /\ grp' \in [open : BOOLEAN, start : Nat, block : Nat, count : Nat,
                     index : Nat, offset : Nat]
    BY <2>1, <2>2, <2>6, <2>7
  <2>10. Decoding'
    BY <1>1, <2>1, <2>3, <2>8, <2>9, ReaderKeepsStore, PlacesSame
       DEF Decoding, InMessage
  <2>11. TypeOK'
    BY <1>1, <2>1, <2>8, <2>9 DEF TypeOK
  <2> QED BY <1>1, <2>1, <2>10, <2>11, ReaderKeepsStore DEF IInv
<1> QED BY <1>2, <1>3

(* next() in a decoder: what it does not refuse was written. *)
LEMMA NextDecodeKeeps ==
  ASSUME IInv, pc = "decode", NextEntry PROVE IInv'
<1>1. grp.open /\ Decoding /\ KindOK /\ TypeOK
  BY DEF NextEntry, IInv, TypeOK, KindOK
<1>2. CASE grp.index >= grp.count \/ msg.position + grp.block > size
  BY <1>2, ThrowKeeps DEF NextEntry
<1>3. CASE ~(grp.index >= grp.count \/ msg.position + grp.block > size)
  <2>0. PICK i \in Nat, at \in Nat, eb \in Nat :
          i = grp.index /\ at = msg.position /\ eb = EntryBlk
    BY <1>1, Lengths DEF TypeOK
  <2>1. /\ grp' = [grp EXCEPT !.offset = at, !.index = i + 1]
        /\ msg' = [msg EXCEPT !.position = at + grp.block]
        /\ UNCHANGED <<pc, kind, extra, size, mem, put, placed>>
    BY <1>1, <1>3, <2>0 DEF NextEntry, object
  <2>2. PICK n \in Nat : Extent(n, size)
    BY <1>1 DEF Decoding, Sent
  <2>3. /\ grp.block = eb /\ eb > 0 /\ at + eb <= size /\ size \in Nat
        /\ Start \in Nat /\ size # Start /\ DOMAIN placed = 1..n
        /\ i = 0 => at = Start + 4
        /\ i > 0 => i \in 1..n /\ at = placed[i] + eb
        /\ n = 0 => size = Start + 4
        /\ n > 0 => size = placed[n] + eb
        /\ \A k \in 1..n : placed[k] \in Nat
    <3>1. /\ size \in Nat /\ Start \in Nat /\ eb > 0
      BY <1>1, <2>0, Lengths DEF Decoding, TypeOK
    <3>2. /\ grp.block = eb /\ size # Start
          /\ i = 0 => at = Start + 4
          /\ i > 0 => i \in DOMAIN placed /\ at = placed[i] + eb
      BY <1>1, <2>0 DEF Decoding
    <3>3. /\ DOMAIN placed = 1..n
          /\ n = 0 => size = Start + 4
          /\ n > 0 => size = placed[n] + eb
      BY <2>0, <2>2, <3>2 DEF Extent
    <3>4. at + eb <= size
      BY <1>3, <2>0, <3>1, <3>2
    <3>5. \A k \in 1..n : placed[k] \in Nat
      BY <1>1, <3>3 DEF TypeOK
    <3> QED BY <3>1, <3>2, <3>3, <3>4, <3>5
  <2>4. i + 1 \in 1..n
    <3>1. i # n
      BY <2>3
    <3> QED BY <2>3, <3>1
  <2>5. at = placed[i + 1]
    BY <2>0, <2>2, <2>3, <2>4 DEF Extent
  <2>6. PICK g : g = [grp EXCEPT !.offset = at]
    OBVIOUS
  <2>7. /\ g.index = i /\ g.offset = at /\ g.open = grp.open
        /\ g.start = grp.start /\ g.block = grp.block
        /\ g \in [open : BOOLEAN, start : Nat, block : Nat, count : Nat,
                 index : Nat, offset : Nat]
    BY <1>1, <2>0, <2>6 DEF TypeOK
  <2>8. i + 1 \in Nat /\ grp' = [g EXCEPT !.index = i + 1]
    BY <2>1, <2>6
  <2>9. /\ grp'.index = i + 1 /\ grp'.offset = at /\ grp'.open = grp.open
        /\ grp'.block = eb
        /\ grp' \in [open : BOOLEAN, start : Nat, block : Nat, count : Nat,
                     index : Nat, offset : Nat]
    BY <2>3, <2>7, <2>8
  <2>10. /\ msg'.position = at + eb /\ msg'.offset = msg.offset
         /\ msg'.block = msg.block
         /\ msg' \in [offset : Nat, position : Nat, block : Nat]
    <3>1. at + grp.block = at + eb /\ at + eb \in Nat
      BY <2>3
    <3> QED BY <1>1, <2>1, <3>1 DEF TypeOK
  <2>11. Decoding'
    BY <1>1, <2>0, <2>1, <2>3, <2>4, <2>5, <2>9, <2>10, ReaderKeepsStore, PlacesSame
       DEF Decoding, InMessage
  <2>12. TypeOK'
    BY <1>1, <2>1, <2>9, <2>10 DEF TypeOK
  <2> QED BY <2>1, <2>11, <2>12, ReaderKeepsStore DEF IInv
<1> QED BY <1>2, <1>3

LEMMA RewindKeeps ==
  ASSUME IInv, Rewind PROVE IInv'
<1>1. /\ pc = "decode" /\ Decoding /\ KindOK /\ TypeOK
      /\ msg' = [msg EXCEPT !.position = msg.offset + msg.block]
      /\ grp' = NoGroup
      /\ UNCHANGED <<pc, kind, extra, size, mem, put, placed>>
  BY DEF Rewind, IInv, TypeOK, KindOK, object, history
<1>2. msg.offset = 8 /\ msg.block = Blk /\ Blk \in Nat /\ Start = 8 + Blk
  BY <1>1, Lengths DEF Decoding, InMessage
<1>3. /\ msg'.position = Start /\ msg'.offset = msg.offset
      /\ msg'.block = msg.block
      /\ msg' \in [offset : Nat, position : Nat, block : Nat]
  BY <1>1, <1>2 DEF TypeOK
<1>4. Decoding'
  BY <1>1, <1>3, ReaderKeepsStore, PlacesSame DEF Decoding, InMessage, NoGroup
<1>5. TypeOK'
  BY <1>1, <1>3 DEF TypeOK, NoGroup
<1> QED BY <1>1, <1>4, <1>5, ReaderKeepsStore DEF IInv

-----------------------------------------------------------------------------
LEMMA NextIInv == IInv /\ [Next]_vars => IInv'
<1> SUFFICES ASSUME IInv, [Next]_vars PROVE IInv'
  OBVIOUS
<1>1. CASE UNCHANGED vars
  <2>1. UNCHANGED <<pc, kind, extra, size, mem, msg, grp, put, placed>>
    BY <1>1 DEF vars
  <2>2. TypeOK'
    BY <2>1 DEF IInv, TypeOK
  <2>3. Encoding' <=> Encoding
    BY <2>1, PlacesSame DEF Encoding, MemOK, Stored, Single, Has, InMessage, Extent
  <2>4. Decoding' <=> Decoding
    BY <2>1, PlacesSame, ReaderKeepsStore DEF Decoding, InMessage
  <2> QED BY <2>1, <2>2, <2>3, <2>4, ReaderKeepsStore DEF IInv
<1>2. CASE Encode
  <2>1. ASSUME NEW f, NEW tooLong, NEW value \in MayPut(Fields[f]), Put(f, value, tooLong)
        PROVE  IInv'
    BY <2>1, PutKeeps, FlyweightAssumption DEF MayPut
  <2>2. ASSUME NEW f, NEW value \in MayPut(EntryFields[f]), PutEntry(f, value)
        PROVE  IInv'
    BY <2>2, PutEntryKeeps, FlyweightAssumption DEF MayPut
  <2>3. ASSUME NEW count \in 0..(MaxCount + 1), CountEntries(count) PROVE IInv'
    BY <2>3, CountKeeps, FlyweightAssumption
  <2> QED BY <1>2, <2>1, <2>2, <2>3, WrapKeeps, ResetKeeps, FinishKeeps DEF Encode
<1>3. CASE NextEntry
  BY <1>3, NextEncodeKeeps, NextDecodeKeeps DEF NextEntry
<1>4. CASE Decode
  BY <1>4, WrapDecodeKeeps, OpenKeeps, RewindKeeps DEF Decode
<1> QED BY <1>1, <1>2, <1>3, <1>4 DEF Next

(* What the getters return, from what is stored. *)
LEMMA GetterReturns ==
  ASSUME IInv, pc = "decode", NEW base, NEW field, NEW key, key.entry \in Nat,
         field.type # "constant" => IsPlace(base + field.at, field.len, key),
         field.type = "constant" => key \notin DOMAIN put,
         ~(base + field.end > size)
  PROVE  Returns(base, field, key)
<1>1. MemOK /\ KindOK
  BY DEF IInv, Decoding, Sent, TypeOK, KindOK
<1> DEFINE set == IF key \in DOMAIN put THEN put[key] ELSE 0
           found == [key |-> IF key \in DOMAIN put \/ field.type = "constant"
                             THEN key ELSE Zero.key,
                     value |-> set]
<1>2. Plain(base, field, key) = found
  <2>1. CASE field.type = "constant"
    BY <2>1 DEF Plain
  <2>2. CASE field.type # "constant" /\ key \in DOMAIN put
    <3>1. Has(mem, key, put[key])
      BY <1>1, <2>2 DEF MemOK, Stored
    <3>2. PICK at : at = base + field.at
      OBVIOUS
    <3>3. Read(mem, at, field.len) = [key |-> key, value |-> put[key]]
      BY <1>1, <2>2, <3>1, <3>2, ReadFinds DEF MemOK
    <3> QED BY <2>2, <3>2, <3>3 DEF Plain
  <2>3. CASE field.type # "constant" /\ key \notin DOMAIN put
    <3>1. \A s \in mem : s.key # key
      BY <1>1, <2>3 DEF MemOK, Stored
    <3>2. PICK at : at = base + field.at
      OBVIOUS
    <3>3. Read(mem, at, field.len) = Zero
      BY <1>1, <2>3, <3>1, <3>2, ReadFinds DEF MemOK
    <3> QED BY <2>3, <3>2, <3>3 DEF Plain, Zero
  <2> QED BY <2>1, <2>2, <2>3
<1>3. found.value = set
  OBVIOUS
<1> HIDE DEF found, set
<1>4. GetAt(base, field, key) =
        IF field.type = "enum" /\ set \notin field.codes THEN Absent ELSE found
  BY <1>2, <1>3 DEF GetAt
<1> QED BY <1>4 DEF Returns, found, set

LEMMA IInvRoundTrip == IInv => RoundTrip
<1> SUFFICES ASSUME IInv, pc = "decode"
             PROVE  /\ \A f \in DOMAIN Fields : Returns(msg.offset, Fields[f], RootKey(f))
                    /\ grp.index > 0 =>
                         \A f \in DOMAIN EntryFields :
                           Returns(grp.offset, EntryFields[f], EntryKey(grp.index, f))
  BY DEF RoundTrip
<1>1. Decoding /\ MemOK /\ KindOK /\ TypeOK
  BY DEF IInv, Decoding, Sent, TypeOK, KindOK
<1>2. PICK n \in Nat : Extent(n, size)
  BY <1>1 DEF Decoding, Sent
<1>3. Start <= size /\ size \in Nat /\ Start \in Nat /\ Start = 8 + Blk /\ Blk \in Nat
  <2>1. Start \in Nat /\ Start = 8 + Blk /\ Blk \in Nat /\ size \in Nat
    BY <1>1, Lengths DEF TypeOK
  <2>2. n = 0 => size \in {Start, Start + 4}
    BY <1>2 DEF Extent
  <2>3. n > 0 => Start + 4 <= size
    BY <1>2 DEF Extent
  <2> QED BY <2>1, <2>2, <2>3
<1>4. ASSUME NEW k, k \in DOMAIN put
      PROVE  \E a, l : IsPlace(a, l, k)
  BY <1>1, <1>4 DEF MemOK, Stored, Laid, Has
<1>5. ASSUME NEW f \in DOMAIN Fields
      PROVE  Returns(msg.offset, Fields[f], RootKey(f))
  <2>1. RootKey(f).entry = 0 /\ RootKey(f).name = f
    BY DEF RootKey
  <2>2. Fields[f].type # "constant" =>
          IsPlace(msg.offset + Fields[f].at, Fields[f].len, RootKey(f))
    BY <1>1 DEF IsPlace, RootPlace, Decoding, InMessage, HeaderLength
  <2>3. Fields[f].type = "constant" => RootKey(f) \notin DOMAIN put
    <3> SUFFICES ASSUME RootKey(f) \in DOMAIN put PROVE Fields[f].type # "constant"
      OBVIOUS
    <3>1. PICK a, l : IsPlace(a, l, RootKey(f)) BY <1>4
    <3>2. RootPlace(a, l, RootKey(f)) BY <1>1, <2>1, <3>1, PlaceParts DEF MemOK
    <3>3. PICK g \in DOMAIN Fields : Fields[g].type # "constant" /\ RootKey(f) = RootKey(g)
      BY <3>2 DEF RootPlace
    <3> QED BY <3>3 DEF RootKey
  <2>4. ~(msg.offset + Fields[f].end > size)
    <3>1. Fields[f].end \in Nat /\ Fields[f].end <= Layout[kind].block
          /\ Layout[kind].block \in Nat /\ Layout[kind].block <= Blk
      BY <1>1, Lengths DEF SoundTable
    <3> QED BY <1>1, <1>3, <3>1 DEF Decoding, InMessage
  <2> QED BY <2>1, <2>2, <2>3, <2>4, GetterReturns
<1>6. ASSUME grp.index > 0, NEW f \in DOMAIN EntryFields
      PROVE  Returns(grp.offset, EntryFields[f], EntryKey(grp.index, f))
  <2>1. /\ grp.index \in Nat \ {0} /\ grp.index \in DOMAIN placed
        /\ grp.offset = placed[grp.index] /\ placed[grp.index] \in Nat
        /\ placed[grp.index] + EntryBlk <= size
    <3>1. /\ grp.index \in Nat \ {0} /\ grp.open
          /\ grp.index \in DOMAIN placed /\ grp.offset = placed[grp.index]
      BY <1>1, <1>6 DEF Decoding, TypeOK
    <3>2. DOMAIN placed = 1..n /\ \A i \in DOMAIN placed : placed[i] \in Nat
      BY <1>1, <1>2 DEF Extent, TypeOK
    <3>3. n > 0 /\ size = placed[n] + EntryBlk /\ n \in DOMAIN placed
      BY <1>2, <3>1, <3>2 DEF Extent
    <3>4. EntryBlk \in Nat
      BY <1>1, Lengths
    <3>5. CASE grp.index = n BY <1>3, <3>1, <3>2, <3>3, <3>4, <3>5
    <3>6. CASE grp.index # n
      <4>1. grp.index < n BY <3>1, <3>2, <3>6
      <4>2. placed[grp.index] + EntryBlk <= placed[n]
        BY <1>1, <3>1, <3>3, <4>1 DEF MemOK, PlacesOK
      <4> QED BY <1>3, <3>1, <3>2, <3>3, <3>4, <4>2
    <3> QED BY <3>5, <3>6
  <2>2. /\ EntryKey(grp.index, f).entry = grp.index
        /\ EntryKey(grp.index, f).name = f
    BY DEF EntryKey
  <2>3. EntryFields[f].type # "constant" =>
          IsPlace(grp.offset + EntryFields[f].at, EntryFields[f].len, EntryKey(grp.index, f))
    BY <2>1 DEF IsPlace, EntryPlace
  <2>4. EntryFields[f].type = "constant" => EntryKey(grp.index, f) \notin DOMAIN put
    <3> SUFFICES ASSUME EntryKey(grp.index, f) \in DOMAIN put
                 PROVE  EntryFields[f].type # "constant"
      OBVIOUS
    <3>1. PICK a, l : IsPlace(a, l, EntryKey(grp.index, f)) BY <1>4
    <3>2. EntryPlace(a, l, EntryKey(grp.index, f))
      BY <1>1, <2>1, <2>2, <3>1, PlaceParts DEF MemOK
    <3>3. PICK i \in DOMAIN placed, g \in DOMAIN EntryFields :
            EntryFields[g].type # "constant" /\ EntryKey(grp.index, f) = EntryKey(i, g)
      BY <3>2 DEF EntryPlace
    <3> QED BY <3>3 DEF EntryKey
  <2>5. ~(grp.offset + EntryFields[f].end > size)
    <3>1. EntryFields[f].end \in Nat /\ EntryFields[f].end <= Layout[kind].entryBlock
          /\ Layout[kind].entryBlock \in Nat /\ Layout[kind].entryBlock <= EntryBlk
          /\ EntryBlk \in Nat
      BY <1>1, Lengths DEF SoundTable
    <3> QED BY <1>3, <2>1, <3>1
  <2> QED BY <2>1, <2>2, <2>3, <2>4, <2>5, GetterReturns
<1> QED BY <1>5, <1>6

-----------------------------------------------------------------------------
(* The codec's objects and the buffer keep their types. *)
THEOREM FlyweightTyped == Spec => []TypeOK
<1>1. IInv => TypeOK BY DEF IInv
<1> QED BY <1>1, InitIInv, NextIInv, PTL DEF Spec

(* For every sound layout, every length of vector, and every use: no       *)
(* setter writes outside of the vector.                                    *)
THEOREM WritesInBounds == Spec => []InBounds
<1>1. IInv => InBounds BY DEF IInv
<1> QED BY <1>1, InitIInv, NextIInv, PTL DEF Spec

(* And every getter of a decoder returns what the encoder set, in an entry *)
(* as in the block, also behind blocks that a later schema made longer.    *)
THEOREM FieldsRoundTrip == Spec => []RoundTrip
BY InitIInv, NextIInv, IInvRoundTrip, PTL DEF Spec

-----------------------------------------------------------------------------
(* The calls of the encoder *)

Ops == {"wrap", "put", "count", "next", "entry"}
Names ==
  {"", "securityUpdateAction", "lastUpdateTime", "securityID", "symbol", "currency1",
   "currency2", "transactTime", "rptSeq", "mDUpdateAction", "mDEntryType",
   "mDEntryPx.mantissa", "mDEntrySize", "aggressorSide"}
CallType == [op : Ops, field : Names, value : Nat, tooLong : BOOLEAN]

LEMMA CallKinds ==
  /\ Wrap \in CallType /\ Wrap.op = "wrap" /\ NextCall \in CallType /\ NextCall.op = "next"
  /\ \A n \in Nat : Count(n) \in CallType /\ Count(n).op = "count" /\ Count(n).value = n
  /\ \A f \in Names, v \in Nat :
       /\ Set(f, v) \in CallType /\ Set(f, v).op = "put"
       /\ Set(f, v).field = f /\ Set(f, v).value = v
       /\ SetEntry(f, v) \in CallType /\ SetEntry(f, v).op = "entry"
       /\ SetEntry(f, v).field = f /\ SetEntry(f, v).value = v
<1>1. /\ "" \in Names /\ "wrap" \in Ops /\ "put" \in Ops /\ "count" \in Ops
      /\ "next" \in Ops /\ "entry" \in Ops /\ 0 \in Nat
  BY DEF Names, Ops
<1>2. Wrap \in CallType /\ Wrap.op = "wrap" BY <1>1 DEF CallType, Call, Wrap
<1>3. NextCall \in CallType /\ NextCall.op = "next" BY <1>1 DEF CallType, Call, NextCall
<1>4. \A n \in Nat : Count(n) \in CallType /\ Count(n).op = "count" /\ Count(n).value = n
  BY <1>1 DEF CallType, Call, Count
<1>5. \A f \in Names, v \in Nat :
        /\ Set(f, v) \in CallType /\ Set(f, v).op = "put"
        /\ Set(f, v).field = f /\ Set(f, v).value = v
  BY <1>1 DEF CallType, Call, Set
<1>6. \A f \in Names, v \in Nat :
        /\ SetEntry(f, v) \in CallType /\ SetEntry(f, v).op = "entry"
        /\ SetEntry(f, v).field = f /\ SetEntry(f, v).value = v
  BY <1>1 DEF CallType, Call, SetEntry
<1> QED BY <1>2, <1>3, <1>4, <1>5, <1>6

LEMMA LevelCallsTyped ==
  ASSUME NEW type \in Nat, NEW level \in PriceLevel
  PROVE  \A r \in 1..4 : LevelCalls(type, level)[r] \in CallType
<1>1. Mantissa(level.price) \in Nat /\ level.quantity \in Nat
  BY DEF PriceLevel, Mantissa
<1>2. /\ NextCall \in CallType /\ SetEntry("mDEntryType", type) \in CallType
      /\ SetEntry("mDEntryPx.mantissa", Mantissa(level.price)) \in CallType
      /\ SetEntry("mDEntrySize", level.quantity) \in CallType
  <2>1. {"mDEntryType", "mDEntryPx.mantissa", "mDEntrySize"} \subseteq Names
    BY DEF Names
  <2> QED BY <1>1, <2>1, CallKinds
<1> QED BY <1>2 DEF LevelCalls

(* The place in a row of levels of call j of a side. *)
LEMMA FourCalls ==
  \A n \in Nat : \A j \in 1..(4 * n) :
    ((j - 1) \div 4) + 1 \in 1..n /\ ((j - 1) % 4) + 1 \in 1..4
OBVIOUS

LEMMA SideCallsTyped ==
  ASSUME NEW type \in Nat, NEW levels \in Seq(PriceLevel)
  PROVE  /\ SideCalls(type, levels) \in Seq(CallType)
         /\ Len(SideCalls(type, levels)) = 4 * Len(levels)
         /\ \A j \in 1..(4 * Len(levels)) :
              SideCalls(type, levels)[j]
                = LevelCalls(type, levels[((j - 1) \div 4) + 1])[((j - 1) % 4) + 1]
<1>1. PICK n \in Nat : n = Len(levels) OBVIOUS
<1>2. \A i \in 1..n : levels[i] \in PriceLevel BY <1>1
<1>3. ASSUME NEW j \in 1..(4 * n)
      PROVE  LevelCalls(type, levels[((j - 1) \div 4) + 1])[((j - 1) % 4) + 1] \in CallType
  <2>1. PICK i \in 1..n, r \in 1..4 : i = ((j - 1) \div 4) + 1 /\ r = ((j - 1) % 4) + 1
    BY FourCalls
  <2>2. LevelCalls(type, levels[i])[r] \in CallType BY <1>2, <2>1, LevelCallsTyped
  <2> QED BY <2>1, <2>2
<1>4. SideCalls(type, levels) =
        [j \in 1..(4 * n) |-> LevelCalls(type, levels[((j - 1) \div 4) + 1])[((j - 1) % 4) + 1]]
  BY <1>1 DEF SideCalls
<1>5. 4 * n \in Nat OBVIOUS
<1>6. PICK m \in Nat : m = 4 * n BY <1>5
<1> DEFINE C(j) == LevelCalls(type, levels[((j - 1) \div 4) + 1])[((j - 1) % 4) + 1]
<1>7. \A j \in 1..m : C(j) \in CallType BY <1>3, <1>6
<1>8. SideCalls(type, levels) = [j \in 1..m |-> C(j)] BY <1>4, <1>6
<1>9. \A j \in 1..m : SideCalls(type, levels)[j] = C(j) BY <1>8
<1> HIDE DEF C
<1>10. SideCalls(type, levels) \in Seq(CallType) /\ Len(SideCalls(type, levels)) = m
  BY <1>7, <1>8
<1> QED BY <1>1, <1>6, <1>9, <1>10 DEF C

Levels(e) == Len(e.bids) + Len(e.asks)
EntryOf(j) == (j - 2) \div 4       \* the entry that call j of a snapshot is for
TypeOf(e, i) == IF i <= Len(e.bids) THEN BID ELSE OFFER
LevelOf(e, i) == IF i <= Len(e.bids) THEN e.bids[i] ELSE e.asks[i - Len(e.bids)]

LEMMA EntriesOf ==
  \A n \in Nat : \A j \in 6..(5 + 4 * n) : EntryOf(j) \in 1..n
BY DEF EntryOf

BlockNames == {"securityID", "transactTime", "rptSeq"}

LEMMA SnapshotCalls ==
  ASSUME NEW e \in Event, e.kind = "SNAPSHOT"
  PROVE  /\ Snapshot(e) \in Seq(CallType) /\ Len(Snapshot(e)) = 5 + 4 * Levels(e)
         /\ Levels(e) \in Nat
         /\ Snapshot(e)[1].op = "wrap"
         /\ \A j \in 2..4 : Snapshot(e)[j].op = "put" /\ Snapshot(e)[j].field \in BlockNames
         /\ Snapshot(e)[5].op = "count" /\ Snapshot(e)[5].value = Levels(e) % CountModulus
         /\ \A j \in 6..(5 + 4 * Levels(e)) :
              Snapshot(e)[j]
                = LevelCalls(TypeOf(e, EntryOf(j)), LevelOf(e, EntryOf(j)))[((j - 2) % 4) + 1]
<1>1. /\ {e.id, e.time, e.seq} \subseteq Nat
      /\ e.bids \in Seq(PriceLevel) /\ e.asks \in Seq(PriceLevel)
  BY EventAssumption
<1>2. PICK b \in Nat : b = Len(e.bids) BY <1>1
<1>3. PICK a \in Nat : a = Len(e.asks) BY <1>1
<1>4. Levels(e) = b + a BY <1>2, <1>3 DEF Levels
<1>5. PICK k : k = (b + a) % CountModulus OBVIOUS
<1>6. k \in Nat BY <1>5, EncoderAssumption
<1>7. PICK h : h = <<Wrap, Set("securityID", e.id), Set("transactTime", e.time),
                     Set("rptSeq", e.seq), Count(k)>>
  OBVIOUS
<1>8. /\ h \in Seq(CallType) /\ Len(h) = 5 /\ h[1].op = "wrap"
      /\ h[2].op = "put" /\ h[3].op = "put" /\ h[4].op = "put"
      /\ {h[2].field, h[3].field, h[4].field} \subseteq BlockNames
      /\ h[5].op = "count" /\ h[5].value = k
  <2>1. {"securityID", "transactTime", "rptSeq"} \subseteq Names BY DEF Names
  <2>2. /\ Wrap \in CallType /\ Wrap.op = "wrap"
        /\ Set("securityID", e.id) \in CallType /\ Set("securityID", e.id).op = "put"
        /\ Set("transactTime", e.time) \in CallType /\ Set("transactTime", e.time).op = "put"
        /\ Set("rptSeq", e.seq) \in CallType /\ Set("rptSeq", e.seq).op = "put"
        /\ Set("securityID", e.id).field \in BlockNames
        /\ Set("transactTime", e.time).field \in BlockNames
        /\ Set("rptSeq", e.seq).field \in BlockNames
        /\ Count(k) \in CallType /\ Count(k).op = "count" /\ Count(k).value = k
    BY <1>1, <1>6, <2>1, CallKinds DEF BlockNames
  <2> QED BY <1>7, <2>2
<1>9. PICK s : s = SideCalls(BID, e.bids) OBVIOUS
<1>10. PICK t : t = SideCalls(OFFER, e.asks) OBVIOUS
<1>11. /\ s \in Seq(CallType) /\ Len(s) = 4 * b
       /\ \A j \in 1..(4 * b) :
            s[j] = LevelCalls(BID, e.bids[((j - 1) \div 4) + 1])[((j - 1) % 4) + 1]
  BY <1>1, <1>2, <1>9, SideCallsTyped DEF BID
<1>12. /\ t \in Seq(CallType) /\ Len(t) = 4 * a
       /\ \A j \in 1..(4 * a) :
            t[j] = LevelCalls(OFFER, e.asks[((j - 1) \div 4) + 1])[((j - 1) % 4) + 1]
  BY <1>1, <1>3, <1>10, SideCallsTyped DEF OFFER
<1>13. PICK u : u = h \o s OBVIOUS
<1>14. PICK w : w = u \o t OBVIOUS
<1>15. Snapshot(e) = w
  BY <1>2, <1>3, <1>5, <1>7, <1>9, <1>10, <1>13, <1>14 DEF Snapshot
<1>16. /\ u \in Seq(CallType) /\ Len(u) = Len(h) + Len(s)
       /\ \A j \in 1..(Len(h) + Len(s)) : u[j] = IF j <= Len(h) THEN h[j] ELSE s[j - Len(h)]
  BY <1>8, <1>11, <1>13, ConcatProperties
<1>17. /\ w \in Seq(CallType) /\ Len(w) = Len(u) + Len(t)
       /\ \A j \in 1..(Len(u) + Len(t)) : w[j] = IF j <= Len(u) THEN u[j] ELSE t[j - Len(u)]
  <2>1. u \in Seq(CallType) /\ t \in Seq(CallType) BY <1>12, <1>16
  <2> QED BY <1>14, <2>1, ConcatProperties
<1>18. Len(u) = 5 + 4 * b /\ Len(w) = 5 + 4 * (b + a)
  BY <1>8, <1>11, <1>12, <1>16, <1>17
<1>19. \A j \in 1..5 : w[j] = h[j]
  <2> TAKE j \in 1..5
  <2>1. j <= Len(h) /\ j <= Len(u) /\ j \in 1..(Len(h) + Len(s)) /\ j \in 1..(Len(u) + Len(t))
    BY <1>8, <1>11, <1>12, <1>18
  <2> QED BY <1>16, <1>17, <2>1
<1>20. ASSUME NEW j \in 6..(5 + 4 * (b + a))
       PROVE  w[j] = LevelCalls(TypeOf(e, EntryOf(j)), LevelOf(e, EntryOf(j)))[((j - 2) % 4) + 1]
  <2>1. j \in Nat /\ j \in 1..(Len(u) + Len(t)) BY <1>12, <1>18
  <2>2. CASE j <= 5 + 4 * b
    <3>1. w[j] = s[j - 5] /\ j - 5 \in 1..(4 * b)
      BY <1>8, <1>11, <1>16, <1>17, <1>18, <2>1, <2>2
    <3>2. ((j - 5 - 1) \div 4) + 1 = EntryOf(j) /\ ((j - 5 - 1) % 4) = (j - 2) % 4
      BY <2>1 DEF EntryOf
    <3>3. w[j] = LevelCalls(BID, e.bids[EntryOf(j)])[((j - 2) % 4) + 1]
      BY <1>11, <3>1, <3>2
    <3>4. EntryOf(j) \in 1..b BY <2>2, EntriesOf
    <3> QED BY <1>2, <3>3, <3>4 DEF TypeOf, LevelOf
  <2>3. CASE j > 5 + 4 * b
    <3>1. w[j] = t[j - (5 + 4 * b)] /\ j - (5 + 4 * b) \in 1..(4 * a)
      BY <1>12, <1>17, <1>18, <2>1, <2>3
    <3>2. /\ ((j - (5 + 4 * b) - 1) \div 4) + 1 = EntryOf(j) - b
          /\ ((j - (5 + 4 * b) - 1) % 4) = (j - 2) % 4
      BY <2>1, <2>3 DEF EntryOf
    <3>3. w[j] = LevelCalls(OFFER, e.asks[EntryOf(j) - b])[((j - 2) % 4) + 1]
      BY <1>12, <3>1, <3>2
    <3>4. EntryOf(j) \in Nat /\ ~(EntryOf(j) <= b) BY <2>1, <2>3 DEF EntryOf
    <3> QED BY <1>2, <3>3, <3>4 DEF TypeOf, LevelOf
  <2> QED BY <2>1, <2>2, <2>3
<1>21. /\ w[1].op = "wrap"
       /\ \A j \in 2..4 : w[j].op = "put" /\ w[j].field \in BlockNames
       /\ w[5].op = "count" /\ w[5].value = k
  <2>1. w[1] = h[1] /\ w[2] = h[2] /\ w[3] = h[3] /\ w[4] = h[4] /\ w[5] = h[5] BY <1>19
  <2>2. \A j \in 2..4 : j = 2 \/ j = 3 \/ j = 4 OBVIOUS
  <2> QED BY <1>8, <2>1, <2>2
<1>22. b + a \in Nat OBVIOUS
<1> QED BY <1>4, <1>5, <1>15, <1>17, <1>18, <1>20, <1>21, <1>22

LEMMA TupleTyped ==
  ASSUME NEW S
  PROVE  /\ << >> \in Seq(S)
         /\ \A a \in S : <<a>> \in Seq(S)
         /\ \A a, b, c, d, e, f, g \in S : <<a, b, c, d, e, f, g>> \in Seq(S)
         /\ \A a, b, c, d, e, f, g, h \in S : <<a, b, c, d, e, f, g, h>> \in Seq(S)
         /\ \A a, b, c, d, e, f, g, h, i, j \in S :
              <<a, b, c, d, e, f, g, h, i, j>> \in Seq(S)
OBVIOUS

(* Whatever the event, its calls are calls with natural numbers. *)
LEMMA CallsTyped ==
  ASSUME NEW e \in Event \cup {Other}
  PROVE  CallsOf(e) \in Seq(CallType)
<1>1. {"securityUpdateAction", "lastUpdateTime", "securityID", "symbol", "currency1",
       "currency2", "transactTime", "rptSeq", "mDUpdateAction", "mDEntryType",
       "mDEntryPx.mantissa", "mDEntrySize", "aggressorSide"} \subseteq Names
  BY DEF Names
<1>2. CASE e.kind = "HEARTBEAT"
  <2>1. Heartbeat \in Seq(CallType) BY CallKinds, TupleTyped DEF Heartbeat
  <2> QED BY <1>2, <2>1 DEF CallsOf
<1>3. CASE e.kind = "SECDEF"
  <2>1. {e.time, e.id, e.symbol} \subseteq Nat /\ e.longSymbol \in BOOLEAN
    BY <1>3, EventAssumption DEF Other
  <2>2. Call("put", "symbol", e.symbol, e.longSymbol) \in CallType
    BY <2>1 DEF CallType, Call, Ops, Names
  <2>3. /\ Wrap \in CallType /\ Set("securityUpdateAction", 65) \in CallType
        /\ Set("lastUpdateTime", e.time) \in CallType /\ Set("securityID", e.id) \in CallType
        /\ Set("currency1", 840) \in CallType /\ Set("currency2", 978) \in CallType
    BY <1>1, <2>1, CallKinds
  <2>4. Definition(e) \in Seq(CallType)
    BY <2>2, <2>3, TupleTyped DEF Definition
  <2> QED BY <1>3, <2>4 DEF CallsOf
<1>4. CASE e.kind = "SNAPSHOT"
  <2>1. Snapshot(e) \in Seq(CallType)
    BY <1>4, SnapshotCalls DEF Other
  <2> QED BY <1>4, <2>1 DEF CallsOf
<1>5. CASE e.kind = "QUOTE"
  <2>1. {e.id, e.time, e.seq, e.price, e.quantity} \subseteq Nat /\ e.action \in Action
    BY <1>5, EventAssumption DEF Other
  <2>2. /\ ActionValue(e.action) \in Nat /\ Mantissa(e.price) \in Nat
        /\ (IF e.side = "BID" THEN BID ELSE OFFER) \in Nat
    BY <2>1 DEF ActionValue, Action, Mantissa, BID, OFFER
  <2>3. /\ Wrap \in CallType /\ Count(1) \in CallType /\ NextCall \in CallType
        /\ Set("securityID", e.id) \in CallType /\ Set("rptSeq", e.seq) \in CallType
        /\ Set("transactTime", e.time) \in CallType
        /\ SetEntry("mDUpdateAction", ActionValue(e.action)) \in CallType
        /\ SetEntry("mDEntryType", IF e.side = "BID" THEN BID ELSE OFFER) \in CallType
        /\ SetEntry("mDEntryPx.mantissa", Mantissa(e.price)) \in CallType
        /\ SetEntry("mDEntrySize", e.quantity) \in CallType
    BY <1>1, <2>1, <2>2, CallKinds
  <2>4. Quote(e) \in Seq(CallType)
    BY <2>3, TupleTyped DEF Quote
  <2> QED BY <1>5, <2>4 DEF CallsOf
<1>6. CASE e.kind = "TRADE"
  <2>1. {e.id, e.time, e.price, e.quantity} \subseteq Nat
    BY <1>6, EventAssumption DEF Other
  <2>2. PICK side : side = (CASE e.aggressor = "absent" -> 0 [] e.aggressor = "BID" -> 1
                              [] OTHER -> 2)
    OBVIOUS
  <2>3. side \in Nat /\ Mantissa(e.price) \in Nat
    BY <2>1, <2>2 DEF Mantissa
  <2>4. /\ Wrap \in CallType /\ Count(1) \in CallType /\ NextCall \in CallType
        /\ Set("securityID", e.id) \in CallType
        /\ SetEntry("transactTime", e.time) \in CallType
        /\ SetEntry("mDEntryPx.mantissa", Mantissa(e.price)) \in CallType
        /\ SetEntry("mDEntrySize", e.quantity) \in CallType
        /\ SetEntry("aggressorSide", side) \in CallType
    BY <1>1, <2>1, <2>3, CallKinds
  <2>5. Trade(e) \in Seq(CallType)
    BY <2>2, <2>4, TupleTyped DEF Trade
  <2> QED BY <1>6, <2>5 DEF CallsOf
<1>7. CASE e.kind \notin {"HEARTBEAT", "SECDEF", "SNAPSHOT", "QUOTE", "TRADE"}
  <2>1. CallsOf(e) = << >> BY <1>7 DEF CallsOf
  <2> QED BY <2>1, TupleTyped
<1> QED BY <1>2, <1>3, <1>4, <1>5, <1>6, <1>7


FieldAt(r) == CASE r = 2 -> "mDEntryType" [] r = 3 -> "mDEntryPx.mantissa"
                [] r = 4 -> "mDEntrySize"

LEMMA LevelCallsAre ==
  ASSUME NEW type \in Nat, NEW level \in PriceLevel
  PROVE  LET row == LevelCalls(type, level) IN
         /\ row[1].op = "next"
         /\ row[2].op = "entry" /\ row[2].field = "mDEntryType" /\ row[2].value = type
         /\ row[3].op = "entry" /\ row[3].field = "mDEntryPx.mantissa"
         /\ row[3].value = Mantissa(level.price)
         /\ row[4].op = "entry" /\ row[4].field = "mDEntrySize"
         /\ row[4].value = level.quantity
BY DEF LevelCalls, NextCall, SetEntry, Call

LEMMA LevelTyped ==
  ASSUME NEW e \in Event, e.kind = "SNAPSHOT", NEW i \in 1..Levels(e)
  PROVE  TypeOf(e, i) \in Nat /\ LevelOf(e, i) \in PriceLevel
<1>1. e.bids \in Seq(PriceLevel) /\ e.asks \in Seq(PriceLevel)
  BY EventAssumption
<1>2. CASE i <= Len(e.bids)
  <2>1. i \in 1..Len(e.bids) BY <1>1, <1>2 DEF Levels
  <2> QED BY <1>1, <1>2, <2>1 DEF TypeOf, LevelOf, BID
<1>3. CASE ~(i <= Len(e.bids))
  <2>1. PICK b \in Nat, a \in Nat : b = Len(e.bids) /\ a = Len(e.asks) BY <1>1
  <2>2. Levels(e) = b + a /\ ~(i <= b) BY <1>3, <2>1 DEF Levels
  <2>3. i - b \in 1..a BY <2>2
  <2>4. e.asks[i - b] \in PriceLevel BY <1>1, <2>1, <2>3
  <2> QED BY <1>3, <2>1, <2>4 DEF TypeOf, LevelOf, OFFER
<1> QED BY <1>2, <1>3

(* A call behind the count opens an entry, or sets one of its three fields. *)
LEMMA EntryCalls ==
  ASSUME NEW e \in Event, e.kind = "SNAPSHOT", NEW j \in 6..(5 + 4 * Levels(e))
  PROVE  LET c == Snapshot(e)[j]
             r == ((j - 2) % 4) + 1
             level == LevelOf(e, EntryOf(j))
         IN  /\ EntryOf(j) \in 1..Levels(e) /\ r \in 1..4
             /\ r = 1 => c.op = "next"
             /\ r # 1 => c.op = "entry" /\ c.field = FieldAt(r)
             /\ r = 2 => c.value = TypeOf(e, EntryOf(j))
             /\ r = 3 => c.value = Mantissa(level.price)
             /\ r = 4 => c.value = level.quantity
<1>1. Levels(e) \in Nat
      /\ Snapshot(e)[j]
           = LevelCalls(TypeOf(e, EntryOf(j)), LevelOf(e, EntryOf(j)))[((j - 2) % 4) + 1]
  BY SnapshotCalls
<1>2. PICK i : i = EntryOf(j) OBVIOUS
<1>3. i \in 1..Levels(e) BY <1>1, <1>2, EntriesOf
<1>4. PICK r \in 1..4 : r = ((j - 2) % 4) + 1 OBVIOUS
<1>5. TypeOf(e, i) \in Nat /\ LevelOf(e, i) \in PriceLevel BY <1>3, LevelTyped
<1>6. PICK row : row = LevelCalls(TypeOf(e, i), LevelOf(e, i)) OBVIOUS
<1>7. /\ row[1].op = "next"
      /\ row[2].op = "entry" /\ row[2].field = "mDEntryType" /\ row[2].value = TypeOf(e, i)
      /\ row[3].op = "entry" /\ row[3].field = "mDEntryPx.mantissa"
      /\ row[3].value = Mantissa(LevelOf(e, i).price)
      /\ row[4].op = "entry" /\ row[4].field = "mDEntrySize"
      /\ row[4].value = LevelOf(e, i).quantity
  BY <1>5, <1>6, LevelCallsAre
<1>8. Snapshot(e)[j] = row[r] BY <1>1, <1>2, <1>4, <1>6
<1>9. r = 1 \/ r = 2 \/ r = 3 \/ r = 4 OBVIOUS
<1> QED BY <1>2, <1>3, <1>4, <1>7, <1>8, <1>9 DEF FieldAt

(* Two of them set different fields, or fields of different entries. *)
LEMMA EntryCallsDiffer ==
  ASSUME NEW e \in Event, e.kind = "SNAPSHOT",
         NEW j \in 6..(5 + 4 * Levels(e)), NEW k \in 6..(5 + 4 * Levels(e)),
         Snapshot(e)[j].op = "entry", Snapshot(e)[k].op = "entry",
         EntryOf(j) = EntryOf(k), Snapshot(e)[j].field = Snapshot(e)[k].field
  PROVE  j = k
<1>0. Levels(e) \in Nat BY SnapshotCalls
<1>1. PICK r \in 1..4 : r = ((j - 2) % 4) + 1 OBVIOUS
<1>2. PICK s \in 1..4 : s = ((k - 2) % 4) + 1 OBVIOUS
<1>3. r # 1 => Snapshot(e)[j].field = FieldAt(r) BY <1>1, EntryCalls
<1>4. s # 1 => Snapshot(e)[k].field = FieldAt(s) BY <1>2, EntryCalls
<1>5. (r = 1 => Snapshot(e)[j].op = "next") /\ (s = 1 => Snapshot(e)[k].op = "next")
  BY <1>1, <1>2, EntryCalls
<1>6. r # 1 /\ s # 1 BY <1>5
<1>7. r = s BY <1>3, <1>4, <1>6 DEF FieldAt
<1>8. (j - 2) % 4 = (k - 2) % 4 /\ (j - 2) \div 4 = (k - 2) \div 4
  BY <1>1, <1>2, <1>7 DEF EntryOf
<1> QED BY <1>0, <1>8

(* How far the next call moves. *)
LEMMA EntryMoves ==
  \A d \in Nat : d >= 5 =>
    /\ EntryOf(d) \in Nat /\ EntryOf(5) = 0
    /\ ((d + 1 - 2) % 4) + 1 = 1 => EntryOf(d + 1) = EntryOf(d) + 1
    /\ ((d + 1 - 2) % 4) + 1 # 1 => EntryOf(d + 1) = EntryOf(d) /\ EntryOf(d) > 0
BY DEF EntryOf


-----------------------------------------------------------------------------
(* d calls of a snapshot were made: the group is open behind the count,    *)
(* has the entry of the last call, and what was set is in the buffer.      *)
Progress(d) ==
  /\ Len(calls) + d = 5 + 4 * Levels(event)
  /\ \A i \in 1..Len(calls) : calls[i] = Snapshot(event)[d + i]
  /\ grp.open <=> d >= 5
  /\ d < 5 => grp.index = 0
  /\ d >= 5 => /\ grp.count = Levels(event) % CountModulus
               /\ grp.index = EntryOf(d) /\ grp.index <= grp.count
               /\ Has(mem, GroupKey("numInGroup"), grp.count)
  /\ \A j \in 6..d :
       Snapshot(event)[j].op = "entry" =>
         Has(mem, EntryKey(EntryOf(j), Snapshot(event)[j].field), Snapshot(event)[j].value)

EInv ==
  /\ IInv /\ event \in Event \cup {Other} /\ calls \in Seq(CallType)
  /\ (event.kind = "SNAPSHOT" /\ pc \in {"new", "encode"}) => \E d \in Nat : Progress(d)
  /\ SnapshotIsWhole

LEMMA WrittenThere ==
  ASSUME NEW m, NEW at, NEW len, NEW key, NEW value
  PROVE  Has(Write(m, at, len, key, value), key, value)
<1>1. PICK s : s = Stretch(at, len, key, value) OBVIOUS
<1>2. s.key = key /\ s.value = value BY <1>1 DEF Stretch
<1>3. s \in Write(m, at, len, key, value) BY <1>1, Zenon DEF Write
<1> QED BY <1>2, <1>3, Zenon DEF Has

LEMMA TailTyped ==
  ASSUME NEW S, NEW s \in Seq(S), s # << >>
  PROVE  /\ Head(s) \in S /\ Head(s) = s[1] /\ Len(s) \in Nat \ {0}
         /\ Tail(s) \in Seq(S) /\ Len(Tail(s)) = Len(s) - 1
         /\ \A i \in 1..(Len(s) - 1) : Tail(s)[i] = s[i + 1]
OBVIOUS

(* The next call, and those behind it. *)
LEMMA CallsFollow ==
  ASSUME calls \in Seq(CallType), calls # << >>, event \in Event, event.kind = "SNAPSHOT",
         NEW d \in Nat, Progress(d), calls' = Tail(calls), event' = event
  PROVE  /\ Head(calls) = Snapshot(event)[d + 1] /\ d < 5 + 4 * Levels(event)
         /\ Len(calls') + (d + 1) = 5 + 4 * Levels(event')
         /\ \A i \in 1..Len(calls') : calls'[i] = Snapshot(event')[(d + 1) + i]
<1>1. Levels(event) \in Nat BY SnapshotCalls
<1>2. PICK n \in Nat : n = Len(calls) /\ n > 0 BY TailTyped
<1>3. /\ Head(calls) = calls[1] /\ Len(Tail(calls)) = n - 1
      /\ \A i \in 1..(n - 1) : Tail(calls)[i] = calls[i + 1]
  BY <1>2, TailTyped
<1>4. n + d = 5 + 4 * Levels(event) /\ \A i \in 1..n : calls[i] = Snapshot(event)[d + i]
  BY <1>2 DEF Progress
<1>5. Head(calls) = Snapshot(event)[d + 1] BY <1>2, <1>3, <1>4
<1>6. ASSUME NEW i \in 1..(n - 1) PROVE Tail(calls)[i] = Snapshot(event)[(d + 1) + i]
  <2>1. i + 1 \in 1..n /\ d + (i + 1) = (d + 1) + i BY <1>2
  <2> QED BY <1>3, <1>4, <2>1
<1> QED BY <1>1, <1>2, <1>3, <1>4, <1>5, <1>6

(* wrap, the three setters of the block and the count. *)
LEMMA HeadSteps ==
  ASSUME IInv, calls \in Seq(CallType), calls # << >>,
         event \in Event, event.kind = "SNAPSHOT", NEW d \in Nat, d < 5, Progress(d),
         MakeCall(Head(calls)), calls' = Tail(calls), event' = event, pc' # "threw"
  PROVE  Progress(d + 1)'
<1>1. PICK c : c = Head(calls) OBVIOUS
<1>2. /\ c = Snapshot(event)[d + 1]
      /\ Len(calls') + (d + 1) = 5 + 4 * Levels(event')
      /\ \A i \in 1..Len(calls') : calls'[i] = Snapshot(event')[(d + 1) + i]
  BY <1>1, CallsFollow
<1>3. /\ d = 0 => c.op = "wrap"
      /\ d \in 1..3 => c.op = "put"
      /\ d = 4 => c.op = "count" /\ c.value = Levels(event) % CountModulus
  <2>1. /\ Snapshot(event)[1].op = "wrap" /\ \A j \in 2..4 : Snapshot(event)[j].op = "put"
        /\ Snapshot(event)[5].op = "count"
        /\ Snapshot(event)[5].value = Levels(event) % CountModulus
    BY SnapshotCalls
  <2>2. d \in 1..3 => d + 1 \in 2..4 OBVIOUS
  <2> QED BY <1>2, <2>1, <2>2
<1>4. ~grp.open /\ grp.index = 0 BY DEF Progress
<1>5. d = 0 \/ d \in 1..3 \/ d = 4 OBVIOUS
<1>6. \A j : j \in 6..(d + 1) => FALSE OBVIOUS
<1>7. CASE d < 4
  <2>1. WrapForEncode \/ Put(c.field, c.value, c.tooLong)
    BY <1>1, <1>3, <1>5, <1>7 DEF MakeCall
  <2>2. grp' = grp
    BY <2>1 DEF WrapForEncode, Put, PutAt, Throw
  <2>3. d + 1 < 5 BY <1>7
  <2> QED BY <1>2, <1>4, <1>6, <2>2, <2>3 DEF Progress
<1>8. CASE d = 4
  <2>1. CountEntries(c.value) BY <1>1, <1>3, <1>8 DEF MakeCall
  <2>2. PICK at, block, m1 :
          /\ mem' = Write(m1, at, 2, GroupKey("numInGroup"), c.value)
          /\ grp' = [open |-> TRUE, start |-> msg.position, count |-> c.value,
                     block |-> block, index |-> 0, offset |-> 0]
    BY <2>1 DEF CountEntries, WriteGroupSize, Throw
  <2>3. Has(mem', GroupKey("numInGroup"), c.value)
    BY <2>2, WrittenThere
  <2>4. EntryOf(5) = 0 BY DEF EntryOf
  <2>5. Levels(event) % CountModulus \in Nat BY SnapshotCalls, EncoderAssumption
  <2>6. d + 1 = 5 BY <1>8
  <2>7. Levels(event') = Levels(event) OBVIOUS
  <2>8. /\ grp'.open /\ grp'.count = Levels(event') % CountModulus
        /\ grp'.index = 0 /\ grp'.index <= grp'.count
        /\ Has(mem', GroupKey("numInGroup"), grp'.count)
    BY <1>3, <1>8, <2>2, <2>3, <2>5, <2>7
  <2>9. \E s \in mem' : s.key = GroupKey("numInGroup") /\ s.value = grp'.count
    BY <2>8 DEF Has
  <2> QED BY <1>2, <1>6, <2>4, <2>6, <2>8, <2>9 DEF Progress, Has
<1> QED BY <1>5, <1>7, <1>8


(* A setter in an entry leaves what the other fields hold. *)
LEMMA EntryStores ==
  ASSUME IInv, NEW f, NEW value \in Nat, PutEntry(f, value), pc' # "threw"
  PROVE  /\ grp' = grp /\ Has(mem', EntryKey(grp.index, f), value)
         /\ \A k, v : k # EntryKey(grp.index, f) => (Has(mem, k, v) <=> Has(mem', k, v))
<1> DEFINE field == EntryFields[f]
           key == EntryKey(grp.index, f)
<1>1. /\ pc = "encode" /\ grp.index > 0 /\ f \in DOMAIN EntryFields
      /\ PutAt(grp.offset, field, key, value, FALSE)
  BY DEF PutEntry
<1>2. Encoding /\ KindOK /\ TypeOK
  BY <1>1 DEF IInv, TypeOK, KindOK
<1>3. grp.index \in Nat /\ grp.index \in DOMAIN placed /\ grp.offset = placed[grp.index]
  BY <1>1, <1>2 DEF Encoding, Extent, TypeOK
<1>4. key.entry \in Nat
  BY <1>3 DEF EntryKey
<1>5. /\ field.type # "constant"
      /\ mem' = Write(mem, grp.offset + field.at, field.len, key, value)
      /\ put' = [k \in DOMAIN put \cup {key} |-> IF k = key THEN value ELSE put[k]]
      /\ UNCHANGED <<kind, extra, placed, grp>>
  BY <1>1 DEF PutAt, Throw, object
<1>6. IsPlace(grp.offset + field.at, field.len, key)
  BY <1>1, <1>3, <1>5 DEF IsPlace, EntryPlace
<1> HIDE DEF field, key
<1>7. PICK at : at = grp.offset + field.at OBVIOUS
<1>8. /\ Has(mem', key, value)
      /\ \A k, v : k # key => (Has(mem, k, v) <=> Has(mem', k, v))
  BY <1>2, <1>4, <1>5, <1>6, <1>7, StoreValue DEF Encoding
<1> QED BY <1>5, <1>8 DEF key

(* next() and the setters of the entries. *)
LEMMA EntrySteps ==
  ASSUME IInv, calls \in Seq(CallType), calls # << >>, pc \in {"new", "encode"},
         event \in Event, event.kind = "SNAPSHOT", NEW d \in Nat, d >= 5, Progress(d),
         MakeCall(Head(calls)), calls' = Tail(calls), event' = event, pc' # "threw"
  PROVE  Progress(d + 1)'
<1>1. PICK c : c = Head(calls) OBVIOUS
<1>2. /\ c = Snapshot(event)[d + 1] /\ d < 5 + 4 * Levels(event)
      /\ Len(calls') + (d + 1) = 5 + 4 * Levels(event')
      /\ \A i \in 1..Len(calls') : calls'[i] = Snapshot(event')[(d + 1) + i]
  BY <1>1, CallsFollow
<1>3. Levels(event) \in Nat /\ d + 1 \in 6..(5 + 4 * Levels(event)) BY <1>2, SnapshotCalls
<1>4. PICK r \in 1..4 : r = ((d + 1 - 2) % 4) + 1 OBVIOUS
<1>5. /\ r = 1 => c.op = "next"
      /\ r # 1 => c.op = "entry"
  BY <1>2, <1>3, <1>4, EntryCalls
<1>6. /\ EntryOf(d) \in Nat
      /\ r = 1 => EntryOf(d + 1) = EntryOf(d) + 1
      /\ r # 1 => EntryOf(d + 1) = EntryOf(d) /\ EntryOf(d) > 0
  BY <1>4, EntryMoves
<1>7. /\ grp.open /\ grp.count = Levels(event) % CountModulus
      /\ grp.index = EntryOf(d) /\ grp.index <= grp.count
      /\ Has(mem, GroupKey("numInGroup"), grp.count)
  BY DEF Progress
<1>8. \A j \in 6..d :
        Snapshot(event)[j].op = "entry" =>
          Has(mem, EntryKey(EntryOf(j), Snapshot(event)[j].field), Snapshot(event)[j].value)
  BY DEF Progress
<1>9. \A j \in 6..(d + 1) : j = d + 1 \/ j \in 6..d OBVIOUS
<1>10. CASE r = 1
  <2>1. NextEntry BY <1>1, <1>5, <1>10 DEF MakeCall
  <2>2. /\ ~(grp.index >= grp.count) /\ mem' = mem
        /\ grp' = [grp EXCEPT !.offset = msg.position, !.index = @ + 1]
    BY <2>1 DEF NextEntry, Throw
  <2>3. /\ grp \in [open : BOOLEAN, start : Nat, block : Nat, count : Nat,
                    index : Nat, offset : Nat]
    BY DEF IInv, TypeOK
  <2>4. grp'.open = grp.open /\ grp'.count = grp.count /\ grp'.index = grp.index + 1
    BY <2>2, <2>3
  <2>5. grp'.index = EntryOf(d + 1) /\ grp'.index <= grp'.count
    BY <1>6, <1>7, <1>10, <2>2, <2>3, <2>4
  <2>6. ASSUME NEW j \in 6..(d + 1), Snapshot(event)[j].op = "entry"
        PROVE  Has(mem, EntryKey(EntryOf(j), Snapshot(event)[j].field), Snapshot(event)[j].value)
    BY <1>2, <1>5, <1>8, <1>9, <1>10, <2>6
  <2> QED BY <1>2, <1>7, <2>2, <2>4, <2>5, <2>6 DEF Progress, Has
<1>11. CASE r # 1
  <2>1. PutEntry(c.field, c.value) BY <1>1, <1>5, <1>11 DEF MakeCall
  <2>2. c.value \in Nat
    <3>1. c \in CallType BY <1>1, TailTyped
    <3> QED BY <3>1 DEF CallType
  <2>3. PICK key : key = EntryKey(grp.index, c.field) OBVIOUS
  <2>4. /\ grp' = grp /\ Has(mem', key, c.value)
        /\ \A k, v : k # key => (Has(mem, k, v) <=> Has(mem', k, v))
    BY <2>1, <2>2, <2>3, EntryStores
  <2>5. key = EntryKey(EntryOf(d + 1), c.field) BY <1>6, <1>7, <1>11, <2>3
  <2>6. Has(mem', GroupKey("numInGroup"), grp.count)
    BY <1>6, <1>7, <1>11, <2>3, <2>4 DEF GroupKey, EntryKey
  <2>7. ASSUME NEW j \in 6..(d + 1), Snapshot(event)[j].op = "entry"
        PROVE  Has(mem', EntryKey(EntryOf(j), Snapshot(event)[j].field), Snapshot(event)[j].value)
    <3>1. CASE j = d + 1 BY <1>2, <2>4, <2>5, <3>1
    <3>2. CASE j # d + 1
      <4>1. j \in 6..d /\ j \in 6..(5 + 4 * Levels(event)) BY <1>3, <1>9, <3>2
      <4>2. EntryKey(EntryOf(j), Snapshot(event)[j].field) # key
        <5> SUFFICES ASSUME EntryKey(EntryOf(j), Snapshot(event)[j].field) = key
                     PROVE  j = d + 1
          BY <3>2
        <5>1. EntryOf(j) = EntryOf(d + 1) /\ Snapshot(event)[j].field = c.field
          BY <2>5 DEF EntryKey
        <5> QED BY <1>2, <1>3, <1>5, <1>11, <2>7, <4>1, <5>1, EntryCallsDiffer
      <4> QED BY <1>8, <2>4, <2>7, <4>1, <4>2
    <3> QED BY <3>1, <3>2
  <2> QED BY <1>2, <1>6, <1>7, <1>11, <2>4, <2>6, <2>7 DEF Progress, Has
<1> QED BY <1>10, <1>11


(* A finished message keeps all that was written, and its entries are as  *)
(* many as were opened.                                                    *)
LEMMA FinishCuts ==
  ASSUME IInv, Finish
  PROVE  mem' = mem /\ DOMAIN placed' = 1..grp.index
<1>1. Encoding /\ TypeOK /\ KindOK /\ PlacesOK
  BY DEF Finish, IInv, TypeOK, KindOK, Encoding, MemOK
<1>2. msg.position \in Nat BY <1>1 DEF TypeOK
<1>3. \A s \in mem : s.at \in Nat /\ s.len \in Nat \ {0}
  BY <1>1, PlaceType DEF Encoding, MemOK, Laid
<1>4. \A s \in mem : s.at < msg.position
  BY <1>1, <1>2, <1>3 DEF Encoding
<1>5. DOMAIN placed = 1..grp.index BY <1>1 DEF Encoding, Extent
<1> QED BY <1>4, <1>5 DEF Finish, history

(* The three calls that fill entry i. *)
LEMMA ThreeCalls ==
  \A n \in Nat : \A i \in 1..n :
    /\ 4 * i + 3 \in 6..(5 + 4 * n) /\ EntryOf(4 * i + 3) = i
    /\ 4 * i + 4 \in 6..(5 + 4 * n) /\ EntryOf(4 * i + 4) = i
    /\ 4 * i + 5 \in 6..(5 + 4 * n) /\ EntryOf(4 * i + 5) = i
    /\ ((4 * i + 3 - 2) % 4) + 1 = 2
    /\ ((4 * i + 4 - 2) % 4) + 1 = 3
    /\ ((4 * i + 5 - 2) % 4) + 1 = 4
BY DEF EntryOf

LEMMA LevelFilled ==
  ASSUME event \in Event, event.kind = "SNAPSHOT", Progress(5 + 4 * Levels(event)),
         NEW i \in 1..Levels(event)
  PROVE  /\ Has(mem, EntryKey(i, "mDEntryType"), TypeOf(event, i))
         /\ Has(mem, EntryKey(i, "mDEntryPx.mantissa"), Mantissa(LevelOf(event, i).price))
         /\ Has(mem, EntryKey(i, "mDEntrySize"), LevelOf(event, i).quantity)
<1>1. PICK n \in Nat : n = Levels(event) BY SnapshotCalls
<1>2. \A j \in 6..(5 + 4 * n) :
        Snapshot(event)[j].op = "entry" =>
          Has(mem, EntryKey(EntryOf(j), Snapshot(event)[j].field), Snapshot(event)[j].value)
  BY <1>1 DEF Progress
<1>3. ASSUME NEW j \in 6..(5 + 4 * n), NEW r \in 2..4, r = ((j - 2) % 4) + 1, EntryOf(j) = i
      PROVE  /\ Has(mem, EntryKey(i, FieldAt(r)), Snapshot(event)[j].value)
             /\ r = 2 => Snapshot(event)[j].value = TypeOf(event, i)
             /\ r = 3 => Snapshot(event)[j].value = Mantissa(LevelOf(event, i).price)
             /\ r = 4 => Snapshot(event)[j].value = LevelOf(event, i).quantity
  <2>1. r # 1 OBVIOUS
  <2>2. /\ Snapshot(event)[j].op = "entry" /\ Snapshot(event)[j].field = FieldAt(r)
        /\ r = 2 => Snapshot(event)[j].value = TypeOf(event, i)
        /\ r = 3 => Snapshot(event)[j].value = Mantissa(LevelOf(event, i).price)
        /\ r = 4 => Snapshot(event)[j].value = LevelOf(event, i).quantity
    BY <1>1, <1>3, <2>1, EntryCalls
  <2> QED BY <1>2, <1>3, <2>2
<1>4. Has(mem, EntryKey(i, FieldAt(2)), TypeOf(event, i))
  <2>1. PICK j \in 6..(5 + 4 * n) : EntryOf(j) = i /\ 2 = ((j - 2) % 4) + 1
    BY <1>1, ThreeCalls
  <2> QED BY <1>3, <2>1
<1>5. Has(mem, EntryKey(i, FieldAt(3)), Mantissa(LevelOf(event, i).price))
  <2>1. PICK j \in 6..(5 + 4 * n) : EntryOf(j) = i /\ 3 = ((j - 2) % 4) + 1
    BY <1>1, ThreeCalls
  <2> QED BY <1>3, <2>1
<1>6. Has(mem, EntryKey(i, FieldAt(4)), LevelOf(event, i).quantity)
  <2>1. PICK j \in 6..(5 + 4 * n) : EntryOf(j) = i /\ 4 = ((j - 2) % 4) + 1
    BY <1>1, ThreeCalls
  <2> QED BY <1>3, <2>1
<1>7. /\ FieldAt(2) = "mDEntryType" /\ FieldAt(3) = "mDEntryPx.mantissa"
      /\ FieldAt(4) = "mDEntrySize"
  BY DEF FieldAt
<1> QED BY <1>4, <1>5, <1>6, <1>7

(* All calls made: a count that wrapped would have refused an entry.       *)
LEMMA AllEntriesOpen ==
  ASSUME event \in Event, event.kind = "SNAPSHOT", NEW d \in Nat, Progress(d), calls = << >>
  PROVE  /\ d = 5 + 4 * Levels(event)
         /\ grp.open /\ grp.count = Levels(event) /\ grp.index = grp.count
         /\ Has(mem, GroupKey("numInGroup"), grp.count)
<1>1. PICK n \in Nat : n = Levels(event) BY SnapshotCalls
<1>2. d = 5 + 4 * n
  <2>1. Len(calls) = 0 OBVIOUS
  <2> QED BY <1>1, <2>1 DEF Progress
<1>3. /\ grp.open /\ grp.count = n % CountModulus /\ grp.index = EntryOf(d)
      /\ grp.index <= grp.count /\ Has(mem, GroupKey("numInGroup"), grp.count)
  BY <1>1, <1>2 DEF Progress
<1>4. EntryOf(d) = n BY <1>2 DEF EntryOf
<1>5. PICK m \in Nat \ {0} : m = CountModulus BY EncoderAssumption
<1>6. n % m <= n /\ n % m \in Nat BY <1>5
<1> QED BY <1>1, <1>2, <1>3, <1>4, <1>5, <1>6

LEMMA FinishIsWhole ==
  ASSUME IInv, event \in Event, event.kind = "SNAPSHOT", NEW d \in Nat, Progress(d),
         calls = << >>, Finish, event' = event
  PROVE  SnapshotIsWhole'
<1>1. PICK n \in Nat : n = Levels(event) BY SnapshotCalls
<1>2. event.bids \in Seq(PriceLevel) /\ event.asks \in Seq(PriceLevel)
  BY EventAssumption
<1>3. PICK b \in Nat, a \in Nat : b = Len(event.bids) /\ a = Len(event.asks) BY <1>2
<1>4. n = b + a BY <1>1, <1>3 DEF Levels
<1>5. /\ d = 5 + 4 * n /\ grp.count = n /\ grp.index = n
      /\ Has(mem, GroupKey("numInGroup"), n)
  BY <1>1, AllEntriesOpen
<1>6. mem' = mem /\ DOMAIN placed' = 1..n BY <1>5, FinishCuts
<1>7. ASSUME NEW i \in 1..n
       PROVE  /\ Has(mem, EntryKey(i, "mDEntryType"), TypeOf(event, i))
              /\ Has(mem, EntryKey(i, "mDEntryPx.mantissa"), Mantissa(LevelOf(event, i).price))
              /\ Has(mem, EntryKey(i, "mDEntrySize"), LevelOf(event, i).quantity)
  BY <1>1, <1>5, LevelFilled
<1>8. ASSUME NEW i \in DOMAIN event.bids
       PROVE  /\ Has(mem, EntryKey(0 + i, "mDEntryType"), BID)
              /\ Has(mem, EntryKey(0 + i, "mDEntryPx.mantissa"), Mantissa(event.bids[i].price))
              /\ Has(mem, EntryKey(0 + i, "mDEntrySize"), event.bids[i].quantity)
  <2>1. i \in 1..b BY <1>2, <1>3
  <2>2. i \in 1..n /\ i <= b /\ 0 + i = i BY <1>4, <2>1
  <2>3. TypeOf(event, i) = BID /\ LevelOf(event, i) = event.bids[i]
    BY <1>3, <2>2 DEF TypeOf, LevelOf
  <2> QED BY <1>7, <2>2, <2>3
<1>9. ASSUME NEW i \in DOMAIN event.asks
       PROVE  /\ Has(mem, EntryKey(b + i, "mDEntryType"), OFFER)
              /\ Has(mem, EntryKey(b + i, "mDEntryPx.mantissa"), Mantissa(event.asks[i].price))
              /\ Has(mem, EntryKey(b + i, "mDEntrySize"), event.asks[i].quantity)
  <2>1. i \in 1..a BY <1>2, <1>3
  <2>2. PICK k : k = b + i OBVIOUS
  <2>3. k \in 1..n /\ ~(k <= b) /\ k - b = i BY <1>4, <2>1, <2>2
  <2>4. TypeOf(event, k) = OFFER /\ LevelOf(event, k) = event.asks[i]
    BY <1>3, <2>3 DEF TypeOf, LevelOf
  <2>5. /\ Has(mem, EntryKey(k, "mDEntryType"), OFFER)
        /\ Has(mem, EntryKey(k, "mDEntryPx.mantissa"), Mantissa(event.asks[i].price))
        /\ Has(mem, EntryKey(k, "mDEntrySize"), event.asks[i].quantity)
    BY <1>7, <2>3, <2>4
  <2> QED BY <2>2, <2>5
<1>10. SideArrives(event.bids, BID, 0)
  BY <1>8 DEF SideArrives, EntryHolds, Has
<1>11. SideArrives(event.asks, OFFER, Len(event.bids))
  BY <1>3, <1>9 DEF SideArrives, EntryHolds, Has
<1>12. SideArrives(event.bids, BID, 0)' /\ SideArrives(event.asks, OFFER, Len(event.bids))'
  BY <1>6, <1>10, <1>11 DEF SideArrives, EntryHolds
<1>13. Cardinality(1..n) = n BY FS_Interval
<1>14. Cardinality(DOMAIN placed') = Len(event'.bids) + Len(event'.asks)
  BY <1>3, <1>4, <1>6, <1>13
<1>15. \E s \in mem' : s.key = GroupKey("numInGroup")
                       /\ s.value = Len(event'.bids) + Len(event'.asks)
  BY <1>3, <1>4, <1>5, <1>6 DEF Has
<1> QED BY <1>12, <1>14, <1>15 DEF SnapshotIsWhole


LEMMA InitEInv == EncoderInit => EInv
<1> SUFFICES ASSUME EncoderInit PROVE EInv
  OBVIOUS
<1>1. IInv /\ pc = "new" /\ ~grp.open /\ grp.index = 0
  BY InitIInv DEF EncoderInit, Init, NoGroup
<1>2. event \in Event \cup {Other} /\ calls = CallsOf(event) BY DEF EncoderInit
<1>3. calls \in Seq(CallType) BY <1>2, CallsTyped
<1>4. ASSUME event.kind = "SNAPSHOT" PROVE Progress(0)
  <2>1. event \in Event BY <1>2, <1>4 DEF Other
  <2>2. calls = Snapshot(event) BY <1>2, <1>4 DEF CallsOf
  <2>3. Len(Snapshot(event)) = 5 + 4 * Levels(event) /\ Levels(event) \in Nat
    BY <1>4, <2>1, SnapshotCalls
  <2>4. \A i \in 1..Len(calls) : calls[i] = Snapshot(event)[0 + i] BY <2>2
  <2> QED BY <1>1, <2>2, <2>3, <2>4 DEF Progress
<1>5. SnapshotIsWhole BY <1>1 DEF SnapshotIsWhole
<1> QED BY <1>1, <1>2, <1>3, <1>4, <1>5 DEF EInv

(* A call of the encoder is one of the flyweight. *)
LEMMA CallKeeps ==
  ASSUME IInv, NEW c \in CallType, MakeCall(c), pc \in {"new", "encode"}
  PROVE  IInv' /\ pc' \in {"encode", "threw"}
<1>1. c.value \in Nat BY DEF CallType
<1>2. CASE WrapForEncode
  BY <1>2, WrapKeeps DEF WrapForEncode, Throw
<1>3. CASE Put(c.field, c.value, c.tooLong)
  <2>1. IInv' BY <1>1, <1>3, PutKeeps
  <2>2. pc' \in {"encode", "threw"} BY <1>3 DEF Put, PutAt, Throw
  <2> QED BY <2>1, <2>2
<1>4. CASE CountEntries(c.value)
  <2>1. IInv' BY <1>1, <1>4, CountKeeps
  <2>2. pc' \in {"encode", "threw"} BY <1>4 DEF CountEntries, Throw
  <2> QED BY <2>1, <2>2
<1>5. CASE NextEntry
  <2>1. pc = "encode" /\ pc' \in {"encode", "threw"} BY <1>5 DEF NextEntry, Throw
  <2> QED BY <1>5, <2>1, NextEncodeKeeps
<1>6. CASE PutEntry(c.field, c.value)
  <2>1. IInv' BY <1>1, <1>6, PutEntryKeeps
  <2>2. pc' \in {"encode", "threw"} BY <1>6 DEF PutEntry, PutAt, Throw
  <2> QED BY <2>1, <2>2
<1> QED BY <1>2, <1>3, <1>4, <1>5, <1>6 DEF MakeCall

(* The encoder's step. *)
LEMMA EncodeKeeps ==
  ASSUME EInv, EncodeEvent PROVE EInv'
<1>1. /\ IInv /\ event \in Event /\ calls \in Seq(CallType) /\ event' = event
      /\ pc \in {"new", "encode"}
  BY DEF EInv, EncodeEvent
<1>2. event.kind = "SNAPSHOT" => \E d \in Nat : Progress(d)
  BY <1>1 DEF EInv
<1>3. CASE calls # << >> /\ MakeCall(Head(calls)) /\ calls' = Tail(calls)
  <2>1. Head(calls) \in CallType /\ calls' \in Seq(CallType) BY <1>1, <1>3, TailTyped
  <2>2. IInv' /\ pc' \in {"encode", "threw"} BY <1>1, <1>3, <2>1, CallKeeps
  <2>3. SnapshotIsWhole' BY <2>2 DEF SnapshotIsWhole
  <2>4. ASSUME event'.kind = "SNAPSHOT", pc' \in {"new", "encode"}
        PROVE  \E d \in Nat : Progress(d)'
    <3>1. PICK d \in Nat : Progress(d) BY <1>1, <1>2, <2>4
    <3>2. pc' # "threw" BY <2>4
    <3>3. CASE d < 5 BY <1>1, <1>3, <2>4, <3>1, <3>2, <3>3, HeadSteps
    <3>4. CASE d >= 5 BY <1>1, <1>3, <2>4, <3>1, <3>2, <3>4, EntrySteps
    <3>5. d < 5 \/ d >= 5 OBVIOUS
    <3> QED BY <3>3, <3>4, <3>5
  <2> QED BY <1>1, <2>1, <2>2, <2>3, <2>4 DEF EInv
<1>4. CASE calls = << >> /\ Finish /\ UNCHANGED calls
  <2>1. IInv' BY <1>1, <1>4, FinishKeeps
  <2>2. pc' = "sent" BY <1>4 DEF Finish
  <2>3. SnapshotIsWhole'
    <3>1. CASE event.kind = "SNAPSHOT"
      <4>1. PICK d \in Nat : Progress(d) BY <1>2, <3>1
      <4> QED BY <1>1, <1>4, <3>1, <4>1, FinishIsWhole
    <3>2. CASE event.kind # "SNAPSHOT" BY <1>1, <3>2 DEF SnapshotIsWhole
    <3> QED BY <3>1, <3>2
  <2> QED BY <1>1, <1>4, <2>1, <2>2, <2>3 DEF EInv
<1> QED BY <1>3, <1>4 DEF EncodeEvent

(* Any other user has no snapshot to send, and a receiver is past sending. *)
LEMMA NextEInv == EInv /\ [EncoderNext]_encoderVars => EInv'
<1> SUFFICES ASSUME EInv, [EncoderNext]_encoderVars PROVE EInv'
  OBVIOUS
<1>1. CASE UNCHANGED encoderVars
  <2>1. UNCHANGED vars /\ event' = event /\ calls' = calls BY <1>1 DEF encoderVars
  <2>2. IInv' BY <2>1, NextIInv DEF EInv
  <2>3. UNCHANGED <<pc, mem, grp, placed>> BY <2>1 DEF vars
  <2>4. SnapshotIsWhole' <=> SnapshotIsWhole
    BY <2>1, <2>3 DEF SnapshotIsWhole, SideArrives, EntryHolds
  <2>5. \A d : Progress(d)' <=> Progress(d)
    BY <2>1, <2>3 DEF Progress, Has
  <2> QED BY <2>1, <2>2, <2>3, <2>4, <2>5 DEF EInv
<1>2. CASE EncodeEvent
  BY <1>2, EncodeKeeps
<1>3. CASE UseOtherwise
  <2>1. Next /\ event = Other /\ event' = event /\ calls' = calls
    BY <1>3 DEF UseOtherwise, Next
  <2>2. IInv' BY <2>1, NextIInv DEF EInv
  <2>3. event.kind # "SNAPSHOT" BY <2>1 DEF Other
  <2> QED BY <2>1, <2>2, <2>3 DEF EInv, SnapshotIsWhole
<1>4. CASE Receive
  <2>1. Next /\ event' = event /\ calls' = calls
    BY <1>4 DEF Receive, Next
  <2>2. IInv' BY <2>1, NextIInv DEF EInv
  <2>3. pc' \in {"decode", "threw"}
    BY <1>4 DEF Receive, Decode, WrapForDecode, OpenEntries, Rewind, NextEntry, Throw
  <2> QED BY <2>1, <2>2, <2>3 DEF EInv, SnapshotIsWhole
<1> QED BY <1>1, <1>2, <1>3, <1>4 DEF EncoderNext

(* For every number of levels, wherever the cast of the count wraps and    *)
(* the vector ends: a snapshot that leaves the encoder has every level of  *)
(* both sides, and says how many they are.                                 *)
THEOREM SnapshotStaysWhole == EncoderSpec => []SnapshotIsWhole
<1>1. EInv => SnapshotIsWhole BY DEF EInv
<1> QED BY <1>1, InitEInv, NextEInv, PTL DEF EncoderSpec

(* What holds of every use of the flyweights holds of the encoder's: its   *)
(* setters stay in the vector, and its readers get what it set.            *)
THEOREM EncoderSound == EncoderSpec => [](TypeOK /\ InBounds /\ RoundTrip)
<1>1. EInv => TypeOK /\ InBounds /\ RoundTrip BY IInvRoundTrip DEF EInv, IInv
<1> QED BY <1>1, InitEInv, NextEInv, PTL DEF EncoderSpec

-----------------------------------------------------------------------------
(* Lengths.  A message ends behind its block, or behind the entries that   *)
(* were opened, and the count in the bytes is the group's.                 *)
Measured(end) ==
  /\ end = Start + (IF grp.open THEN 4 + grp.index * EntryBlk ELSE 0)
  /\ grp.open => /\ Layout[kind].entryBlock > 0
                 /\ Has(mem, GroupKey("numInGroup"), grp.count)

Ends == (pc = "encode" => Measured(msg.position)) /\ (pc = "sent" => Measured(size))

LEMMA PutStores ==
  ASSUME IInv, NEW f, NEW value \in Nat, NEW tooLong, Put(f, value, tooLong), pc' # "threw"
  PROVE  /\ grp' = grp /\ msg' = msg
         /\ \A k, v : k # RootKey(f) => (Has(mem, k, v) <=> Has(mem', k, v))
<1> DEFINE field == Fields[f]
           key == RootKey(f)
<1>1. pc = "encode" /\ f \in DOMAIN Fields /\ PutAt(msg.offset, field, key, value, tooLong)
  BY DEF Put
<1>2. Encoding /\ KindOK /\ TypeOK
  BY <1>1 DEF IInv, TypeOK, KindOK
<1>3. key.entry \in Nat
  BY DEF RootKey
<1>4. /\ field.type # "constant"
      /\ mem' = Write(mem, msg.offset + field.at, field.len, key, value)
      /\ put' = [k \in DOMAIN put \cup {key} |-> IF k = key THEN value ELSE put[k]]
      /\ UNCHANGED <<kind, extra, placed, grp, msg>>
  BY <1>1 DEF PutAt, Throw, object
<1>5. IsPlace(msg.offset + field.at, field.len, key)
  BY <1>1, <1>2, <1>4 DEF IsPlace, RootPlace, Encoding, InMessage, HeaderLength
<1> HIDE DEF field, key
<1>6. PICK at : at = msg.offset + field.at OBVIOUS
<1>7. \A k, v : k # key => (Has(mem, k, v) <=> Has(mem', k, v))
  BY <1>2, <1>3, <1>4, <1>5, <1>6, StoreValue DEF Encoding
<1> QED BY <1>4, <1>7 DEF key

(* The places that lengths are reckoned from stay where they are. *)
LEMMA SameObject ==
  ASSUME kind' = kind, extra' = extra
  PROVE  Start' = Start /\ EntryBlk' = EntryBlk /\ Layout[kind]' = Layout[kind]
BY DEF Start, EntryBlk, Blk

LEMMA WrapMeasured ==
  ASSUME IInv, WrapForEncode, pc' # "threw" PROVE Ends'
<1>1. /\ pc = "new" /\ pc' = "encode" /\ grp = NoGroup /\ KindOK
      /\ msg' = [offset |-> HeaderLength,
                 position |-> HeaderLength + (Layout[kind].block + extra),
                 block |-> Layout[kind].block + extra]
      /\ UNCHANGED <<kind, extra, grp>>
  BY DEF WrapForEncode, Throw, IInv, TypeOK, KindOK, object
<1>2. msg'.position = Start /\ Start \in Nat BY <1>1, Lengths DEF Start, Blk
<1>3. Start' = Start BY <1>1, SameObject
<1>4. ~grp'.open BY <1>1 DEF NoGroup
<1> QED BY <1>1, <1>2, <1>3, <1>4 DEF Ends, Measured

(* A setter moves nothing and leaves the count. *)
LEMMA PutMeasured ==
  ASSUME IInv, Ends, pc = "encode", NEW key, key.entry \in Nat,
         UNCHANGED <<pc, kind, extra, msg, grp>>,
         \A k, v : k # key => (Has(mem, k, v) <=> Has(mem', k, v))
  PROVE  Ends'
<1>1. Measured(msg.position) BY DEF Ends
<1>2. GroupKey("numInGroup") # key BY DEF GroupKey
<1>3. Has(mem, GroupKey("numInGroup"), grp.count) => Has(mem', GroupKey("numInGroup"), grp.count)
  BY <1>2
<1> QED BY <1>1, <1>3, SameObject DEF Ends, Measured, Has

LEMMA CountMeasured ==
  ASSUME IInv, NEW count \in Nat, CountEntries(count), pc' # "threw" PROVE Ends'
<1>1. /\ pc = "encode" /\ ~grp.open /\ Encoding /\ KindOK /\ TypeOK
      /\ Layout[kind].entryBlock > 0
  BY DEF CountEntries, IInv, TypeOK, KindOK
<1>2. msg.position = Start BY <1>1 DEF Encoding
<1>3. PICK at, block, m1 :
        /\ mem' = Write(m1, at, 2, GroupKey("numInGroup"), count)
        /\ grp' = [open |-> TRUE, start |-> msg.position, count |-> count,
                   block |-> block, index |-> 0, offset |-> 0]
        /\ msg' = [msg EXCEPT !.position = @ + 4]
        /\ UNCHANGED <<pc, kind, extra>>
  BY DEF CountEntries, WriteGroupSize, Throw, GroupSizeLength, object
<1>4. Has(mem', GroupKey("numInGroup"), count) BY <1>3, WrittenThere
<1>5. EntryBlk \in Nat /\ Start \in Nat BY <1>1, Lengths
<1>6. msg'.position = Start + (4 + 0 * EntryBlk)
  BY <1>1, <1>2, <1>3, <1>5 DEF TypeOK
<1> QED BY <1>1, <1>3, <1>4, <1>6, SameObject DEF Ends, Measured, Has

LEMMA OneMore == \A i, b, s \in Nat : (s + (4 + i * b)) + b = s + (4 + (i + 1) * b)
OBVIOUS

LEMMA NextMeasured ==
  ASSUME IInv, Ends, pc = "encode", NextEntry, pc' # "threw" PROVE Ends'
<1>1. /\ grp.open /\ Encoding /\ KindOK /\ TypeOK /\ Measured(msg.position)
  BY DEF NextEntry, IInv, TypeOK, KindOK, Ends
<1>2. /\ grp' = [grp EXCEPT !.offset = msg.position, !.index = @ + 1]
      /\ msg' = [msg EXCEPT !.position = @ + grp.block]
      /\ UNCHANGED <<pc, kind, extra, mem>>
  BY DEF NextEntry, Throw, object
<1>3. grp \in [open : BOOLEAN, start : Nat, block : Nat, count : Nat,
               index : Nat, offset : Nat]
      /\ msg \in [offset : Nat, position : Nat, block : Nat]
  BY <1>1 DEF TypeOK
<1>4. grp'.open /\ grp'.index = grp.index + 1 /\ grp'.count = grp.count
  BY <1>1, <1>2, <1>3
<1>5. PICK i \in Nat, b \in Nat, s \in Nat : i = grp.index /\ b = EntryBlk /\ s = Start
  BY <1>1, <1>3, Lengths
<1>6. msg.position = s + (4 + i * b) /\ grp.block = b
  BY <1>1, <1>5 DEF Measured, Encoding
<1>7. msg'.position = msg.position + b BY <1>2, <1>3, <1>6
<1>8. msg'.position = s + (4 + (i + 1) * b) BY <1>6, <1>7, OneMore
<1>9. Start' = s /\ EntryBlk' = b /\ Layout[kind]' = Layout[kind]
  BY <1>2, <1>5, SameObject
<1> QED BY <1>1, <1>2, <1>4, <1>5, <1>8, <1>9 DEF Ends, Measured, Has

LEMMA ResetMeasured ==
  ASSUME IInv, Ends, ResetCountToIndex PROVE Ends'
<1>1. /\ pc = "encode" /\ grp.open /\ Measured(msg.position) /\ TypeOK
      /\ grp' = [grp EXCEPT !.count = grp.index]
      /\ UNCHANGED <<pc, kind, extra, msg>>
  BY DEF ResetCountToIndex, IInv, Ends, object
<1>2. grp'.open /\ grp'.index = grp.index /\ grp'.count = grp.index
  BY <1>1 DEF TypeOK
<1>3. Has(mem', GroupKey("numInGroup"), grp.index)
  BY WrittenThere DEF ResetCountToIndex
<1> QED BY <1>1, <1>2, <1>3, SameObject DEF Ends, Measured, Has

LEMMA FinishMeasured ==
  ASSUME IInv, Ends, Finish PROVE Ends'
<1>1. /\ Measured(msg.position) /\ pc' = "sent" /\ size' = msg.position
      /\ UNCHANGED <<kind, extra, grp>>
  BY DEF Finish, Ends
<1>2. mem' = mem BY FinishCuts
<1> QED BY <1>1, <1>2, SameObject DEF Ends, Measured, Has

LEMMA SetterMeasured ==
  ASSUME IInv, Ends, NEW f, NEW value \in Nat, NEW tooLong, pc' # "threw",
         Put(f, value, tooLong) \/ PutEntry(f, value)
  PROVE  Ends'
<1>1. CASE Put(f, value, tooLong)
  <2>1. pc = "encode" /\ UNCHANGED <<pc, kind, extra>>
    BY <1>1 DEF Put, PutAt, Throw, object
  <2>2. RootKey(f).entry \in Nat BY DEF RootKey
  <2> QED BY <1>1, <2>1, <2>2, PutStores, PutMeasured
<1>2. CASE PutEntry(f, value)
  <2>1. pc = "encode" /\ UNCHANGED <<pc, kind, extra, msg>>
    BY <1>2 DEF PutEntry, PutAt, Throw, object
  <2>2. EntryKey(grp.index, f).entry \in Nat BY DEF EntryKey, IInv, TypeOK
  <2> QED BY <1>2, <2>1, <2>2, EntryStores, PutMeasured
<1> QED BY <1>1, <1>2

LEMMA NextEnds ==
  ASSUME IInv, Ends, [Next]_vars PROVE Ends'
<1>1. CASE UNCHANGED vars
  BY <1>1, SameObject DEF vars, Ends, Measured, Has
<1>2. CASE pc' \notin {"encode", "sent"}
  BY <1>2 DEF Ends
<1>3. CASE Encode /\ pc' \in {"encode", "sent"}
  <2>1. ASSUME NEW f, NEW tooLong, NEW value \in MayPut(Fields[f]), Put(f, value, tooLong)
        PROVE  Ends'
    BY <1>3, <2>1, SetterMeasured, FlyweightAssumption DEF MayPut
  <2>2. ASSUME NEW f, NEW value \in MayPut(EntryFields[f]), PutEntry(f, value)
        PROVE  Ends'
    BY <1>3, <2>2, SetterMeasured, FlyweightAssumption DEF MayPut
  <2>3. ASSUME NEW count \in 0..(MaxCount + 1), CountEntries(count) PROVE Ends'
    BY <1>3, <2>3, CountMeasured, FlyweightAssumption
  <2> QED BY <1>3, <2>1, <2>2, <2>3, WrapMeasured, ResetMeasured, FinishMeasured DEF Encode
<1>4. CASE NextEntry /\ pc' \in {"encode", "sent"}
  <2>1. pc = "encode" BY <1>4 DEF NextEntry, Throw
  <2> QED BY <1>4, <2>1, NextMeasured
<1>5. CASE Decode
  <2>1. pc' \notin {"encode", "sent"}
    BY <1>5 DEF Decode, WrapForDecode, OpenEntries, Rewind, Throw
  <2> QED BY <1>2, <2>1
<1> QED BY <1>1, <1>2, <1>3, <1>4, <1>5 DEF Next

LEMMA CallEnds ==
  ASSUME IInv, Ends, NEW c \in CallType, MakeCall(c), pc \in {"new", "encode"}
  PROVE  Ends'
<1>1. c.value \in Nat BY DEF CallType
<1>2. CASE pc' = "threw" BY <1>2 DEF Ends
<1>3. CASE pc' # "threw"
  <2>1. NextEntry => pc = "encode" BY <1>3 DEF NextEntry
  <2> QED BY <1>1, <1>3, <2>1, WrapMeasured, SetterMeasured, CountMeasured, NextMeasured
          DEF MakeCall
<1> QED BY <1>2, <1>3

(* What decodeLength() finds is what the encoder reckoned. *)
LEMMA LengthDecodes ==
  ASSUME IInv, Ends, pc = "sent", extra = 0, grp.index = grp.count,
         grp.open \/ Layout[kind].entryBlock = 0
  PROVE  DecodeLength = size - HeaderLength
<1>1. /\ Measured(size) /\ Sent /\ MemOK /\ KindOK /\ TypeOK
  BY DEF IInv, Ends, Sent, TypeOK, KindOK
<1>2. PICK s \in Nat, b \in Nat, k \in Nat, i \in Nat :
        /\ s = Start /\ b = EntryBlk /\ k = Layout[kind].block /\ i = grp.index
        /\ s = 8 + k /\ b = Layout[kind].entryBlock
  <2>1. Blk = Layout[kind].block /\ EntryBlk = Layout[kind].entryBlock
    BY <1>1, Lengths DEF Blk, EntryBlk
  <2> QED BY <1>1, <2>1, Lengths DEF TypeOK
<1>3. CASE b = 0
  <2>1. ~grp.open BY <1>1, <1>2, <1>3 DEF Measured
  <2>2. size = s BY <1>1, <1>2, <2>1 DEF Measured
  <2>3. DecodeLength = k BY <1>2, <1>3 DEF DecodeLength
  <2> QED BY <1>2, <2>2, <2>3 DEF HeaderLength
<1>4. CASE b # 0
  <2>1. /\ grp.open /\ size = s + (4 + i * b)
        /\ Has(mem, GroupKey("numInGroup"), i)
    BY <1>1, <1>2, <1>4 DEF Measured
  <2>2. PICK p \in Nat : p = i * b
    <3>1. i * b \in Nat OBVIOUS
    <3> QED BY <3>1
  <2>3. size = s + (4 + p) /\ size # s BY <2>1, <2>2
  <2>4. Has(mem, GroupKey("blockLength"), b)
    BY <1>1, <1>2, <2>3 DEF Sent, Extent
  <2>5. IsPlace(s, 2, GroupKey("blockLength")) /\ IsPlace(s + 2, 2, GroupKey("numInGroup"))
    BY <1>2 DEF IsPlace, GroupPlace
  <2>6. Read(mem, s, 2).value = b
    BY <1>1, <2>4, <2>5, ReadFinds DEF MemOK
  <2>7. Read(mem, s + 2, 2).value = i
    <3>1. PICK at : at = s + 2 OBVIOUS
    <3> QED BY <1>1, <2>1, <2>5, <3>1, ReadFinds DEF MemOK
  <2>8. /\ HeaderLength + Layout[kind].block = s /\ Layout[kind].entryBlock = b
        /\ Read(mem, (HeaderLength + Layout[kind].block) + 2, 2).value
             * Read(mem, HeaderLength + Layout[kind].block, 2).value = p
    <3>1. HeaderLength + Layout[kind].block = s BY <1>2 DEF HeaderLength
    <3> QED BY <1>2, <2>2, <2>6, <2>7, <3>1
  <2>9. PICK q : q = Read(mem, (HeaderLength + Layout[kind].block) + 2, 2).value
                       * Read(mem, HeaderLength + Layout[kind].block, 2).value
    OBVIOUS
  <2>10. DecodeLength =
           LET entries == s + GroupSizeLength
               end == entries + q
           IN  IF b = 0 THEN Layout[kind].block
               ELSE IF entries > size \/ end > size THEN -1
               ELSE end - HeaderLength
    BY <2>8, <2>9 DEF DecodeLength
  <2>11. q = p BY <2>8, <2>9
  <2>12. ~(s + 4 > size) /\ ~((s + 4) + p > size) /\ (s + 4) + p = size BY <1>2, <2>2, <2>3
  <2> QED BY <1>4, <2>10, <2>11, <2>12 DEF GroupSizeLength
<1> QED BY <1>3, <1>4


-----------------------------------------------------------------------------
(* A quote and a trade announce one entry and open it in the next call.    *)
CountAt(e) == IF e.kind = "QUOTE" THEN 5 ELSE 3

OneEntry(d) ==
  /\ Len(calls) + d = CountAt(event) + 5
  /\ \A i \in 1..Len(calls) : calls[i] = CallsOf(event)[d + i]
  /\ grp.open <=> d >= CountAt(event)
  /\ grp.index = IF d > CountAt(event) THEN 1 ELSE 0
  /\ d >= CountAt(event) => grp.count = 1

LEMMA OneEntryCalls ==
  ASSUME NEW e, e.kind \in {"QUOTE", "TRADE"}
  PROVE  /\ Len(CallsOf(e)) = CountAt(e) + 5
         /\ \A j \in 1..(CountAt(e) + 5) :
              /\ CallsOf(e)[j].op \in Ops
              /\ CallsOf(e)[j].op = "count" <=> j = CountAt(e)
              /\ CallsOf(e)[j].op = "next" <=> j = CountAt(e) + 1
         /\ CallsOf(e)[CountAt(e)].value = 1
<1>1. CASE e.kind = "QUOTE"
  <2>1. CallsOf(e) = Quote(e) /\ CountAt(e) = 5 BY <1>1 DEF CallsOf, CountAt
  <2>2. PICK action, side, price : /\ action = ActionValue(e.action)
                                   /\ side = (IF e.side = "BID" THEN BID ELSE OFFER)
                                   /\ price = Mantissa(e.price)
    OBVIOUS
  <2>3. Quote(e) =
          <<Wrap, Set("securityID", e.id), Set("rptSeq", e.seq), Set("transactTime", e.time),
            Count(1), NextCall, SetEntry("mDUpdateAction", action),
            SetEntry("mDEntryType", side), SetEntry("mDEntryPx.mantissa", price),
            SetEntry("mDEntrySize", e.quantity)>>
    BY <2>2 DEF Quote
  <2>4. PICK q : q = Quote(e) OBVIOUS
  <2>5. /\ Len(q) = 10
        /\ q[1].op = "wrap" /\ q[2].op = "put" /\ q[3].op = "put" /\ q[4].op = "put"
        /\ q[5].op = "count" /\ q[5].value = 1 /\ q[6].op = "next" /\ q[7].op = "entry"
        /\ q[8].op = "entry" /\ q[9].op = "entry" /\ q[10].op = "entry"
    <3>1. /\ Wrap.op = "wrap" /\ Set("securityID", e.id).op = "put"
          /\ Set("rptSeq", e.seq).op = "put" /\ Set("transactTime", e.time).op = "put"
          /\ Count(1).op = "count" /\ NextCall.op = "next"
          /\ SetEntry("mDUpdateAction", action).op = "entry"
          /\ SetEntry("mDEntryType", side).op = "entry"
          /\ SetEntry("mDEntryPx.mantissa", price).op = "entry"
          /\ SetEntry("mDEntrySize", e.quantity).op = "entry"
          /\ Count(1).value = 1
      BY DEF Wrap, Set, Count, NextCall, SetEntry, Call
    <3>2. /\ q[1] = Wrap /\ q[2] = Set("securityID", e.id)
          /\ q[3] = Set("rptSeq", e.seq) /\ q[4] = Set("transactTime", e.time)
          /\ q[5] = Count(1) /\ q[6] = NextCall
          /\ q[7] = SetEntry("mDUpdateAction", action)
          /\ q[8] = SetEntry("mDEntryType", side)
          /\ q[9] = SetEntry("mDEntryPx.mantissa", price)
          /\ q[10] = SetEntry("mDEntrySize", e.quantity)
          /\ Len(q) = 10
      BY <2>3, <2>4
    <3> QED BY <3>1, <3>2
  <2>6. \A j \in 1..10 : j = 1 \/ j = 2 \/ j = 3 \/ j = 4 \/ j = 5 \/ j = 6 \/ j = 7
                          \/ j = 8 \/ j = 9 \/ j = 10
    OBVIOUS
  <2> QED BY <2>1, <2>4, <2>5, <2>6 DEF Ops
<1>2. CASE e.kind = "TRADE"
  <2>1. CallsOf(e) = Trade(e) /\ CountAt(e) = 3 BY <1>2 DEF CallsOf, CountAt
  <2>2. PICK side, price :
          /\ side = (CASE e.aggressor = "absent" -> 0 [] e.aggressor = "BID" -> 1
                       [] OTHER -> 2)
          /\ price = Mantissa(e.price)
    OBVIOUS
  <2>3. Trade(e) =
          <<Wrap, Set("securityID", e.id), Count(1), NextCall,
            SetEntry("transactTime", e.time), SetEntry("mDEntryPx.mantissa", price),
            SetEntry("mDEntrySize", e.quantity), SetEntry("aggressorSide", side)>>
    BY <2>2 DEF Trade
  <2>4. PICK q : q = Trade(e) OBVIOUS
  <2>5. /\ Len(q) = 8
        /\ q[1].op = "wrap" /\ q[2].op = "put" /\ q[3].op = "count" /\ q[3].value = 1
        /\ q[4].op = "next" /\ q[5].op = "entry" /\ q[6].op = "entry"
        /\ q[7].op = "entry" /\ q[8].op = "entry"
    <3>1. /\ Wrap.op = "wrap" /\ Set("securityID", e.id).op = "put"
          /\ Count(1).op = "count" /\ NextCall.op = "next"
          /\ SetEntry("transactTime", e.time).op = "entry"
          /\ SetEntry("mDEntryPx.mantissa", price).op = "entry"
          /\ SetEntry("mDEntrySize", e.quantity).op = "entry"
          /\ SetEntry("aggressorSide", side).op = "entry"
          /\ Count(1).value = 1
      BY DEF Wrap, Set, Count, NextCall, SetEntry, Call
    <3>2. /\ q[1] = Wrap /\ q[2] = Set("securityID", e.id)
          /\ q[3] = Count(1) /\ q[4] = NextCall
          /\ q[5] = SetEntry("transactTime", e.time)
          /\ q[6] = SetEntry("mDEntryPx.mantissa", price)
          /\ q[7] = SetEntry("mDEntrySize", e.quantity)
          /\ q[8] = SetEntry("aggressorSide", side)
          /\ Len(q) = 8
      BY <2>3, <2>4
    <3> QED BY <3>1, <3>2
  <2>6. \A j \in 1..8 : j = 1 \/ j = 2 \/ j = 3 \/ j = 4 \/ j = 5 \/ j = 6 \/ j = 7 \/ j = 8
    OBVIOUS
  <2> QED BY <2>1, <2>4, <2>5, <2>6 DEF Ops
<1> QED BY <1>1, <1>2

LEMMA OneEntrySteps ==
  ASSUME IInv, calls \in Seq(CallType), calls # << >>,
         event.kind \in {"QUOTE", "TRADE"}, NEW d \in Nat, OneEntry(d),
         MakeCall(Head(calls)), calls' = Tail(calls), event' = event, pc' # "threw"
  PROVE  OneEntry(d + 1)'
<1>1. PICK c : c = Head(calls) OBVIOUS
<1>2. PICK n \in Nat : n = Len(calls) /\ n > 0 BY TailTyped
<1>3. PICK k \in Nat : k = CountAt(event) /\ k > 1 BY DEF CountAt
<1>4. PICK all : all = CallsOf(event) OBVIOUS
<1>5. /\ c = calls[1] /\ Len(calls') = n - 1
      /\ \A i \in 1..(n - 1) : calls'[i] = calls[i + 1]
  BY <1>1, <1>2, TailTyped
<1>6. /\ n + d = k + 5 /\ \A i \in 1..n : calls[i] = all[d + i]
      /\ grp.open <=> d >= k
      /\ grp.index = IF d > k THEN 1 ELSE 0
      /\ d >= k => grp.count = 1
  BY <1>2, <1>3, <1>4 DEF OneEntry
<1>7. c = all[d + 1] /\ d + 1 \in 1..(k + 5) BY <1>2, <1>5, <1>6
<1>8. ASSUME NEW i \in 1..(n - 1) PROVE calls'[i] = all[(d + 1) + i]
  <2>1. i + 1 \in 1..n /\ d + (i + 1) = (d + 1) + i BY <1>2
  <2> QED BY <1>5, <1>6, <2>1
<1>9. /\ c.op \in Ops
      /\ c.op = "count" <=> d + 1 = k
      /\ c.op = "next" <=> d + 1 = k + 1
      /\ all[k].value = 1
  BY <1>3, <1>4, <1>7, OneEntryCalls
<1>10. /\ CallsOf(event') = all /\ CountAt(event') = k /\ Len(calls') + (d + 1) = k + 5
  BY <1>2, <1>3, <1>4, <1>5, <1>6
<1>11. /\ grp'.open <=> d + 1 >= k
       /\ grp'.index = IF d + 1 > k THEN 1 ELSE 0
       /\ d + 1 >= k => grp'.count = 1
  <2>1. CASE c.op = "count"
    <3>1. CountEntries(1) BY <1>1, <1>7, <1>9, <2>1 DEF MakeCall
    <3>2. grp'.open /\ grp'.index = 0 /\ grp'.count = 1
      BY <3>1 DEF CountEntries, Throw
    <3> QED BY <1>9, <2>1, <3>2
  <2>2. CASE c.op = "next"
    <3>1. NextEntry BY <1>1, <2>2 DEF MakeCall
    <3>2. grp' = [grp EXCEPT !.offset = msg.position, !.index = @ + 1]
      BY <3>1 DEF NextEntry, Throw
    <3>3. grp'.open = grp.open /\ grp'.count = grp.count /\ grp'.index = grp.index + 1
      BY <3>2 DEF IInv, TypeOK
    <3> QED BY <1>6, <1>9, <2>2, <3>3
  <2>3. CASE c.op \notin {"count", "next"}
    <3>1. WrapForEncode \/ Put(c.field, c.value, c.tooLong) \/ PutEntry(c.field, c.value)
      BY <1>1, <2>3 DEF MakeCall
    <3>2. grp' = grp BY <3>1 DEF WrapForEncode, Put, PutEntry, PutAt, Throw
    <3> QED BY <1>6, <1>9, <2>3, <3>2
  <2> QED BY <2>1, <2>2, <2>3
<1> QED BY <1>5, <1>8, <1>10, <1>11 DEF OneEntry

(* An event's message that left the encoder has the entries it announced.  *)
Filled ==
  /\ Layout[kind].entryBlock > 0 => grp.open /\ grp.index = grp.count
  /\ kind \in {"QUOTE", "TRADE"} => grp.count = 1

EventMade ==
  event # Other =>
    /\ kind = event.kind /\ extra = 0
    /\ (kind \in {"QUOTE", "TRADE"} /\ pc \in {"new", "encode"}) =>
         \E d \in Nat : OneEntry(d)
    /\ pc = "sent" => Filled

LEMMA FinishFilled ==
  ASSUME EInv, Ends, EventMade, event \in Event, event # Other,
         calls = << >>, Finish, event' = event
  PROVE  Filled'
<1>1. /\ IInv /\ pc = "encode" /\ kind = event.kind /\ kind \in Kind
      /\ kind \in {"HEARTBEAT", "SECDEF", "SNAPSHOT", "QUOTE", "TRADE"}
  BY EventAssumption DEF EInv, IInv, TypeOK, Finish, EventMade
<1>2. kind' = kind /\ grp' = grp /\ Layout[kind]' = Layout[kind]
  BY DEF Finish
<1>3. CASE kind \in {"HEARTBEAT", "SECDEF"}
  <2>1. Layout[kind].entryBlock = 0 BY <1>1, <1>3, SizesAssumption
  <2> QED BY <1>2, <1>3, <2>1 DEF Filled
<1>4. CASE kind \in {"QUOTE", "TRADE"}
  <2>1. PICK d \in Nat : OneEntry(d) BY <1>1, <1>4 DEF EventMade
  <2>2. Len(calls) = 0 /\ CountAt(event) \in Nat BY DEF CountAt
  <2>3. grp.open /\ grp.index = 1 /\ grp.count = 1 BY <2>1, <2>2 DEF OneEntry
  <2> QED BY <1>2, <2>3 DEF Filled
<1>5. CASE kind = "SNAPSHOT"
  <2>1. PICK d \in Nat : Progress(d) BY <1>1, <1>5 DEF EInv
  <2>2. grp.open /\ grp.count = Levels(event) /\ grp.index = grp.count
    BY <1>1, <1>5, <2>1, AllEntriesOpen
  <2> QED BY <1>2, <1>5, <2>2 DEF Filled
<1> QED BY <1>1, <1>3, <1>4, <1>5


LInv == EInv /\ Ends /\ EventMade

LEMMA InitLInv == EncoderInit => LInv
<1> SUFFICES ASSUME EncoderInit PROVE LInv
  OBVIOUS
<1>1. /\ EInv /\ pc = "new" /\ ~grp.open /\ grp.index = 0
  BY InitEInv DEF EncoderInit, Init, NoGroup
<1>2. event # Other => kind = event.kind /\ extra = 0
  BY DEF EncoderInit
<1>3. ASSUME event # Other, kind \in {"QUOTE", "TRADE"} PROVE OneEntry(0)
  <2>1. event.kind \in {"QUOTE", "TRADE"} BY <1>2, <1>3
  <2>2. calls = CallsOf(event) BY DEF EncoderInit
  <2>3. Len(calls) = CountAt(event) + 5 /\ CountAt(event) \in Nat /\ CountAt(event) > 0
    BY <2>1, <2>2, OneEntryCalls DEF CountAt
  <2>4. \A i \in 1..Len(calls) : calls[i] = CallsOf(event)[0 + i] BY <2>2
  <2> QED BY <1>1, <2>3, <2>4 DEF OneEntry
<1> QED BY <1>1, <1>2, <1>3 DEF LInv, Ends, EventMade

LEMMA EncodeMade ==
  ASSUME LInv, EncodeEvent PROVE Ends' /\ EventMade'
<1>1. /\ EInv /\ IInv /\ Ends /\ event # Other /\ event \in Event
      /\ calls \in Seq(CallType) /\ event' = event /\ pc \in {"new", "encode"}
      /\ kind = event.kind /\ extra = 0
  BY DEF LInv, EInv, EventMade, EncodeEvent
<1>2. CASE calls # << >> /\ MakeCall(Head(calls)) /\ calls' = Tail(calls)
  <2>1. Head(calls) \in CallType BY <1>1, <1>2, TailTyped
  <2>2. Ends' /\ pc' \in {"encode", "threw"} BY <1>1, <1>2, <2>1, CallEnds, CallKeeps
  <2>3. kind' = kind /\ extra' = extra
    BY <1>2 DEF MakeCall, WrapForEncode, Put, PutEntry, PutAt, CountEntries, NextEntry,
                Throw, object
  <2>4. ASSUME kind \in {"QUOTE", "TRADE"}, pc' # "threw"
        PROVE  \E d \in Nat : OneEntry(d)'
    <3>1. PICK d \in Nat : OneEntry(d) BY <1>1, <2>4 DEF LInv, EventMade
    <3> QED BY <1>1, <1>2, <2>4, <3>1, OneEntrySteps
  <2> QED BY <1>1, <2>2, <2>3, <2>4 DEF EventMade
<1>3. CASE calls = << >> /\ Finish /\ UNCHANGED calls
  <2>1. Ends' BY <1>1, <1>3, FinishMeasured
  <2>2. Filled' BY <1>1, <1>3, FinishFilled DEF LInv
  <2>3. pc' = "sent" /\ kind' = kind /\ extra' = extra BY <1>3 DEF Finish
  <2> QED BY <1>1, <2>1, <2>2, <2>3 DEF EventMade
<1> QED BY <1>2, <1>3 DEF EncodeEvent

LEMMA NextLInv == LInv /\ [EncoderNext]_encoderVars => LInv'
<1> SUFFICES ASSUME LInv, [EncoderNext]_encoderVars PROVE LInv'
  OBVIOUS
<1>1. EInv' BY NextEInv DEF LInv
<1>2. /\ IInv /\ Ends /\ EventMade BY DEF LInv, EInv
<1>3. CASE UNCHANGED encoderVars
  <2>1. UNCHANGED vars /\ event' = event /\ calls' = calls BY <1>3 DEF encoderVars
  <2>2. Ends' BY <1>2, <2>1, NextEnds
  <2>3. UNCHANGED <<pc, kind, extra, grp>> BY <2>1 DEF vars
  <2>4. EventMade' BY <1>2, <2>1, <2>3 DEF EventMade, OneEntry, Filled
  <2> QED BY <1>1, <2>2, <2>4 DEF LInv
<1>4. CASE EncodeEvent
  BY <1>1, <1>4, EncodeMade DEF LInv
<1>5. CASE UseOtherwise
  <2>1. Next /\ event = Other /\ event' = event
    BY <1>5 DEF UseOtherwise, Next
  <2>2. Ends' BY <1>2, <2>1, NextEnds
  <2> QED BY <1>1, <2>1, <2>2 DEF LInv, EventMade
<1>6. CASE Receive
  <2>1. Next /\ event' = event BY <1>6 DEF Receive, Next
  <2>2. Ends' BY <1>2, <2>1, NextEnds
  <2>3. pc' \in {"decode", "threw"} /\ kind' = kind /\ extra' = extra
    BY <1>6 DEF Receive, Decode, WrapForDecode, OpenEntries, Rewind, NextEntry, Throw, object
  <2>4. EventMade' BY <1>2, <2>1, <2>3 DEF EventMade
  <2> QED BY <1>1, <2>2, <2>4 DEF LInv
<1> QED BY <1>3, <1>4, <1>5, <1>6 DEF EncoderNext

(* The length of an event's message, from the sizes of its class. *)
LEMMA LengthOfEvent ==
  ASSUME LInv, pc = "sent", event # Other
  PROVE  size = W!MessageLength(kind, grp.count)
<1>1. /\ Measured(size) /\ Filled /\ extra = 0 /\ KindOK /\ TypeOK
  BY DEF LInv, EInv, IInv, Ends, EventMade, TypeOK, KindOK
<1>2. PICK i \in Nat, e \in Nat, b \in Nat :
        i = grp.index /\ e = Layout[kind].entryBlock /\ b = Layout[kind].block
  BY <1>1, Lengths DEF TypeOK
<1>3. Start = 8 + b /\ EntryBlk = e
  BY <1>1, <1>2, Lengths DEF Blk, EntryBlk
<1>4. /\ size = (8 + b) + (IF grp.open THEN 4 + i * e ELSE 0)
      /\ grp.open <=> e > 0
      /\ grp.open => grp.count = i
      /\ kind \in {"QUOTE", "TRADE"} => grp.count = 1
  BY <1>1, <1>2, <1>3 DEF Measured, Filled
<1>5. \/ kind = "HEARTBEAT" /\ b = 0 /\ e = 0
      \/ kind = "SECDEF" /\ b = 106 /\ e = 0
      \/ kind = "SNAPSHOT" /\ b = 46 /\ e = 17
      \/ kind = "QUOTE" /\ b = 36 /\ e = 18
      \/ kind = "TRADE" /\ b = 24 /\ e = 29
  BY <1>1, <1>2, SizesAssumption DEF KindOK
<1>6. CASE kind = "HEARTBEAT"
  BY <1>4, <1>5, <1>6 DEF W!MessageLength, W!BlockLength
<1>7. CASE kind = "SECDEF"
  BY <1>4, <1>5, <1>7 DEF W!MessageLength, W!BlockLength
<1>8. CASE kind = "SNAPSHOT"
  BY <1>4, <1>5, <1>8 DEF W!MessageLength
<1>9. CASE kind = "QUOTE"
  <2>1. i = 1 BY <1>4, <1>5, <1>9
  <2> QED BY <1>4, <1>5, <1>9, <2>1 DEF W!MessageLength
<1>10. CASE kind = "TRADE"
  <2>1. i = 1 BY <1>4, <1>5, <1>10
  <2> QED BY <1>4, <1>5, <1>10, <2>1 DEF W!MessageLength
<1> QED BY <1>5, <1>6, <1>7, <1>8, <1>9, <1>10

(* The three ways in which the length of a message is found agree: the     *)
(* encoder's position, decodeLength()'s walk over the bytes and the sizes  *)
(* that the packets of the publisher are reckoned with.                    *)
THEOREM LengthsAlwaysAgree == EncoderSpec => []LengthsAgree
<1>1. ASSUME LInv PROVE LengthsAgree
  BY <1>1, LengthDecodes, LengthOfEvent DEF LInv, EInv, LengthsAgree
<1> QED BY <1>1, InitLInv, NextLInv, PTL DEF EncoderSpec

-----------------------------------------------------------------------------
(* What the encoder sets an enumeration to *)

Readable(e, c) ==
  /\ c.op = "put" => /\ c.field \notin {"securityType", "rateTerm"}
                     /\ c.field = "securityUpdateAction" => c.value = 65
  /\ c.op = "entry" =>
       /\ c.field = "mDEntryType" => c.value \in {BID, OFFER}
       /\ c.field = "aggressorSide" => c.value \in 0..2
       /\ c.field = "mDUpdateAction" => /\ e.kind = "QUOTE"
                                        /\ c.value = ActionValue(e.action)

LEMMA ReadableKinds ==
  ASSUME NEW e
  PROVE  /\ Readable(e, Wrap) /\ Readable(e, NextCall)
         /\ \A n : Readable(e, Count(n))
         /\ \A f \in Names, v \in Nat :
              /\ f # "securityUpdateAction" => Readable(e, Set(f, v))
              /\ f \notin {"mDEntryType", "aggressorSide", "mDUpdateAction"} =>
                   Readable(e, SetEntry(f, v))
              /\ v \in {BID, OFFER} => Readable(e, SetEntry("mDEntryType", v))
              /\ v \in 0..2 => Readable(e, SetEntry("aggressorSide", v))
              /\ e.kind = "QUOTE" /\ v = ActionValue(e.action) =>
                   Readable(e, SetEntry("mDUpdateAction", v))
         /\ Readable(e, Set("securityUpdateAction", 65))
<1>1. Readable(e, Wrap) /\ Readable(e, NextCall)
  BY DEF Readable, Wrap, NextCall, Call
<1>2. \A n : Readable(e, Count(n))
  BY DEF Readable, Count, Call
<1>3. \A f \in Names, v \in Nat : f # "securityUpdateAction" => Readable(e, Set(f, v))
  BY DEF Readable, Set, Call, Names
<1>4. \A f \in Names, v \in Nat :
        f \notin {"mDEntryType", "aggressorSide", "mDUpdateAction"} =>
          Readable(e, SetEntry(f, v))
  BY DEF Readable, SetEntry, Call
<1>5. \A v : v \in {BID, OFFER} => Readable(e, SetEntry("mDEntryType", v))
  BY DEF Readable, SetEntry, Call
<1>6. \A v : v \in 0..2 => Readable(e, SetEntry("aggressorSide", v))
  BY DEF Readable, SetEntry, Call
<1>7. \A v : e.kind = "QUOTE" /\ v = ActionValue(e.action) =>
               Readable(e, SetEntry("mDUpdateAction", v))
  BY DEF Readable, SetEntry, Call
<1>8. Readable(e, Set("securityUpdateAction", 65))
  BY DEF Readable, Set, Call
<1> QED BY <1>1, <1>2, <1>3, <1>4, <1>5, <1>6, <1>7, <1>8

LEMMA TupleElements ==
  ASSUME NEW e
  PROVE  /\ \A a : Readable(e, a) =>
              \A i \in 1..Len(<<a>>) : Readable(e, <<a>>[i])
         /\ \A a, b, c, d, f, g, h :
              (/\ Readable(e, a) /\ Readable(e, b) /\ Readable(e, c) /\ Readable(e, d)
               /\ Readable(e, f) /\ Readable(e, g) /\ Readable(e, h)) =>
              \A i \in 1..Len(<<a, b, c, d, f, g, h>>) :
                Readable(e, <<a, b, c, d, f, g, h>>[i])
         /\ \A a, b, c, d, f, g, h, j :
              (/\ Readable(e, a) /\ Readable(e, b) /\ Readable(e, c) /\ Readable(e, d)
               /\ Readable(e, f) /\ Readable(e, g) /\ Readable(e, h) /\ Readable(e, j)) =>
              \A i \in 1..Len(<<a, b, c, d, f, g, h, j>>) :
                Readable(e, <<a, b, c, d, f, g, h, j>>[i])
         /\ \A a, b, c, d, f, g, h, j, k, l :
              (/\ Readable(e, a) /\ Readable(e, b) /\ Readable(e, c) /\ Readable(e, d)
               /\ Readable(e, f) /\ Readable(e, g) /\ Readable(e, h) /\ Readable(e, j)
               /\ Readable(e, k) /\ Readable(e, l)) =>
              \A i \in 1..Len(<<a, b, c, d, f, g, h, j, k, l>>) :
                Readable(e, <<a, b, c, d, f, g, h, j, k, l>>[i])
OBVIOUS

LEMMA CallsReadable ==
  ASSUME NEW e \in Event
  PROVE  \A i \in 1..Len(CallsOf(e)) : Readable(e, CallsOf(e)[i])
<1>1. {"securityUpdateAction", "lastUpdateTime", "securityID", "symbol", "currency1",
       "currency2", "transactTime", "rptSeq", "mDUpdateAction", "mDEntryType",
       "mDEntryPx.mantissa", "mDEntrySize", "aggressorSide"} \subseteq Names
  BY DEF Names
<1>2. CASE e.kind = "HEARTBEAT"
  <2>1. \A i \in 1..Len(Heartbeat) : Readable(e, Heartbeat[i])
    BY ReadableKinds, TupleElements DEF Heartbeat
  <2> QED BY <1>2, <2>1 DEF CallsOf
<1>3. CASE e.kind = "SECDEF"
  <2>1. {e.time, e.id, e.symbol} \subseteq Nat BY <1>3, EventAssumption
  <2>2. Readable(e, Call("put", "symbol", e.symbol, e.longSymbol))
    BY DEF Readable, Call
  <2>3. /\ Readable(e, Wrap) /\ Readable(e, Set("securityUpdateAction", 65))
        /\ Readable(e, Set("lastUpdateTime", e.time)) /\ Readable(e, Set("securityID", e.id))
        /\ Readable(e, Set("currency1", 840)) /\ Readable(e, Set("currency2", 978))
    BY <1>1, <2>1, ReadableKinds
  <2>4. \A i \in 1..Len(Definition(e)) : Readable(e, Definition(e)[i])
    BY <2>2, <2>3, TupleElements DEF Definition
  <2> QED BY <1>3, <2>4 DEF CallsOf
<1>4. CASE e.kind = "SNAPSHOT"
  <2>1. CallsOf(e) = Snapshot(e) BY <1>4 DEF CallsOf
  <2>2. Levels(e) \in Nat /\ Len(Snapshot(e)) = 5 + 4 * Levels(e)
    BY <1>4, SnapshotCalls
  <2>3. ASSUME NEW i \in 1..Len(Snapshot(e)) PROVE Readable(e, Snapshot(e)[i])
    <3>1. PICK c : c = Snapshot(e)[i] OBVIOUS
    <3>2. CASE i = 1
      <4>1. c.op = "wrap" BY <1>4, <3>1, <3>2, SnapshotCalls
      <4> QED BY <3>1, <4>1 DEF Readable
    <3>3. CASE i \in 2..4
      <4>1. c.op = "put" /\ c.field \in BlockNames BY <1>4, <3>1, <3>3, SnapshotCalls
      <4> QED BY <3>1, <4>1 DEF Readable, BlockNames
    <3>4. CASE i = 5
      <4>1. c.op = "count" BY <1>4, <3>1, <3>4, SnapshotCalls
      <4> QED BY <3>1, <4>1 DEF Readable
    <3>5. CASE i \in 6..(5 + 4 * Levels(e))
      <4>1. PICK r \in 1..4 : r = ((i - 2) % 4) + 1 BY <3>5, <2>2
      <4>2. /\ r = 1 => c.op = "next"
            /\ r # 1 => c.op = "entry" /\ c.field = FieldAt(r)
            /\ r = 2 => c.value = TypeOf(e, EntryOf(i))
        BY <1>4, <3>1, <3>5, <4>1, EntryCalls
      <4>3. r = 1 \/ r = 2 \/ r = 3 \/ r = 4 OBVIOUS
      <4> QED BY <3>1, <4>2, <4>3 DEF Readable, FieldAt, TypeOf
    <3> QED BY <2>2, <3>2, <3>3, <3>4, <3>5
  <2> QED BY <2>1, <2>3
<1>5. CASE e.kind = "QUOTE"
  <2>1. {e.id, e.time, e.seq, e.price, e.quantity} \subseteq Nat /\ e.action \in Action
    BY <1>5, EventAssumption
  <2>2. PICK action \in Nat, side \in Nat, price \in Nat :
          /\ action = ActionValue(e.action) /\ price = Mantissa(e.price)
          /\ side = (IF e.side = "BID" THEN BID ELSE OFFER) /\ side \in {BID, OFFER}
    BY <2>1 DEF ActionValue, Action, Mantissa, BID, OFFER
  <2>3. /\ Readable(e, Wrap) /\ Readable(e, Count(1)) /\ Readable(e, NextCall)
        /\ Readable(e, Set("securityID", e.id)) /\ Readable(e, Set("rptSeq", e.seq))
        /\ Readable(e, Set("transactTime", e.time))
        /\ Readable(e, SetEntry("mDEntryPx.mantissa", price))
        /\ Readable(e, SetEntry("mDEntrySize", e.quantity))
    BY <1>1, <2>1, <2>2, ReadableKinds
  <2>4. Readable(e, SetEntry("mDUpdateAction", action))
    BY <1>1, <1>5, <2>2, ReadableKinds
  <2>5. Readable(e, SetEntry("mDEntryType", side))
    BY <1>1, <2>2, ReadableKinds
  <2>6. Quote(e) =
          <<Wrap, Set("securityID", e.id), Set("rptSeq", e.seq), Set("transactTime", e.time),
            Count(1), NextCall, SetEntry("mDUpdateAction", action),
            SetEntry("mDEntryType", side), SetEntry("mDEntryPx.mantissa", price),
            SetEntry("mDEntrySize", e.quantity)>>
    BY <2>2 DEF Quote
  <2>7. \A i \in 1..Len(Quote(e)) : Readable(e, Quote(e)[i])
    BY <2>3, <2>4, <2>5, <2>6, TupleElements
  <2> QED BY <1>5, <2>7 DEF CallsOf
<1>6. CASE e.kind = "TRADE"
  <2>1. {e.id, e.time, e.price, e.quantity} \subseteq Nat BY <1>6, EventAssumption
  <2>2. PICK side \in 0..2, price \in Nat :
          /\ side = (CASE e.aggressor = "absent" -> 0 [] e.aggressor = "BID" -> 1
                       [] OTHER -> 2)
          /\ price = Mantissa(e.price)
    BY <2>1 DEF Mantissa
  <2>3. /\ Readable(e, Wrap) /\ Readable(e, Count(1)) /\ Readable(e, NextCall)
        /\ Readable(e, Set("securityID", e.id))
        /\ Readable(e, SetEntry("transactTime", e.time))
        /\ Readable(e, SetEntry("mDEntryPx.mantissa", price))
        /\ Readable(e, SetEntry("mDEntrySize", e.quantity))
    BY <1>1, <2>1, <2>2, ReadableKinds
  <2>4. Readable(e, SetEntry("aggressorSide", side))
    BY <1>1, <2>2, ReadableKinds
  <2>5. Trade(e) =
          <<Wrap, Set("securityID", e.id), Count(1), NextCall,
            SetEntry("transactTime", e.time), SetEntry("mDEntryPx.mantissa", price),
            SetEntry("mDEntrySize", e.quantity), SetEntry("aggressorSide", side)>>
    BY <2>2 DEF Trade
  <2>6. \A i \in 1..Len(Trade(e)) : Readable(e, Trade(e)[i])
    BY <2>3, <2>4, <2>5, TupleElements
  <2> QED BY <1>6, <2>6 DEF CallsOf
<1> QED BY <1>2, <1>3, <1>4, <1>5, <1>6, EventAssumption

LEMMA ActionIsSet ==
  ASSUME NEW e, e.kind = "QUOTE"
  PROVE  /\ Len(CallsOf(e)) = 10
         /\ CallsOf(e)[7].op = "entry" /\ CallsOf(e)[7].field = "mDUpdateAction"
<1>1. CallsOf(e) = Quote(e) BY DEF CallsOf
<1>2. PICK c : c = SetEntry("mDUpdateAction", ActionValue(e.action)) OBVIOUS
<1>3. c.op = "entry" /\ c.field = "mDUpdateAction" BY <1>2 DEF SetEntry, Call
<1>4. PICK side, price : /\ side = (IF e.side = "BID" THEN BID ELSE OFFER)
                         /\ price = Mantissa(e.price)
  OBVIOUS
<1>5. Quote(e) =
        <<Wrap, Set("securityID", e.id), Set("rptSeq", e.seq), Set("transactTime", e.time),
          Count(1), NextCall, c, SetEntry("mDEntryType", side),
          SetEntry("mDEntryPx.mantissa", price), SetEntry("mDEntrySize", e.quantity)>>
  BY <1>2, <1>4 DEF Quote
<1>6. Len(Quote(e)) = 10 /\ Quote(e)[7] = c BY <1>5
<1> QED BY <1>1, <1>3, <1>6

(* The same of what was put under a key. *)
KeyReadable(e, k, v) ==
  /\ k.entry = 0 => /\ k.name \notin {"securityType", "rateTerm"}
                    /\ k.name = "securityUpdateAction" => v = 65
  /\ k.entry # 0 =>
       /\ k.name = "mDEntryType" => v \in {BID, OFFER}
       /\ k.name = "aggressorSide" => v \in 0..2
       /\ k.name = "mDUpdateAction" => e.kind = "QUOTE" /\ v = ActionValue(e.action)

PutReadable ==
  /\ \A i \in 1..Len(calls) : Readable(event, calls[i])
  /\ \A k \in DOMAIN put : KeyReadable(event, k, put[k])

ActionKey == EntryKey(1, "mDUpdateAction")

(* The seventh of the ten calls of a quote sets the action of its one entry. *)
ActionPut ==
  event.kind = "QUOTE" =>
    /\ (pc = "encode" /\ Len(calls) < 4) => ActionKey \in DOMAIN put
    /\ pc \in {"sent", "decode"} => DOMAIN placed = 1..1 /\ ActionKey \in DOMAIN put

UInv == LInv /\ (event # Other => PutReadable /\ ActionPut)

LEMMA InitUInv == EncoderInit => UInv
<1> SUFFICES ASSUME EncoderInit PROVE UInv
  OBVIOUS
<1>1. LInv /\ pc = "new" /\ put = << >>
  BY InitLInv DEF EncoderInit, Init
<1>2. DOMAIN put = {} BY <1>1
<1>3. event # Other => \A i \in 1..Len(calls) : Readable(event, calls[i])
  BY CallsReadable DEF EncoderInit
<1> QED BY <1>1, <1>2, <1>3 DEF UInv, PutReadable, ActionPut

Puts(key, value) ==
  put' = [k \in DOMAIN put \cup {key} |-> IF k = key THEN value ELSE put[k]]

(* A call puts one value, or none. *)
LEMMA CallPuts ==
  ASSUME NEW c, MakeCall(c)
  PROVE  \/ put' = put /\ (pc' = "threw" \/ c.op \notin {"put", "entry"})
         \/ c.op = "put" /\ Puts(RootKey(c.field), c.value)
         \/ /\ c.op = "entry" /\ grp.index > 0
            /\ Puts(EntryKey(grp.index, c.field), c.value)
<1>1. CASE c.op = "wrap" /\ WrapForEncode
  BY <1>1 DEF WrapForEncode, Throw, history
<1>2. CASE c.op = "put" /\ Put(c.field, c.value, c.tooLong)
  BY <1>2 DEF Put, PutAt, Throw, history, Puts
<1>3. CASE c.op = "count" /\ CountEntries(c.value)
  BY <1>3 DEF CountEntries, Throw, history
<1>4. CASE c.op = "next" /\ NextEntry
  BY <1>4 DEF NextEntry, Throw, history
<1>5. CASE c.op = "entry" /\ PutEntry(c.field, c.value)
  BY <1>5 DEF PutEntry, PutAt, Throw, history, Puts
<1> QED BY <1>1, <1>2, <1>3, <1>4, <1>5 DEF MakeCall

LEMMA EncodePuts ==
  ASSUME UInv, EncodeEvent PROVE PutReadable' /\ ActionPut'
<1>1. /\ LInv /\ EInv /\ IInv /\ event # Other /\ event \in Event
      /\ calls \in Seq(CallType) /\ event' = event /\ pc \in {"new", "encode"}
      /\ PutReadable /\ ActionPut
  BY DEF UInv, LInv, EInv, EncodeEvent
<1>2. CASE calls # << >> /\ MakeCall(Head(calls)) /\ calls' = Tail(calls)
  <2>1. PICK c : c = Head(calls) OBVIOUS
  <2>2. PICK n \in Nat : n = Len(calls) /\ n > 0 BY <1>1, <1>2, TailTyped
  <2>3. /\ c \in CallType /\ c = calls[1] /\ Len(calls') = n - 1
        /\ \A i \in 1..(n - 1) : calls'[i] = calls[i + 1]
    BY <1>1, <1>2, <2>1, <2>2, TailTyped
  <2>4. Readable(event, c) /\ \A i \in 1..(n - 1) : Readable(event, calls'[i])
    <3>1. 1 \in 1..n /\ \A i \in 1..(n - 1) : i + 1 \in 1..n BY <2>2
    <3> QED BY <1>1, <2>2, <2>3, <3>1 DEF PutReadable
  <2>5. \/ put' = put /\ (pc' = "threw" \/ c.op \notin {"put", "entry"})
        \/ c.op = "put" /\ Puts(RootKey(c.field), c.value)
        \/ /\ c.op = "entry" /\ grp.index > 0
           /\ Puts(EntryKey(grp.index, c.field), c.value)
    BY <1>2, <2>1, CallPuts
  <2>6. \A k \in DOMAIN put' : KeyReadable(event, k, put'[k])
    <3>1. CASE put' = put BY <1>1, <3>1 DEF PutReadable
    <3>2. CASE c.op = "put" /\ Puts(RootKey(c.field), c.value)
      <4>1. RootKey(c.field).entry = 0 /\ RootKey(c.field).name = c.field BY DEF RootKey
      <4>2. KeyReadable(event, RootKey(c.field), c.value)
        BY <2>4, <3>2, <4>1 DEF Readable, KeyReadable
      <4> QED BY <1>1, <3>2, <4>2 DEF PutReadable, Puts
    <3>3. CASE /\ c.op = "entry" /\ grp.index > 0
               /\ Puts(EntryKey(grp.index, c.field), c.value)
      <4>1. /\ EntryKey(grp.index, c.field).entry # 0
            /\ EntryKey(grp.index, c.field).name = c.field
        BY <3>3 DEF EntryKey
      <4>2. KeyReadable(event, EntryKey(grp.index, c.field), c.value)
        BY <2>4, <3>3, <4>1 DEF Readable, KeyReadable
      <4> QED BY <1>1, <3>3, <4>2 DEF PutReadable, Puts
    <3> QED BY <2>5, <3>1, <3>2, <3>3
  <2>7. PutReadable' BY <1>1, <2>3, <2>4, <2>6 DEF PutReadable
  <2>8. pc' \in {"encode", "threw"} BY <1>1, <1>2, <2>1, <2>3, CallKeeps
  <2>9. ASSUME event'.kind = "QUOTE", pc' = "encode", Len(calls') < 4
        PROVE  ActionKey \in DOMAIN put'
    <3>1. event.kind = "QUOTE" /\ n - 1 < 4 BY <1>1, <2>3, <2>9
    <3>2. CASE n < 4
      <4>1. pc = "encode"
        <5>1. PICK d \in Nat : OneEntry(d)
          BY <1>1, <3>1 DEF LInv, EventMade
        <5>2. n + d = 10 BY <2>2, <3>1, <5>1 DEF OneEntry, CountAt
        <5>3. grp.index = 1 BY <3>1, <3>2, <5>1, <5>2 DEF OneEntry, CountAt
        <5> QED BY <1>1, <5>3 DEF IInv, NoGroup
      <4>2. ActionKey \in DOMAIN put BY <1>1, <2>2, <3>1, <3>2, <4>1 DEF ActionPut
      <4>3. DOMAIN put \subseteq DOMAIN put' BY <2>5 DEF Puts
      <4> QED BY <4>2, <4>3
    <3>3. CASE n = 4
      <4>1. PICK d \in Nat : OneEntry(d) BY <1>1, <3>1 DEF LInv, EventMade
      <4>2. n + d = 10 BY <2>2, <3>1, <4>1 DEF OneEntry, CountAt
      <4>3. d = 6 BY <3>3, <4>2
      <4>4. grp.index = 1 /\ calls[1] = CallsOf(event)[7]
        <5>1. 1 \in 1..Len(calls) BY <2>2
        <5> QED BY <3>1, <4>1, <4>3, <5>1 DEF OneEntry, CountAt
      <4>5. c.op = "entry" /\ c.field = "mDUpdateAction"
        BY <2>3, <3>1, <4>4, ActionIsSet
      <4>6. Puts(EntryKey(1, "mDUpdateAction"), c.value)
        BY <2>5, <2>9, <4>4, <4>5
      <4> QED BY <4>6 DEF Puts, ActionKey
    <3> QED BY <2>2, <3>1, <3>2, <3>3
  <2>10. ActionPut'
    <3>1. ActionKey' = ActionKey BY DEF ActionKey, EntryKey
    <3> QED BY <2>8, <2>9, <3>1 DEF ActionPut
  <2> QED BY <2>7, <2>10
<1>3. CASE calls = << >> /\ Finish /\ UNCHANGED calls
  <2>1. /\ pc = "encode" /\ pc' = "sent" /\ put' = put /\ placed' = placed
        /\ calls' = calls
    BY <1>3 DEF Finish, history
  <2>2. PutReadable' BY <1>1, <2>1 DEF PutReadable
  <2>3. ASSUME event.kind = "QUOTE"
        PROVE  DOMAIN placed = 1..1 /\ ActionKey \in DOMAIN put
    <3>1. Len(calls) = 0 BY <1>3
    <3>2. ActionKey \in DOMAIN put BY <1>1, <2>1, <2>3, <3>1 DEF ActionPut
    <3>3. PICK d \in Nat : OneEntry(d) BY <1>1, <2>3 DEF LInv, EventMade
    <3>4. grp.index = 1 BY <2>3, <3>1, <3>3 DEF OneEntry, CountAt
    <3>5. DOMAIN placed = 1..grp.index BY <1>1, <2>1 DEF IInv, Encoding, Extent
    <3> QED BY <3>2, <3>4, <3>5
  <2>4. ActionPut' BY <1>1, <2>1, <2>3 DEF ActionPut, ActionKey, EntryKey
  <2> QED BY <2>2, <2>4
<1> QED BY <1>2, <1>3 DEF EncodeEvent

LEMMA NextUInv == UInv /\ [EncoderNext]_encoderVars => UInv'
<1> SUFFICES ASSUME UInv, [EncoderNext]_encoderVars PROVE UInv'
  OBVIOUS
<1>1. LInv' BY NextLInv DEF UInv
<1>2. ASSUME event # Other, UNCHANGED <<event, calls, put, placed>>,
             pc' = pc \/ pc' = "threw" \/ (pc = "sent" /\ pc' = "decode")
      PROVE  PutReadable' /\ ActionPut'
  BY <1>2 DEF UInv, PutReadable, ActionPut, ActionKey, EntryKey
<1>3. CASE UNCHANGED encoderVars
  BY <1>1, <1>2, <1>3 DEF encoderVars, vars, UInv
<1>4. CASE EncodeEvent
  BY <1>1, <1>4, EncodePuts DEF UInv
<1>5. CASE UseOtherwise
  <2>1. event' = Other BY <1>5 DEF UseOtherwise
  <2> QED BY <1>1, <2>1 DEF UInv
<1>6. CASE Receive
  <2>1. UNCHANGED <<event, calls>> BY <1>6 DEF Receive
  <2>2. /\ UNCHANGED <<put, placed>>
        /\ pc' = pc \/ pc' = "threw" \/ (pc = "sent" /\ pc' = "decode")
    BY <1>6 DEF Receive, Decode, WrapForDecode, OpenEntries, Rewind, NextEntry, Throw, history
  <2> QED BY <1>1, <1>2, <2>1, <2>2 DEF UInv
<1> QED BY <1>3, <1>4, <1>5, <1>6 DEF EncoderNext

(* A getter is absent only for a code that is no enumerator. *)
LEMMA AbsentMeans ==
  ASSUME TypeOK, NEW base, NEW field, NEW key, Returns(base, field, key)
  PROVE  GetAt(base, field, key) = Absent <=>
           /\ field.type = "enum"
           /\ (IF key \in DOMAIN put THEN put[key] ELSE 0) \notin field.codes
<1>1. PICK set : set = (IF key \in DOMAIN put THEN put[key] ELSE 0) OBVIOUS
<1>2. set \in Nat BY <1>1 DEF TypeOK
<1>3. PICK known : known = (IF key \in DOMAIN put \/ field.type = "constant"
                            THEN key ELSE Zero.key)
  OBVIOUS
<1>4. [key |-> known, value |-> set] # Absent BY <1>2 DEF Absent
<1>5. GetAt(base, field, key) =
        IF field.type = "enum" /\ set \notin field.codes THEN Absent
        ELSE [key |-> known, value |-> set]
  BY <1>1, <1>3 DEF Returns
<1> QED BY <1>1, <1>4, <1>5

LEMMA UInvReadable == UInv => UnreadableFields
<1> SUFFICES ASSUME UInv, event # Other, pc = "decode"
             PROVE  /\ \A f \in DOMAIN Fields : Get(f) = Absent => f = "rateTerm"
                    /\ grp.index > 0 =>
                         \A f \in DOMAIN EntryFields :
                           GetEntry(f) = Absent <=>
                             /\ f = "mDUpdateAction" /\ event.kind = "QUOTE"
                             /\ event.action \in {"OVERLAY", "CLEAR"}
  BY DEF UnreadableFields
<1>1. /\ IInv /\ TypeOK /\ Decoding /\ event \in Event /\ kind \in Kind
      /\ kind = event.kind /\ PutReadable /\ ActionPut
  BY DEF UInv, LInv, EInv, IInv, TypeOK, EventMade
<1>2. RoundTrip BY <1>1, IInvRoundTrip
<1>3. ASSUME NEW f \in DOMAIN Fields, Get(f) = Absent PROVE f = "rateTerm"
  <2>1. Returns(msg.offset, Fields[f], RootKey(f)) BY <1>2 DEF RoundTrip
  <2>2. PICK set : set = (IF RootKey(f) \in DOMAIN put THEN put[RootKey(f)] ELSE 0)
    OBVIOUS
  <2>3. Fields[f].type = "enum" /\ set \notin Fields[f].codes
    BY <1>1, <1>3, <2>1, <2>2, AbsentMeans DEF Get
  <2>4. /\ f \in {"securityUpdateAction", "securityType", "rateTerm"}
        /\ f # "rateTerm" => 0 \in Fields[f].codes
        /\ f = "securityUpdateAction" => 65 \in Fields[f].codes
    BY <1>1, <2>3, CodesAssumption DEF Fields
  <2>5. RootKey(f).entry = 0 /\ RootKey(f).name = f BY DEF RootKey
  <2>6. CASE RootKey(f) \in DOMAIN put
    <3>1. KeyReadable(event, RootKey(f), put[RootKey(f)]) BY <1>1, <2>6 DEF PutReadable
    <3> QED BY <2>2, <2>3, <2>4, <2>5, <2>6, <3>1 DEF KeyReadable
  <2>7. CASE RootKey(f) \notin DOMAIN put
    BY <2>2, <2>3, <2>4, <2>7
  <2> QED BY <2>6, <2>7
<1>4. ASSUME grp.index > 0, NEW f \in DOMAIN EntryFields
      PROVE  GetEntry(f) = Absent <=> /\ f = "mDUpdateAction" /\ event.kind = "QUOTE"
                                      /\ event.action \in {"OVERLAY", "CLEAR"}
  <2>1. PICK key : key = EntryKey(grp.index, f) OBVIOUS
  <2>2. key.entry # 0 /\ key.name = f BY <1>4, <2>1 DEF EntryKey
  <2>3. PICK set : set = (IF key \in DOMAIN put THEN put[key] ELSE 0) OBVIOUS
  <2>4. GetEntry(f) = Absent <=>
          EntryFields[f].type = "enum" /\ set \notin EntryFields[f].codes
    <3>1. Returns(grp.offset, EntryFields[f], key) BY <1>2, <1>4, <2>1 DEF RoundTrip
    <3> QED BY <1>1, <2>1, <2>3, <3>1, AbsentMeans DEF GetEntry
  <2>5. EntryFields[f].type = "enum" =>
          /\ f \in {"mDUpdateAction", "mDEntryType", "aggressorSide"}
          /\ 0 \in EntryFields[f].codes
          /\ f = "mDEntryType" => {BID, OFFER} \subseteq EntryFields[f].codes
          /\ f = "aggressorSide" => {1, 2} \subseteq EntryFields[f].codes
          /\ f = "mDUpdateAction" => /\ kind = "QUOTE"
                                    /\ EntryFields[f].codes \cap 0..4 = 0..2
    BY <1>1, CodesAssumption DEF EntryFields
  <2>6. key \in DOMAIN put => KeyReadable(event, key, put[key])
    BY <1>1 DEF PutReadable
  <2>7. event.kind = "QUOTE" => event.action \in Action
    BY <1>1, EventAssumption
  <2>8. ASSUME EntryFields[f].type = "enum", set \notin EntryFields[f].codes
        PROVE  /\ f = "mDUpdateAction" /\ event.kind = "QUOTE"
               /\ event.action \in {"OVERLAY", "CLEAR"}
    <3>1. key \in DOMAIN put /\ KeyReadable(event, key, set) BY <2>3, <2>5, <2>6, <2>8
    <3>2. f # "mDEntryType" BY <2>2, <2>5, <2>8, <3>1 DEF KeyReadable
    <3>3. f # "aggressorSide"
      <4>1. \A v \in 0..2 : v = 0 \/ v = 1 \/ v = 2 OBVIOUS
      <4> QED BY <2>2, <2>5, <2>8, <3>1, <4>1 DEF KeyReadable
    <3>4. f = "mDUpdateAction" BY <2>5, <2>8, <3>2, <3>3
    <3>5. event.kind = "QUOTE" /\ set = ActionValue(event.action)
      BY <2>2, <3>1, <3>4 DEF KeyReadable
    <3>6. set \in 0..4 /\ set \notin 0..2
      BY <2>5, <2>7, <2>8, <3>4, <3>5 DEF ActionValue, Action
    <3>7. event.action \in {"OVERLAY", "CLEAR"}
      BY <2>7, <3>5, <3>6 DEF ActionValue, Action
    <3> QED BY <3>4, <3>5, <3>7
  <2>9. ASSUME f = "mDUpdateAction", event.kind = "QUOTE",
               event.action \in {"OVERLAY", "CLEAR"}
        PROVE  EntryFields[f].type = "enum" /\ set \notin EntryFields[f].codes
    <3>1. EntryFields[f].type = "enum" BY <1>1, <2>9, CodesAssumption DEF EntryFields
    <3>2. grp.index \in DOMAIN placed BY <1>1, <1>4 DEF Decoding, TypeOK
    <3>3. DOMAIN placed = 1..1 /\ ActionKey \in DOMAIN put BY <1>1, <2>9 DEF ActionPut
    <3>4. grp.index = 1 BY <3>2, <3>3
    <3>5. key \in DOMAIN put BY <2>1, <2>9, <3>3, <3>4 DEF ActionKey
    <3>6. set = ActionValue(event.action) BY <2>2, <2>3, <2>6, <2>9, <3>5 DEF KeyReadable
    <3>7. set \in {3, 4} BY <2>9, <3>6 DEF ActionValue
    <3>8. EntryFields[f].codes \cap 0..4 = 0..2 BY <2>5, <2>9, <3>1
    <3> QED BY <3>1, <3>7, <3>8
  <2> QED BY <2>4, <2>8, <2>9
<1> QED BY <1>3, <1>4

(* Whatever the events: a getter of a message this server sent throws for  *)
(* the rate term and for the action of OVERLAY and CLEAR, which the        *)
(* encoder casts without a check, and for no other field.                  *)
THEOREM NoOtherUnreadable == EncoderSpec => []UnreadableFields
BY InitUInv, NextUInv, UInvReadable, PTL DEF EncoderSpec
=============================================================================
