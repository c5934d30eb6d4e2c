---------------------------- MODULE SliceGroups ----------------------------
(***************************************************************************)
(* The grouping of slices over shared memory in one encoder stream.  Each  *)
(* value is scanned first: the windows of its slices join components, a    *)
(* component being a region of memory that goes out as one ARRAY or BLOB   *)
(* record.  Then the slices are written, the record in front of its first  *)
(* one, each slice as a view of the record.  A component that went out is  *)
(* frozen; between values the program changes its memory.                  *)
(*                                                                         *)
(* Memory is a row of cells; a slice type has an element size in cells and *)
(* may be a blob type.  Components are numbered in the order of their      *)
(* creation, which is also the first-fit order (`seq`).                    *)
(***************************************************************************)
EXTENDS EmitSkip, Functions

CONSTANTS
  Cells,      \* number of memory cells
  Contents,   \* what a cell holds; 0 is bitwise zero
  Types,      \* slice types
  Es(_),      \* cells of an element
  Blob(_),    \* is it written as a BLOB?
  Windows,    \* the slice headers of the program: [p, n, c, ty]
  Level(_),   \* skipLevel: the height of a component's tower
  Memories,   \* the memory at the start is one of these
  MaxValues, MaxScans, MaxMutations   \* bounds

ASSUME GroupAssumption ==
  /\ 0 \in Contents /\ Memories \subseteq [0 .. Cells - 1 -> Contents]
  /\ \A w \in Windows :
       /\ w.ty \in Types
       /\ w.n <= w.c /\ w.p + w.c * Es(w.ty) <= Cells

VARIABLES
  mem,        \* the program's memory
  comps,      \* scanArena.comps
  classIx,    \* the live array and the emitted index of each class
  value,      \* the slices of the value that the scan has met
  slotIx,     \* the component of each window scanned for this value
  hostCache,  \* window |-> an emitted component around it
  gen,        \* number of the value, 0 before the first
  nextId,     \* Writer.NextID
  writing,    \* is the scan of this value over?
  steps       \* scans and mutations, for the bounds

vars == <<mem, comps, classIx, value, slotIx, hostCache, gen, nextId, writing, steps>>

Class(ty) == [es |-> Es(ty), blob |-> Blob(ty)]
Classes   == {Class(ty) : ty \in Types}
End(w)    == w.p + w.c * Es(w.ty)
slotKey(w) == [ptr |-> w.p, n |-> w.n, c |-> w.c, blob |-> Blob(w.ty)]
hostKey(w) == [slotKey(w) EXCEPT !.blob = Class(w.ty)]

Init ==
  /\ mem \in Memories
  /\ comps = <<>>
  /\ classIx = [c \in Classes |-> [envs |-> <<>>, deadCount |-> 0, emit |-> NoSkip]]
  /\ value = {} /\ slotIx = <<>> /\ hostCache = <<>>
  /\ gen = 0 /\ nextId = 1
  /\ writing = FALSE
  /\ steps = [scans |-> 0, mutations |-> 0]

---------------------------------------------------------------------------
(* The live array: entries in the order of the creation keys, with         *)
(* tombstones that go when they are more than half of it.                  *)
dead(c) == c.emitted \/ c.absorbed

compact(ix, cs) ==
  [ix EXCEPT !.envs = SelectSeq(@, LAMBDA e : ~dead(cs[e.ci])), !.deadCount = 0]

envNoteDead(ix, cs, ci) ==
  LET hit == {i \in DOMAIN ix.envs : ix.envs[i].ci = ci /\ ~ix.envs[i].dead}
      noted == [ix EXCEPT !.envs = [i \in DOMAIN @ |->
                              IF i \in hit THEN [@[i] EXCEPT !.dead = TRUE] ELSE @[i]],
                          !.deadCount = @ + Cardinality(hit)]
  IN  IF noted.deadCount * 2 > Len(noted.envs) THEN compact(noted, cs) ELSE noted

(* The first entry whose key is not below p.                               *)
envLower(envs, p) ==
  Min({Len(envs) + 1} \cup {i \in DOMAIN envs : comps[envs[i].ci].sortKey >= p})

(* Has the window's region room for w, and is what the record leaves out,  *)
(* the elements from `elided` on, zero in memory as far as w sees it?      *)
Spans(c, w) == c.origin <= w.p /\ End(w) <= c.end
ZeroAt(m, p, es) == \A k \in p .. p + es - 1 : m[k] = 0

representableAnyTail(c, w) == Spans(c, w)

representable(c, w) ==
  /\ Spans(c, w)
  /\ \A i \in 0 .. w.n - 1 :
       (w.p - c.origin) \div c.es + i >= c.elided => ZeroAt(mem, w.p + i * c.es, c.es)

(* The live components a window meets.  A window behind the last live      *)
(* component meets none; else those to the left of its place that reach    *)
(* over p, up to the first that does not, and those to the right that      *)
(* begin before its end.                                                   *)
LiveAt(envs, i) == ~envs[i].dead /\ ~dead(comps[envs[i].ci])

BehindAll(envs, w) ==
  LET last == comps[envs[Len(envs)].ci]
  IN  ~dead(last) /\ w.p >= last.end /\ w.p > last.origin

LeftOf(envs, lo, w) ==
  {i \in 1 .. lo - 1 : LiveAt(envs, i) /\
     \A j \in i .. lo - 1 : LiveAt(envs, j) => w.p < comps[envs[j].ci].end}

RightOf(envs, lo, w) ==
  {i \in lo .. Len(envs) : LiveAt(envs, i) /\
     /\ \A j \in lo .. i : LiveAt(envs, j) => comps[envs[j].ci].origin < End(w)
     /\ w.p = comps[envs[i].ci].origin \/ w.p < comps[envs[i].ci].end}

Place(envs, w) ==
  IF envs = <<>> THEN 1
  ELSE IF BehindAll(envs, w) THEN Len(envs) + 1
  ELSE envLower(envs, w.p)

LiveMet(envs, w) ==
  IF envs = <<>> \/ BehindAll(envs, w) THEN {}
  ELSE LET lo == envLower(envs, w.p)
       IN  {envs[i].ci : i \in LeftOf(envs, lo, w) \cup RightOf(envs, lo, w)}

---------------------------------------------------------------------------
(* The emitted component a window may be a view of: the cached one as long *)
(* as it is representable, else the first that is; the search leaves the   *)
(* first one around the window in the cache.                               *)
Around(w) == emitQuery(classIx[Class(w.ty)].emit, w.p, End(w))

CacheHit(w) ==
  hostKey(w) \in DOMAIN hostCache /\ representable(comps[hostCache[hostKey(w)]], w)

Host(w) ==
  IF CacheHit(w) THEN {hostCache[hostKey(w)]}
  ELSE LET fit == {ci \in Around(w) : representable(comps[ci], w)}
       IN  IF fit = {} THEN {} ELSE {Min(fit)}

Without(f, k) == [x \in DOMAIN f \ {k} |-> f[x]]
With(f, k, v) == [x \in DOMAIN f \cup {k} |-> IF x = k THEN v ELSE f[x]]

Cached(w) ==
  IF CacheHit(w) THEN hostCache
  ELSE IF Around(w) = {} THEN Without(hostCache, hostKey(w))
  ELSE With(hostCache, hostKey(w), Min(Around(w)))

(* mergeInto: component g is part of `into` from now on, and so are the    *)
(* windows of this value that joined it.                                   *)
MergedComps(cs, into, g) ==
  [cs EXCEPT ![into].members = @ \o cs[g].members,
             ![into].origin = Min({@, cs[g].origin}),
             ![into].end = Max({@, cs[g].end}),
             ![g].absorbed = TRUE]

Repointed(f, cs, into, g) ==
  LET keys == {slotKey(m.w) : m \in {x \in ToSet(cs[g].members) : x.gen = gen}}
  IN  [k \in DOMAIN f \cup keys |-> IF k \in keys THEN into ELSE f[k]]

mergeIntoOnly(st, into, g) ==
  LET cs == MergedComps(st.comps, into, g)
  IN  [st EXCEPT !.comps = cs, !.ix = envNoteDead(st.ix, cs, g)]

mergeInto(st, into, g) ==
  LET cs == MergedComps(st.comps, into, g)
  IN  [comps |-> cs,
       ix    |-> envNoteDead(st.ix, cs, g),
       slots |-> Repointed(st.slots, cs, into, g)]

Bridged(st, into, met) ==
  FoldLeft(LAMBDA s, g : mergeInto(s, into, g), st, SetToSortSeq(met, <))

Member(w) == [w |-> w, gen |-> gen]

(* The window becomes a member of a live component, which grows to it.     *)
Grown(c, w) ==
  [c EXCEPT !.members = Append(@, Member(w)),
            !.origin = Min({@, w.p}), !.end = Max({@, End(w)})]

Fresh(w) ==
  [origin |-> w.p, end |-> End(w), es |-> Es(w.ty), blob |-> Blob(w.ty),
   members |-> <<Member(w)>>, sortKey |-> w.p,
   emitted |-> FALSE, absorbed |-> FALSE,
   id |-> 0, elided |-> 0, rec |-> <<>>, dirty |-> {}]

scanAddSlot(w) ==
  LET cl   == Class(w.ty)
      ix   == classIx[cl]
      cand == Host(w) \cup LiveMet(ix.envs, w)
      st   == [comps |-> comps, ix |-> ix, slots |-> slotIx]
  IN
  /\ gen > 0 /\ ~writing /\ steps.scans < MaxScans
  /\ steps' = [steps EXCEPT !.scans = @ + 1]
  /\ value' = value \cup {w}
  /\ hostCache' = Cached(w)
  /\ \/ /\ cand # {} /\ comps[Min(cand)].emitted
        /\ slotIx' = With(slotIx, slotKey(w), Min(cand))
        /\ UNCHANGED <<comps, classIx>>
     \/ /\ cand # {} /\ ~comps[Min(cand)].emitted
        /\ LET into == Min(cand)
               b    == Bridged(st, into, {g \in cand \ {into} : ~comps[g].emitted})
           IN  /\ comps' = [b.comps EXCEPT ![into] = Grown(@, w)]
               /\ classIx' = [classIx EXCEPT ![cl] = b.ix]
               /\ slotIx' = With(b.slots, slotKey(w), into)
     \/ /\ cand = {}
        /\ comps' = Append(comps, Fresh(w))
        /\ classIx' = [classIx EXCEPT ![cl].envs =
                         InsertAt(@, Place(@, w), [ci |-> Len(comps) + 1, dead |-> FALSE])]
        /\ slotIx' = With(slotIx, slotKey(w), Len(comps) + 1)
  /\ UNCHANGED <<mem, gen, nextId, writing>>

---------------------------------------------------------------------------
length(c) == (c.end - c.origin) \div c.es

Offset(c, w) == (w.p - c.origin) \div c.es

Dense(c) == {i \in 1 .. length(c) : ~ZeroAt(mem, c.origin + (i - 1) * c.es, c.es)}

(* denseE: one past the last element that is not zero.                     *)
denseE(c) == Max({0} \cup Dense(c))

Span(c, m, E) == [off |-> Offset(c, m.w), end |-> Min({Offset(c, m.w) + m.w.c, E})]

MemberSpans(c, E) ==
  SelectSeq([i \in DOMAIN c.members |-> Span(c, c.members[i], E)], LAMBDA s : s.off < E)

Collapsed(spans) ==
  FoldLeft(LAMBDA out, s :
             IF s.end <= (IF out = <<>> THEN 0 ELSE Last(out).end) THEN out
             ELSE Append(out, s),
           <<>>, spans)

compWindowsUnsorted(c, E) == Collapsed(MemberSpans(c, E))

(* compWindows: the members in the order of their offsets, cut at E, those *)
(* that add nothing left out.                                              *)
compWindows(c, E) ==
  Collapsed(SortSeq(MemberSpans(c, E), LAMBDA a, b : a.off < b.off))

(* The window element i is read through: the walk leaves one behind when i *)
(* is past it.                                                             *)
WindowAt(wins, i) ==
  wins[Min({k \in DOMAIN wins : k = Len(wins) \/ i < wins[k].end})]

(* writeGroupRecord, and the BLOB record of encodeBlob: the region as it   *)
(* is in memory now; `rec` is what a decoder makes of it.                  *)
writeGroupRecord(ci) ==
  LET c  == comps[ci]
      E  == denseE(c)
      cl == [es |-> c.es, blob |-> c.blob]
      out == [c EXCEPT !.emitted = TRUE, !.id = nextId, !.elided = E,
                       !.rec = [k \in 0 .. c.end - c.origin - 1 |->
                                  IF k < E * c.es THEN mem[c.origin + k] ELSE 0]]
      cs == [comps EXCEPT ![ci] = out]
  IN  /\ comps' = cs
      /\ nextId' = nextId + 1
      /\ classIx' = [classIx EXCEPT ![cl] =
           [envNoteDead(@, cs, ci) EXCEPT !.emit =
              insert(@, ci, c.origin, c.end, Level(ci))]]

(* writeView: the shortest form that has the window's geometry.            *)
writeView(c, w) ==
  LET off == Offset(c, w)
  IN  [id |-> c.id, off |-> off, len |-> w.n, cap |-> w.c,
       form |-> IF off = 0 /\ w.n = w.c /\ w.n = length(c) THEN 0
                ELSE IF w.n = w.c THEN 1 ELSE 2]

(* encodeSlice and encodeBlob: the record of the slice's component, unless *)
(* it is out, and then the slice as a view, writeView, of it.              *)
Encode(w) ==
  /\ w \in value
  /\ writing' = TRUE
  /\ \/ ~comps[slotIx[slotKey(w)]].emitted /\ writeGroupRecord(slotIx[slotKey(w)])
     \/ comps[slotIx[slotKey(w)]].emitted /\ UNCHANGED <<comps, nextId, classIx>>
  /\ UNCHANGED <<mem, value, slotIx, hostCache, gen, steps>>

(* The next value: its windows are scanned and resolved anew.              *)
encodeRoot ==
  /\ gen < MaxValues
  /\ gen' = gen + 1
  /\ value' = {} /\ slotIx' = <<>> /\ writing' = FALSE
  /\ UNCHANGED <<mem, comps, classIx, hostCache, nextId, steps>>

(* Between values the program writes to its memory.                        *)
Mutate ==
  /\ value = {} /\ steps.mutations < MaxMutations
  /\ steps' = [steps EXCEPT !.mutations = @ + 1]
  /\ \E k \in DOMAIN mem, x \in Contents :
       /\ x # mem[k]
       /\ mem' = [mem EXCEPT ![k] = x]
       /\ comps' = [i \in DOMAIN comps |-> [comps[i] EXCEPT !.dirty =
                      IF comps[i].emitted THEN @ \cup {k} ELSE @]]
  /\ UNCHANGED <<classIx, value, slotIx, hostCache, gen, nextId, writing>>

Next ==
  \/ \E w \in Windows : scanAddSlot(w) \/ Encode(w)
  \/ encodeRoot \/ Mutate

Spec == Init /\ [][Next]_vars

---------------------------------------------------------------------------
Comps == DOMAIN comps
Live  == {ci \in Comps : ~dead(comps[ci])}
InClass(ci, cl) == comps[ci].es = cl.es /\ comps[ci].blob = cl.blob
Meets(c, w) ==
  \/ w.p = c.origin /\ w.c > 0
  \/ w.p < c.end /\ c.origin < End(w)

(* The searches find what a look at every component would: the live ones   *)
(* a window meets (an empty window does not join a region it begins), and  *)
(* the emitted ones around it.                                             *)
SearchExact ==
  \A w \in Windows :
    LET cl == Class(w.ty)
    IN  /\ LiveMet(classIx[cl].envs, w) =
             {ci \in Live : InClass(ci, cl) /\ Meets(comps[ci], w)}
        /\ Around(w) = {ci \in Comps : InClass(ci, cl) /\ comps[ci].emitted
                                       /\ Spans(comps[ci], w)}

(* groupOf resolves a window scanned for this value to the component it    *)
(* joined: of its class, around it, not part of another one, and with the  *)
(* window among its members unless it was out already.                     *)
SlotResolves ==
  \A w \in value :
    LET ci == slotIx[slotKey(w)]
    IN  /\ ~comps[ci].absorbed /\ InClass(ci, Class(w.ty)) /\ Spans(comps[ci], w)
        /\ comps[ci].emitted \/ Member(w) \in ToSet(comps[ci].members)

(* Every element of a record about to be written is read through a window  *)
(* that has it: the windows of a component leave no hole, and the walk     *)
(* over them is never behind or ahead.                                     *)
RecordReadable ==
  \A ci \in Live :
    LET E == denseE(comps[ci])
        wins == compWindows(comps[ci], E)
    IN  \A i \in 0 .. E - 1 :
          LET win == WindowAt(wins, i) IN win.off <= i /\ i < win.end

(* What the reader makes of a view over a record of L elements.            *)
Geometry(v, L) ==
  IF v.form = 0 THEN <<0, L, L>>
  ELSE IF v.form = 1 THEN <<v.off, v.len, v.len>>
  ELSE <<v.off, v.len, v.cap>>

(* What is written for a slice names a record that is out, and the reader  *)
(* gets the slice back: its place, length and capacity inside the record,  *)
(* and the elements that are in memory now; only an element the record     *)
(* gave explicitly and the program changed since may be the older one.     *)
Delivers(c, v, w) ==
  LET g == Geometry(v, length(c))
  IN  /\ c.es = Es(w.ty) /\ c.blob = Blob(w.ty) /\ v.id = c.id /\ v.id < nextId
      /\ g = <<Offset(c, w), w.n, w.c>>
      /\ c.origin + g[1] * c.es = w.p /\ g[1] + g[3] <= length(c)
      /\ \A k \in w.p .. w.p + w.n * c.es - 1 :
           \/ c.rec[k - c.origin] = mem[k]
           \/ k \in c.dirty /\ k - c.origin < c.elided * c.es

SlicesDelivered ==
  \A w \in value :
    LET c == comps[slotIx[slotKey(w)]]
    IN  c.emitted => Delivers(c, writeView(c, w), w)
=============================================================================
