# gbon-go: specifications, model checks and proofs

gbon-go serializes Go values to GBON, a self-describing binary format: a value
travels with a descriptor of its type, repeated values and descriptors travel
as back references, and interior pointers travel as paths into values written
before. A stream is read and written one value at a time by a stateful
`Encoder` and `Decoder`, which call the user's coders in the middle of a value.

This directory holds TLA+ modules translated from that code, TLC
configurations that check them on small instances, and TLAPS proofs of what
holds for every value of the constants. `PROJECT.json` maps every definition to
the lines it models and lists every run, mutant, finding, hazard and theorem.

    tlc -workers 2 -config MCStreamReader.cfg MCStreamReader
    tlapm StreamReaderProofs.tla

## The system

| Component | State it keeps | Operations | Hard behaviour | What makes it correct | Modules |
|---|---|---|---|---|---|
| **wire stream reader** (`internal/wire/wire.go`, `codec_helpers.go`) | sliding window, position, cached source fault, armed lookahead | fill, compact, reads, large reads, lookaheads, discards, snapshots | the source cuts the stream anywhere, blocks, fails, ends with or without bytes | every read returns the next bytes of the stream; no byte is pulled that the answer does not need; lookaheads agree with the reads that follow | `TokenInput` `BufferReader` `StreamReader` |
| **wire writer** (`wire.go`, `arg.go`, `value.go`) | output buffer, intern ids given | token writers | minimal forms of numbers at the borders | what it writes is read back, in the one canonical form | `WireForms` |
| **wire intern space** (`wire.go`, `desc.go`, `container.go`) | one table of ids per stream and side | intern string, bytes, descriptor, container; REF | ids depend on the order of everything before | both sides give every value the same id; a REF is resolved to what was written | `InternTable` `InternSpace` |
| **wire views** (`container.go`) | none | three view forms, `validateView` | overflow of offset and length | a view stays inside its parent | `WireForms` |
| **descriptors** (`codec_desc.go`, `internal/wire/desc.go`) | descriptor cache, claims of names | build, write, read descriptors | cycles, node budgets | a name has one descriptor per stream | `InternSpace` `ScopePlans` |
| **encoder facade** (`gbon.go`, `codec_encode.go`) | sticky error, depth of coders, writer | Encode, Flush, registrations | coder callbacks, panics, partial output | a broken value never reaches the output | `EncodeSession` |
| **encoder scope and plan cache** (`codec_encode.go`, `codec_desc.go`, `gbon.go`, `reserved.go`) | coders and wire names of an encoder, its scope epoch; the process-wide plan cache | RegisterCoder, RegisterAs, RegisterReserved, planFor, coder sub-encodes, canonical sub-marshals | a cache shared by encoders with different registrations; registrations from inside coders | a plan is used only under the registrations it was built for | `ScopePlans` |
| **encoder intern tables** (`codec_encode.go`) | weak ids of maps and pointer targets, epochs, interior names | intern, name, sweep | garbage collection at any moment, addresses used again | identity is by object: an id never stands for a value that is gone | `PointerTables` |
| **slice and interior grouping** (`codec_encode.go`) | components of overlapping memory, live and emitted index, host cache | scan, group, emit records and views | aliasing, memory that changes between values | shared memory travels once, and every slice is read back | `EmitSkip` `SliceGroups` |
| **canonical map order** (`codec_encode.go`) | rank cells | order of pairs, stable guard, duplicate checks | order of bytes that are never rendered | the order is total and independent of Go's map order | `MapOrder` |
| **decoder facade and session** (`gbon.go`, `codec_decode.go`) | three layers of sticky errors, coders, reserved names, memo of coders | Decode, registrations, sub-decodes of coders, restore | coders that fail, panic, recover, register in mid-value | errors stick, a failed Decode leaves its target, a clean end is one | `DecodeSession` |
| **decoder value materialization** (`codec_decode.go`) | recorded values, pending cells | decode of every kind, references, paths, skip of dropped fields | cycles, forward references, evolution | references resolve to the value recorded under their id | `InternSpace` |
| **decode budgets** (`codec_decode.go`, `internal/wire`) | depth, node, byte and allocation counters | charge, window | overflow, limits at the boundary, several paths that charge | no path makes more than the budget allows, and all paths charge alike | `DecodeBudgets` |
| **errors, emit probe, grain oracle** | none | rendering, a test counter, a test oracle | none | not modelled | |

The `Decoder` drives the wire reader one token at a time, the `Encoder` the
wire writer. A coder runs inside a value and calls `Encode` or `Decode` of the
same facade again, which goes to `encodeSub` or `decodeSub`; it may also
register, recover a panic and pass over errors. The plan cache is the only
state shared by all encoders of a process; a Decoder or an Encoder is used by
one goroutine at a time, but the garbage collector runs beside it and clears
the weak handles of its tables.

## How the modules fit together

`StreamReader` implements `BufferReader` over `TokenInput`; the session and
intern modules above it read whole tokens. `InternSpace` composes the Writer's
and the Reader's half of one stream over `InternTable`, so the mirror between
them is checked on one state; which object gets an id in the first place is
`PointerTables`' and `SliceGroups`' subject, the latter over the skip list
`EmitSkip`. `EncodeSession` and `DecodeSession` are the control around a value:
errors, coders, panics. `ScopePlans` is what several Encoders share. `WireForms`,
`MapOrder` and `DecodeBudgets` are algorithms with a reference beside them: a
reader for every writer, the rendered bytes for the rank cells, one frame for
each part for the batches.

| Order | Module | Checked | Proved |
|---|---|---|---|
| 1 | `StreamReader`, refines `BufferReader` | `stream_reader`, `stream_refines` | `StreamReaderProofs` |
| 2 | `DecodeSession` | `decode_session` | `DecodeSessionProofs` |
| 3 | `ScopePlans` | `scope_plans` | `ScopePlansProofs` |
| 4 | `EncodeSession` | `encode_session` | `EncodeSessionProofs` |
| 5 | `SliceGroups` with `EmitSkip` | `slice_groups` | |
| 6 | `WireForms` | `wire_forms` | `WireFormsProofs` |
| 7 | `InternSpace` with `InternTable` | `intern_space`, `skip_mirror` | `InternWriterProofs`, `InternSpaceProofs` |
| 8 | `PointerTables` | `pointer_tables` | `PointerTablesProofs` |
| 9 | `MapOrder` | `map_order` | |
| 10 | `DecodeBudgets` | `decode_budgets` | |

What would come next: the searches of `EmitSkip` as loops a proof can follow, `Register`
and `RegisterAs` of the Decoder with interface values, interior pointers through
arrays and backings.

The type invariants of the first four modules are proved, so no run repeats
them. Every other invariant a run checks is a statement about the code.

## Module by module

### TokenInput, BufferReader, StreamReader

`TokenInput` is the stream both readers read: for each byte the token class,
the width of its argument and the length of its body. Bytes are named by their
offset, so "the right byte" is decidable. `BufferReader` is `wire.Reader` in
buffer mode, where everything is in memory: the specification of what a read or
a lookahead promises. `StreamReader` is the reader in stream mode: `fed` counts
the bytes the source handed out, `buf`, `blen`, `spare`, `pos` and `base` are
the slice, its capacity and its place, `eof` and `faultErr` the remembered
ends, `pendStart`, `pendLen` and `peekID` the armed lookahead track, `out` the
serving buffer of a large read. A call is a first step that decides what it
needs, one step per Read of the source (`fill`, `readDirectRead`) and a last
step; between them the reader is blocked in Read.

The caller is the codec: header byte, argument, body, in that order; lookaheads
and discards between tokens only; the stream is given up after a failed read.
The error of a non-minimal argument and the choice between the truncation
errors are abstracted to one failure.

| Run | What it shows | Bounds |
|---|---|---|
| `stream_reader` | reads return the next bytes (`WindowExact`), a large read never pulls past its record (`DirectNeverOverreads`), nothing waits for bytes behind the token (`NeverWaitsPastToken`), the window is bounded (`WindowBounded`), lookaheads agree with the reads that follow (`LookaheadSound`), faults stick (`WindowFaultSticks`) | a stream of 40 bytes with every token shape treated in a way of its own; largeRead 8, fillChunk 2, so that compaction, growth and a large read all happen inside it |
| `stream_refines` | StreamReader implements BufferReader up to source faults (`TracksBufferReader`); every call returns (`CallReturns`) | a shorter stream that ends in a large record; io.EOF comes on a Read of its own, see "Disagreements" for what happens otherwise |

Fairness: `WF` on the steps of `Continue` that are not a source fault: the source
keeps answering a blocked Read with bytes or the end, and no fault is counted on
to end a call. A Read of `(0, nil)` is excluded: `io.Reader` discourages it and
it would repeat the pull. The runs set `CHECK_DEADLOCK FALSE` because a caller
stops after a failed read. The scaled thresholds keep the one relation the code
relies on, that a lookahead plus a fill chunk plus the first piece of a large
read is at most `largeRead` (`ReaderAssumption`; 65547 + 65536 + 65536 <=
1048576 in the code).

**Proved** (`StreamReaderProofs`), for every input and every thresholds that
satisfy `InputAssumption` and `ReaderAssumption`: `TypeOK`, `WindowExact`,
`DirectNeverOverreads` and `WindowFaultSticks`. The inductive invariant `IInv`
adds to the first three `CallShape` and `WantShape` (what the call in progress
asks of fill) and `RoomShape` (how many free bytes the window can have), which
is what keeps the buffer a large read takes over smaller than its record.

The second part of the module goes on from there: `LookaheadSound`,
`NeverWaitsPastToken`, `WindowBounded` and the refinement. `RInv` is what they
need besides: an armed track begins at the token the caller is about to read
(`TrackShape`), a lookahead answers from bytes that have arrived (`AnswerShape`),
`eof` means that the source has nothing left (`EndShape`), and a stale `PeekDesc`
index lies in the window or past it, never before it (`LookShape`). With these
every step of `StreamReader` is a step of `BufferReader` or a stutter, for every
source that hands out its bytes before its end (`~EofWithData`,
`StreamRefinesBuffer`). Without that premise one step more is needed, the large
read that is cut short by the end that came with its last bytes (`CutShort`);
that there is no other is `OnlyCutLargeReadsDiffer`. `CallReturns` is
model-checked only.

### DecodeSession

One `Decoder`, its stream decoder, the decoder of the value in progress and the
coders running in it. The stream is a sequence of units, a descriptor or a
body; a coder's value is the descriptor followed by the values it encoded. Any
read may fail with any error: malformed bytes, a missing end, a budget, a
source fault. `err`, `broken` and `vbroken` are the three layers of sticky
errors, `stack` the running coders with the sub-values still due to each,
`memo` the memo of concrete coders, `Progress` what is owed and whole after each
unit, so `NumValues` follows from the stream, `dec` whether the stream decoder shares the
facade's map of coders. `WritePart` is a field set in place. Coders read the
values they encoded in order; they return, give up, return an error, pass over
one, panic, recover the panic of an inner coder, and register.

| Run | What it shows | Bounds |
|---|---|---|
| `decode_session` | a failed Decode leaves its target (`FailedDecodeRestores`), a clean end means every value was delivered (`EndMeansAllDelivered`), the memo agrees with the registry (`MemoFresh`), the first error is what every later call returns and nothing is read after it (`StickyError`) | three values, coders of two types, coders nested twice, one misused sub-decode (`MaxMisuse`) |

`FailedDecodeRestores` exempts the gap target (see "Disagreements").
`EndMeansAllDelivered` exempts streams on which a coder passed over an error
or a panic: `decodeCoderInto` does not look at the stream error of a sub-decode
the coder ignored. Registrations happen between calls or in coders, the two
moments at which the single goroutine of a Decoder can make them.

**Proved** (`DecodeSessionProofs`), for every stream, nesting and set of coder
names that satisfy `SessionAssumption`: `TypeOK`, `FailedDecodeRestores`,
`MemoFresh` and `StickyError`. `IInv` strengthens them with `Layers` (which of
the three errors is set when, the facade's view of the first error included),
`Coders` (the running coders are those of a value in progress) and `Guarded`
(a target that was written has its restore armed, or the value is the one
behind a gap).

`EndMeansAllDelivered` (`CleanEnd`) needs the count of units as well (`Reading`):
what `Progress` says of the units read is what was delivered plus what the value
in progress and each running coder still owe, as long as no coder passed over an
error; and once one was told of an error, no coder below it can complete. The
recursion of `Progress` is followed by induction over the stream.

### ScopePlans

Encoders, the encoders of `encoderPool`, and `planRegistry`, the one thing all
of them share. A type is a node of a graph (`Child`); a plan records which of
its parts go to a coder, under which name each travels and whether its
descriptor may be reused; a descriptor records the parts that are coder leaves
and the names. `plans` is the cache by type and scope epoch, `maps` the coder
maps by the epoch they were made at, `coders`, `asName` and `scopeEpoch` the
scope of an encoder, `types` the descriptors in its stream, `reserved` and
`reservedOK` the gate of reserved names. `at` is where an encoder is; a coder
that runs (`run`) may encode and register on the encoder it is handed, a tied
map key takes an encoder from the pool (`codecMarshalScoped`), for which its
own encoder waits (`src`). A value is any sequence of its parts and of what its
interfaces hold, so every order in which plans are asked for is covered. A coder
map that was changed under another encoder is marked (`meddled`): a coder that
registers on the facade of a sub-marshal changes the map of the Encoder the
sub-marshal is for, whose epoch stays, and whose plans are inexact from then on.

| Run | What it shows | Bounds |
|---|---|---|
| `scope_plans` | an encoder is never handed another's coders and never writes another's names (`ScopesIsolated`), cached plans stay exact (`CoderScopeExact`), a type the gate remembers as free of reserved names is so (`ReservedGated`) | two Encoders and one pooled encoder, a struct with one field, two registrations in all: two Encoders can each take an epoch, one can take both, a pooled one can take the second. One Encoder binds and reserves names and marshals on the side (`Lead`); the other one only shares the cache |

The run identifies states that differ only in the fields of an encoder in the
pool (`LiveView`): `resetForPool` sets each of them before it is read. An
Encoder whose value failed does nothing more, so failing steps are left out.

**Proved** (`ScopePlansProofs`), for every set of types, encoders and names and
every number of registrations: `TypeOK`, `ScopesIsolated`,
`CoderScopeExact` and `ReservedGated`. The argument of the middle two is what an
epoch stands for: nothing is ahead of the counter and epoch 0 is the empty scope
(`Below`), equal epochs have equal coder maps and only one Encoder's wire names
(`EpochScopes`), the plans of epoch 0 are those of no coders (`BasePlans`), so a
plan that any holder of an epoch builds is the plan of every holder
(`PlanScopes`); `Chain` says that an encoder somebody marshals for is waiting,
so none comes to life with a stale scope. `ReservedGated` is inductive over the
types: coders only shorten a walk (`PartsShrink`), and a name is never bound and
reserved at once.

### EncodeSession

One `Encoder`, the stream encoder behind it, its running coders and the writer.
The Go stack is explicit (`stack`): an Encode call, a value body in the making,
a running coder. Bytes are counted and not represented; `missing` counts the
bodies whose bytes in the buffer lack something, so "a torn value was sent" is
a state. `err` is the facade's sticky error, `broken` the stream encoder's,
`flushed` and `streamStart` the counters behind `bytesOut`, `inCoder` and
`activeCodrs` what decides whether an Encode flushes and whether a coder
recurses. A coder encodes values, returns, fails, passes over the error of a
nested Encode, panics, or recovers the panic of an inner one; the writer takes
all, a part and an error, or panics in the middle.

| Run | What it shows | Bounds |
|---|---|---|
| `encode_session` | the facade counts its coders right after every way out of one (`CodersExact`), the byte budget is held against the bytes of the value (`BytesExact`), only whole values leave the buffer unless a nested panic was recovered (`WholeValuesSent`), an Encoder that failed sends nothing ever after (`StickyError`) | two coder types, two sets of budgets, the tighter one below a value of three bodies; 12 bytes sent (`MaxSent`), 10 frames of the stack (`MaxStack`): each coder inside the other with a body around it |

**Proved** (`EncodeSessionProofs`), for every set of coders and budgets and
every depth: `TypeOK` and the four properties above. `IInv` is `TypeOK`, `Shaped`
(what calls what on the stack), `Counted` (every counter is what the stack says;
a body whose bytes are not all there is on the stack or was left behind, unless
the stream is broken), `Layered` (the facade and the stream encoder have the
same error while an Encode runs) and `Bytes` (the counters behind `bytesOut`
never run apart). `Counted` is the reason for `WholeValuesSent`: at a flush the
stack holds no body. `WholeValuesSent` says nothing once a coder recovered a
panic of an Encode it nested (`leaked # 0`): the code sends the torn value then,
see "Disagreements".

### EmitSkip, SliceGroups

`EmitSkip` is the skip list of emitted components with the largest end of each
segment; its searches are recursive as in the code. `SliceGroups` is the
grouping of one stream: memory is a row of cells, a slice header a window on
it. A scan (`scanSlice`) lets windows join components of their class, by the
live array with its tombstones and by the emitted index; then each slice is
written (`encodeSlice`), the record in front of the first one; between values
the program changes its memory (`Mutate`), and a host that went out may be
chosen by the cache in a later value.

| Run | What it shows | Bounds |
|---|---|---|
| `slice_groups` | the searches find what a look at every component finds (`SearchExact`), a scanned window resolves to the component it joined (`SlotResolves`), a record's windows leave no hole (`RecordReadable`), a slice is decoded with the memory, offset, length and capacity it has (`SlicesDelivered`) | four cells, slices of one and two cells and empty ones, four scans over three values, one change of memory: a window can bridge two components, and a fourth one meet the result |

`SlicesDelivered` lets a cell behind the dense prefix differ only if it was
changed after its record went out; the code's own tail check (`denseE`) is part
of the model. Model-checked only: the searches are RECURSIVE operators.

### WireForms

Arguments, signed numbers by zigzag, big integers, views and blobs. A payload is
kept as the number its bytes spell. Each step writes an item and reads it back,
or reads a token no Writer wrote.

| Run | What it shows | Bounds |
|---|---|---|
| `wire_forms` | what is written is read back (`RoundTrip`), an item has one spelling the Reader takes (`OneSpelling`), a view that is taken lies in its record (`ViewInside`) | bytes of three bits, so the widths are 8, 64, 4096 and 2^24 with all their borders; big integers up to ten such bytes |

**Proved** (`WireFormsProofs`), for every widths that satisfy `WidthAssumption`,
so for 2^8 to 2^64 too: every word is read back from its argument
(`ArgInverse`), an argument has one accepted spelling (`ArgUnique`), zigzag is
undone for both signs (`ZigzagInverse`), and all of `RoundTrip`, `OneSpelling`
and `ViewInside`: words, views, blobs, and big integers of every length the
reader's limit allows. Arguments compare like their numbers (`ArgOrdered`), which
no run repeats. The state needs no strengthening but what the last token was
(`Written`); the work is in the operators. `Power` is the recursive function
that counts the numbers of `k` bytes: it grows (`PowerMonotonic`), so the powers
around a number name its length (`ByteLenFacts`, `ByteLenIs`), and the ext form's
least length is the first that no word needs (`BigAssumption`, 2^64 = 256^8).

### InternTable, InternSpace

`InternTable` is the Writer's string table: open addressing, linear probing,
growth. `InternSpace` is one stream on both sides. The Writer makes a value up
while it writes it: at every position it may repeat any record that fits or
begin a fresh one; the Reader consumes the same tokens, through positions its
target has and through those it lacks (`drop`). The Writer's `wtab` says what it
meant by an id, the Reader's `rtab` what it took the id for. `narrowed` is the
Reader's note that the value at hand had a field skipped; it starts afresh with
each value (`codec_decode.go:755`, `:1963`) and decides which class
`errEvolutionRef` gives to the refusal of a record that was left out.

| Run | What it shows | Bounds |
|---|---|---|
| `intern_space` | a REF or VIEW resolves to the record the Writer meant (`RefsResolve`), the Reader's descriptors are the Writer's, cycles included (`DescsRebuilt`), a stream is read to its end and nothing is refused but a left-out record, at the token that names it and by the class `narrowed` calls for (`ReadsBack`) | two values, two records (maps, backings, pointer targets) each of which may be met again; recursive and mutually recursive structs, two structs of one name; a table of four slots that grows; every field of a struct may be lacking, in the second value as in the first: a record skipped in one value is met again in the next, before and after that value skips something |
| `skip_mirror` (violated) | see "Findings" | one value |

`Gaps` names the shapes at which the Reader loses count; it is empty in the
first run, and each of its members refutes `ReadsBack`.

**Proved** (`InternWriterProofs` and, on top of it, `InternSpaceProofs`), where
the Writer keeps to the shapes both sides count alike (`Gaps = {}`, the one
premise): `RefsResolve`, `DescsRebuilt` and `ReadsBack`, for any types, recursive
ones included, any strings and hashes, any number of values and records, and any
fields the target lacks; each of the four gaps refutes `ReadsBack`, so the premise
cannot be dropped. Beneath them the string table (`TableGet`, `TableSet`): every
search ends at a free slot or at the string asked for, and a growth binds what
was bound before; and `descEqual` (`EqualAlike`): descriptors it takes for equal
have the same kinds, names, fields and type-refs as far as these go, since the
walk ends on a set of pairs that is closed.

The Reader runs when the stream is complete, so no relation of the two sides'
present states is inductive. `IInv` says instead that there is a past: a
sequence of moments, each with the positions that were left to write and the
tokens and ids there were (`Past`), whose last agrees with the Writer's tables
(`WriterOK`), and one of which agrees with the Reader's table, positions and
cursor (`Match`). Each step from a moment to the next is what one position may
write, so it says which tokens come next and what they stand for. A step of the
Writer appends a moment; a step of the Reader goes on to the next one, or over
several where it takes a descriptor's parts. A descriptor under construction
agrees with the Writer's up to the parts that are outstanding, each of which
names the entry it is a part of (`Holds`); when none is, it is the Writer's
(`NoneMissing`). The heart is the pointer: `decodePointer` and `skipValue` decide
by one token whether a record is elided, repeated or fresh, and `HeldNext` says
that in every past the token decides it. `KeepPace` is the invariant itself.

### PointerTables

What an Encoder knows of maps and pointer targets: `maps`, `grains` and `cells`
by address, with epoch and weak handle, `gscan`, `structs` and `names` of the
value. The program drops objects, the collector clears handles (`Collect`) and
frees addresses between any two steps, `Allocate` uses them again. A position is
a map, a pointer to a struct or to one of its fields, or a coder that encodes
values of its own. `sweep` evicts by a sample at its own moment.

| Run | What it shows | Bounds |
|---|---|---|
| `pointer_tables` | positions of different objects never meet in the decoded value (`NeverMerged`), positions that lead into one object lead into one decoded object, at the part that was meant (`SharingKept`), a value is refused only for what it holds (`RefusedForCause`), a sweep never shows in the output (`SweepNeutral`) | three objects at two addresses, two values of two positions, a probe every two inserts: an address is used again within a value and between values; `Swaps` exchanges the addresses, which nothing compares |

`Shapes` names what the model can hold besides and the run leaves out: a coder's
temporary map (`temp_map`), a field of an object encoded by a coder before the
object (`loose_field`), an interior pointer behind a coder (`after_coder`). `temp_map`
refutes `NeverMerged`, the others `SharingKept`; see "Disagreements".

**Proved** (`PointerTablesProofs`), for any number of objects, addresses, values
and positions: `NeverMerged` where no coder encodes a map that only it keeps
(`"temp_map" \notin Shapes`, the one premise, and `temp_map` refutes it), and
`SweepNeutral` without a premise. That an address was used again is harmless
because two live objects never share one (`Memory`) and an entry remembers the
address its object had (`Sound`): a live entry at the address of a live object
is that object's own. Where `alive` trusts the epoch and does not look at the
handle, the object is one the value as a whole keeps (`Stamped`), because the
maps of every frame are the program's or the value's (`Rows`). A path cell's
root is a record of the same object (`Roots`), so what a token names belongs to
its own object (`Truthful`) also after the Decoder followed the path.

`SharingKept` and `RefusedForCause` are proved for `Shapes = {}` only. That
premise rules out three things a program can do: a coder makes a map for itself
(`temp_map`), a pointer to a second field is encoded without its struct in the same
value (`loose_field`), an interior pointer stands behind a coder's part of the
value or in it (`after_coder`). The last two refute `SharingKept` and the first
`NeverMerged`; none is known to refute `RefusedForCause`, whose proof needs the
premise for what it takes from `SharingKept`. Their invariant `SInv`
has to say how the scan and the tables agree: the scan of an Encode stands until
its last interior pointer is written and every second field in it has a name
(`ScanStands`, `SecondsNamed`), what was written of an object that still lives is
found again under its address (`Found`), an entry says what its record is
(`Exact`), the cells of paths lead to records of the struct (`CellsRooted`), and
a struct known by its first field only was written so by another Encode
(`ByFirstField`).

### MapOrder

The order of a map's pairs and the Decoder's duplicate checks. A key is a tree;
its skeleton is what a fresh Writer renders for it, its rank cells stand for
those bytes without rendering them. `order` is what the sort makes of any order
in which Go may hand the pairs out; placements give objects addresses.

| Run | What it shows | Bounds |
|---|---|---|
| `map_order` | rank cells order like the bytes (`RanksMirror`), a written map has one order, and in stable mode one that addresses and signs of zeros do not decide (`OrderDecided`), the Decoder takes what was encoded (`OwnKeysTaken`) | up to three pairs, eleven key types: numbers at the borders, floats with both zeros and NaNs, strings, big integers, arrays with elided tails, pointers, interfaces; three placements; three values, one of them failing |

### DecodeBudgets

A value as the tree of its tokens, charged three ways over the same stream:
with batches of elements and flat structs, with one frame for each part, and by
`skipValue`. An operator of the model is a function of a decoder record and
returns it with what was charged, or with the reason it failed. `real` is the
memory a value made, without overflow, `bulk` the longest run of bytes it asked
the reader for.

| Run | What it shows | Bounds |
|---|---|---|
| `decode_budgets` | no value makes more memory than `MaxBytes` or is deeper or larger than its limits when accepted (`BudgetsHeld`), batches and flat structs charge what frames charge (`PathsAgree`), a target without the field accepts what one with it accepts and ends at the same byte (`SkipAccepts`), a value is charged as at the start of a stream (`ValueScope`) | some 1170 values nested up to three deep and 270 pairs of values, 35 sets of limits, each limit alone taken through every value around the cost of the values; a word of 64, so a product of a length and a size can leave it |

The exemptions are the disagreements on budgets listed below: a list of named
elements (`FramesNamed`), a pointer to an interface (`PointsToIface`), strings
of flat structs and adapters (`ReadUngated`), a value's last tokens, and the
nodes of descriptors.

## Proofs

Eight proof modules, one for each proved component and two for the intern space,
where the Writer's half comes first. Each has the same shape: facts about the operators the model is
built from as lemmas, `Init => IInv`, one step for each action in the proof of
`IInv /\ [Next]_vars => IInv'` with one below it for each conjunct that the
action can disturb, and the theorems from these by PTL. The assumptions are those
the modules state on their constants (`InputAssumption`, `ReaderAssumption`,
`SessionAssumption`, the assumptions of `ScopePlans`, `EncodeAssumption`,
`WidthAssumption`, `BigAssumption`, `TablesAssumption`, `TableAssumption`,
`DescAssumption`), which TLC evaluates for every instance that is checked; a
premise beyond them stands in the theorem.

Recursive functions (`Progress`, `Power`, the rounds of `descEqual`, the moves of
a growth) are reasoned about by induction, which `LeastOf` and `Induction` take
from the well-foundedness of the natural numbers: a function that satisfies the
equations exists for every length (`ProgressExists`, `PowersExist`, `WalkExists`,
`MovesExist`), so the CHOOSE behind the definition has it.

Only model-checked: all of `SliceGroups`, `MapOrder` and `DecodeBudgets`, and
`CallReturns`. Liveness under fairness is out of the prover's reach, and so are
RECURSIVE operators (`EmitSkip`, `MapOrder`, `DecodeBudgets`), which walk linked
nodes and values as trees.

## Findings

`skip_mirror`: `skipValue` at a pointer takes a nil token for the whole position
and a REF to a string or a map for a repeat. Both may be the body of a fresh
record (`*string` to a string written before, `*map` to a map, `*[]T` to a nil
slice), for which the encoder took an id: every id read later is off by one.

### Disagreements that no run repeats

Between the code and its documents, met while modelling; the models follow the
code, and the properties exempt each by name where they touch it.

Wire reader:

- `AtEnd` answers for the window, not for the stream (`codec_helpers.go:144`
  against `:142`), and `decodeSub` turns it into `io.EOF` (`codec_decode.go:621`):
  a coder's sub-decode can see an early end where the source cut the stream.
- `PeekDesc` keeps an index over a compaction (`codec_helpers.go:314` against
  `:285`).
- `ByteRange` slices before the window when a skipped map key was longer than it
  (`codec_helpers.go:137` against `:133`, called at `codec_decode.go:2408`).
- A large read whose last bytes come together with `io.EOF` is reported truncated
  (`wire.go:641` against `:585`).

Encoder:

- `alive` trusts the epoch of an entry (`codec_encode.go:105` against `:101`): a
  coder's temporary map is collected, another one at its address is written as a
  repeat of it (`Shapes = {"temp_map"}` of `PointerTables`).
- `encodeSub` clears the names of the value around it: a pointer behind a coder
  may lose its interior name (`{"after_coder"}`). A field encoded alone first and
  its struct later decode apart (`{"loose_field"}`; `codec_encode.go:4367` against
  `README.md:250`).
- Two empty slices of one value with the same address, length and capacity and
  different element sizes share a slot key (`codec_encode.go:1177`). Two named
  slice types over one array: the second view is refused (`codec_encode.go:748`,
  `codec_decode.go:1390` against `README.md:248`).
- A coder registered after a struct's descriptor went out changes the bodies and
  not the descriptor they refer to (`codec_encode.go:1506` against
  `codec_desc.go:1019`). The sub-marshal of a map tie-break caches plans without
  wire names under its Encoder's epoch (`codec_encode.go:1341` against
  `gbon.go:173`).
- A panic in a nested Encode that the coder recovers does not break the Encoder,
  and the torn value is sent (`gbon.go:143` against `:129`); `WholeValuesSent`
  exempts it (`leaked`).
- `MarshalStable` accepts a key with a positive zero in an elided tail of an array
  and refuses the one with a negative zero (`gbon.go:20`). Interface keys of two
  equal structures under one name tie (`codec_encode.go:3656`). An empty map with
  string keys is checked one level deeper than others (`codec_encode.go:2970`).
- A path reference through an interface takes an id the Decoder does not register;
  so does a `**T` to a nil `*T` (`codec_decode.go:2804`).
- The body of a `BinaryMarshaler` that ends in zero bytes is written whole behind
  a header that leaves them out (`codec_desc.go:864` against `container.go:17`):
  the Decoder takes the zeros for the next token.

Decoder:

- A kept REF or VIEW to a record that was skipped in an earlier value, met before
  its own value skips anything, is refused as `bad_ref`, the class of a corrupt
  stream, and not as `evolution_ref_unmaterialized` (`codec_decode.go:2601`, with
  `narrowed` fresh for each value at `:755`, against `:2596` and `README.md:426`).
  `ReadsBack` follows the code.
- A target set through the pointer gap keeps the value of a failed Decode
  (`codec_decode.go:791` against `gbon.go:492`).
- The first coder registered after the first Decode is never seen (`gbon.go:522`
  against `:715`).
- A nil and a zero `*big.Int` are two keys of a map and one spelling: the Decoder
  refuses the map (`codec_decode.go:1931`).
- The nodes of descriptors are counted over the stream and never reset
  (`internal/wire/desc.go:358` against `README.md:142`, budgets are per value).
- `decodeElemFrame` charges the nodes of named wrappers and not their depth
  (`codec_decode.go:1500` against `:1497`); `skipValue` charges both.
- A pointer to an interface has a frame of its own when it is skipped and its
  descriptor is a literal, and when it is decoded and the descriptor is a
  reference, and in neither other case.
- Strings of flat structs and of time and text adapters are read before their
  length is held against `MaxBytes` (`codec_decode.go:2152` against
  `README.md:161`); the last tokens of a value are not held against it at all
  when it is decoded.

## Not modelled

- **errors, emit probe, canonical grain oracle**: error classes and wording, slog
  output, a counter behind a build tag, a test oracle: no state a property could
  be about. The models name an error by its class where the code branches on it.
- **encoder intern tables**: double pointers (`refInterior`), names through arrays
  and backings, grains of array elements, pooled encoders.
- **slice grouping**: slices whose elements have no size, the fallback for slices
  the scan has not met, interior pointers into backings (`backRec`), pooling.
- **intern space**: escape tokens and streams of older minors, which no Writer
  writes; path references (`Gaps` has their skips).
- **materialization**: numeric fits, the concrete Go values, grains below a struct
  field. Reflection over Go types is replaced by constants that give the types.
- **map order**: keys without a descriptor, unexported fields, which are refused
  like NaNs, and wire names of keys held by interfaces.
- **decode budgets**: repeats and views beyond their token, nils, limits that
  change between values, the Reader's bounds on strings interned.
- **decoder facade**: `Register` and `RegisterAs`, whose tables are read by name
  only, and the setters of limits and of trusted input.
