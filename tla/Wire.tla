-------------------------------- MODULE Wire --------------------------------
(***************************************************************************)
(* git's smart protocol as alt speaks it on both sides (crates/alt-wire),  *)
(* and what the server does with a fetch (crates/alt-cli/src/bin/          *)
(* altd_server.rs).  A stream is a sequence of words, a line one too; a    *)
(* length counts its header's four and a word as one.                      *)
(***************************************************************************)
EXTENDS Integers, Sequences, FiniteSets

LOCAL INSTANCE SequencesExt
LOCAL INSTANCE TLC

MaxPayload == 6               \* MAX_LINE_LEN - 4, 65516 in the code
Zero == "0"                   \* the all-zero id
Sha1 == {"o1", "o2", Zero}    \* ids of the one length, "x1" being of the other
Fail == <<>>                  \* Err(_)

From(text, n) == SubSeq(text, n + 1, Len(text))

-----------------------------------------------------------------------------
(***************************************************************************)
(* pkt-line: read_frame() and the writers.  A frame is <<kind, payload,    *)
(* what follows>>.                                                         *)
(***************************************************************************)
Data(line) == <<Len(line) + 4>> \o line
Flush == <<0>>
Delim == <<1>>
ResponseEnd == <<2>>

ReadFrame(stream) ==
    IF stream = <<>> THEN Fail
    ELSE LET len == Head(stream)
         IN  CASE len \in 0 .. 2 -> <<<<"flush", "delim", "end">>[len + 1], <<>>, Tail(stream)>>
               [] len = 3 \/ len > MaxPayload + 4 -> Fail
               [] OTHER -> IF Len(stream) < len - 3 THEN Fail
                           ELSE <<"data", SubSeq(stream, 2, len - 3), From(stream, len - 3)>>

\* The lines up to a frame that is none, which one, and what follows.
RECURSIVE Lines(_, _)
Lines(stream, found) ==
    LET frame == ReadFrame(stream)
    IN  CASE frame = Fail -> Fail
          [] frame # Fail /\ frame[1] = "data" -> Lines(frame[3], Append(found, frame[2]))
          [] OTHER -> <<found, frame[1], frame[3]>>
Section(stream) == Lines(stream, <<>>)

Sent(lines) == FlattenSeq([i \in DOMAIN lines |-> Data(lines[i])])
If(said, line) == IF said THEN Data(line) ELSE <<>>

\* Side-band: band 1 in chunks, up to a flush.  band 3 is the server's error.
RECURSIVE Chunks(_)
Chunks(body) ==
    IF body = <<>> THEN <<>>
    ELSE LET n == IF Len(body) < MaxPayload - 1 THEN Len(body) ELSE MaxPayload - 1
         IN  Data(<<1>> \o SubSeq(body, 1, n)) \o Chunks(From(body, n))
SideBand(body) == Chunks(body) \o Flush

\* drain_packfile(): a delimiter is an error, and for
\* parse_report_status_sideband() it is passed over.
RECURSIVE Drained(_, _, _)
Drained(stream, delims, out) ==
    LET frame == ReadFrame(stream)
    IN  CASE frame = Fail -> Fail
          [] frame # Fail /\ frame[1] \in {"flush", "end"} -> <<out>>
          [] frame # Fail /\ frame[1] = "delim" -> IF delims THEN Drained(frame[3], delims, out) ELSE Fail
          [] OTHER -> CASE frame[2] = <<>> -> Fail
                        [] frame[2] # <<>> /\ Head(frame[2]) = 1 -> Drained(frame[3], delims, out \o Tail(frame[2]))
                        [] frame[2] # <<>> /\ Head(frame[2]) = 2 -> Drained(frame[3], delims, out)
                        [] OTHER -> Fail

-----------------------------------------------------------------------------
(***************************************************************************)
(* v2 requests: a command, a delimiter, the arguments, a flush.            *)
(***************************************************************************)
Header(command, format) == Data(<<"command", command>>) \o If(format # "-", <<"object-format", format>>) \o Delim
Format(lines) ==
    LET said == SelectSeq(lines, LAMBDA l : l[1] = "object-format")
    IN  IF said = <<>> THEN "-" ELSE Last(said)[2]

\* sniff_command(): the first command line; a section end before one is an error.
SniffCommand(stream) ==
    LET head == Section(stream)
        said == IF head = Fail THEN <<>> ELSE SelectSeq(head[1], LAMBDA l : l[1] = "command")
    IN  IF said = <<>> THEN Fail ELSE <<said[1][2]>>

Values(lines, word) == LET of == SelectSeq(lines, LAMBDA l : l[1] = word) IN [i \in DOMAIN of |-> of[i][2]]
Says(lines, word) == \E i \in DOMAIN lines : lines[i] = <<word>>

\* A request's arguments: none when a flush comes for the delimiter.
Arguments(stream) ==
    LET head == Section(stream)
    IN  CASE head = Fail -> Fail
          [] head # Fail /\ head[2] # "delim" -> <<head[1], <<>>>>
          [] OTHER -> LET args == Section(head[3]) IN IF args = Fail THEN Fail ELSE <<head[1], args[1]>>

EncodeLsRefs(req, format) ==
    Header("ls-refs", format) \o If(req.peel, <<"peel">>) \o If(req.symrefs, <<"symrefs">>)
        \o Sent([i \in DOMAIN req.prefixes |-> <<"ref-prefix", req.prefixes[i]>>]) \o Flush

ParseLsRefs(stream) ==
    LET said == Arguments(stream)
    IN  IF said = Fail THEN Fail
        ELSE <<[peel |-> Says(said[2], "peel"), symrefs |-> Says(said[2], "symrefs"),
                prefixes |-> Values(said[2], "ref-prefix")], Format(said[1])>>

Flags == {"done", "no-progress", "thin-pack", "ofs-delta", "include-tag"}
EncodeFetch(req, format) ==
    Header("fetch", format)
        \o If("thin-pack" \in req.flags, <<"thin-pack">>) \o If("no-progress" \in req.flags, <<"no-progress">>)
        \o If("include-tag" \in req.flags, <<"include-tag">>) \o If("ofs-delta" \in req.flags, <<"ofs-delta">>)
        \o If(req.filter # "-", <<"filter", req.filter>>)
        \o Sent([i \in DOMAIN req.wants |-> <<"want", req.wants[i]>>])
        \o Sent([i \in DOMAIN req.haves |-> <<"have", req.haves[i]>>])
        \o If("done" \in req.flags, <<"done">>) \o Flush

\* parse_fetch_request(), which reads ids of the one length only.
ParseFetch(stream) ==
    LET said == Arguments(stream)
        ids  == IF said = Fail THEN <<>> ELSE Values(said[2], "want") \o Values(said[2], "have")
        filters == IF said = Fail THEN <<>> ELSE Values(said[2], "filter")
    IN  IF said = Fail \/ ~(ToSet(ids) \subseteq Sha1) THEN Fail
        ELSE <<[flags |-> {f \in Flags : Says(said[2], f)},
                wants |-> Values(said[2], "want"), haves |-> Values(said[2], "have"),
                filter |-> IF filters = <<>> THEN "-" ELSE Last(filters)], Format(said[1])>>

-----------------------------------------------------------------------------
(***************************************************************************)
(* The answer to a fetch: sections in any order, each after its name and   *)
(* up to a delimiter, and the pack in the last of them.                    *)
(***************************************************************************)
SectionNames == {"acknowledgments", "shallow-info", "wanted-refs"}
LineOf(section, line) ==
    CASE section = "acknowledgments" ->
           line \in {<<"NAK">>, <<"ready">>} \/ (Len(line) = 2 /\ line[1] = "ACK" /\ line[2] \in Sha1)
      [] section = "shallow-info" -> Len(line) = 2 /\ line[1] \in {"shallow", "unshallow"} /\ line[2] \in Sha1
      [] section = "wanted-refs" -> Len(line) = 2 /\ line[1] \in Sha1

\* read_fetch_preamble(): the sections' lines, whether a pack follows, and it.
RECURSIVE Preamble(_, _, _)
Preamble(stream, section, found) ==
    LET frame == ReadFrame(stream)
        line  == frame[2]
    IN  CASE frame = Fail -> Fail
          [] frame # Fail /\ frame[1] \in {"flush", "end"} -> <<found, FALSE, frame[3]>>
          [] frame # Fail /\ frame[1] = "delim" -> Preamble(frame[3], "-", found)
          [] OTHER ->
               CASE section = "-" /\ line = <<"packfile">> -> <<found, TRUE, frame[3]>>
                 [] section = "-" /\ line # <<"packfile">> ->
                      IF Len(line) = 1 /\ line[1] \in SectionNames THEN Preamble(frame[3], line[1], found) ELSE Fail
                 [] OTHER -> IF LineOf(section, line)
                             THEN Preamble(frame[3], section, [found EXCEPT ![section] = Append(@, line)])
                             ELSE Fail

EncodePackfile(pack) == Data(<<"packfile">>) \o SideBand(pack)
Fetched(stream) ==            \* what fetch keeps: the pack, or nothing
    LET said == Preamble(stream, "-", [s \in SectionNames |-> <<>>])
    IN  IF said = Fail \/ ~said[2] THEN Fail ELSE Drained(said[3], FALSE, <<>>)

(***************************************************************************)
(* ls-refs' answer: a line per ref with attributes <<key, value>>.         *)
(***************************************************************************)
EncodeRefs(refs) ==
    Sent([i \in DOMAIN refs |-> <<refs[i].oid, refs[i].name>>
        \o (IF refs[i].symref = "-" THEN <<>> ELSE <<<<"symref-target", refs[i].symref>>>>)
        \o (IF refs[i].peeled = "-" THEN <<>> ELSE <<<<"peeled", refs[i].peeled>>>>)]) \o Flush

Attribute(line, key) ==
    LET of == SelectSeq(From(line, 2), LAMBDA a : a[1] = key) IN IF of = <<>> THEN "-" ELSE Last(of)[2]

ParseRefs(stream) ==
    LET said == Section(stream)
        Ok(l) == Len(l) > 1 /\ l[1] \in Sha1 /\ Attribute(l, "peeled") \in Sha1 \cup {"-"}
    IN  IF said = Fail \/ \E i \in DOMAIN said[1] : ~Ok(said[1][i]) THEN Fail
        ELSE <<[i \in DOMAIN said[1] |-> [oid |-> said[1][i][1], name |-> said[1][i][2],
                 symref |-> Attribute(said[1][i], "symref-target"), peeled |-> Attribute(said[1][i], "peeled")]]>>

(***************************************************************************)
(* Capabilities, of a read.  A bare transport has no service line; the     *)
(* version may be anywhere and the last one counts.                        *)
(***************************************************************************)
EncodeCaps(service, caps) ==
    Data(<<"# service", service>>) \o Flush \o Data(<<"version", 2>>) \o Sent(caps) \o Flush

ParseCaps(stream, service) ==
    LET first == ReadFrame(stream)
        named == first # Fail /\ first[1] = "data" /\ first[2][1] = "# service"
        body  == IF named THEN ReadFrame(first[3]) ELSE Fail
        lines == Section(IF named THEN body[3] ELSE stream)
        versions == Values(lines[1], "version")
    IN  CASE first = Fail \/ first[1] # "data" -> Fail
          [] named /\ (first[2][2] # service \/ body = Fail \/ body[1] # "flush") -> Fail
          [] OTHER -> IF lines = Fail \/ lines[2] # "flush" \/ versions = <<>> \/ Last(versions) # 2 THEN Fail
                      ELSE <<{l \in ToSet(lines[1]) : l[1] # "version"}>>

-----------------------------------------------------------------------------
(***************************************************************************)
(* Push, which is v1: the refs and then the capabilities on the first      *)
(* line, past "nul"; updates [old, new, name] with "-" for no id.          *)
(***************************************************************************)
Id(oid) == IF oid = "-" THEN Zero ELSE oid
Unzero(oid) == IF oid = Zero THEN "-" ELSE oid
WithCaps(lines, caps) ==
    [i \in DOMAIN lines |-> IF i = 1 THEN lines[1] \o <<"nul">> \o caps ELSE lines[i]]
Nul(line) == SelectInSeq(line, LAMBDA w : w = "nul")
BeforeNul(line) == IF Nul(line) = 0 THEN line ELSE SubSeq(line, 1, Nul(line) - 1)
CapsOf(lines) == FlattenSeq([i \in DOMAIN lines |-> IF Nul(lines[i]) = 0 THEN <<>> ELSE From(lines[i], Nul(lines[i]))])

EncodeV1Ad(refs, caps) ==
    LET lines == IF refs = <<>> THEN <<<<Zero, "capabilities^{}">>>> ELSE refs
    IN  Data(<<"# service", "git-receive-pack">>) \o Flush \o Sent(WithCaps(lines, caps)) \o Flush

\* parse_v1_ref_advertisement(): a delimiter ends it like a flush.
ParseV1Ad(stream) ==
    LET first == ReadFrame(stream)
        named == first # Fail /\ first[1] = "data" /\ first[2][1] = "# service"
        body  == IF named THEN ReadFrame(first[3]) ELSE Fail
        lines == Section(IF named THEN body[3] ELSE stream)
    IN  CASE first = Fail \/ first[1] \in {"delim", "end"} -> Fail
          [] first # Fail /\ first[1] = "flush" -> <<{}, <<>>>>
          [] named /\ (first[2][2] # "git-receive-pack" \/ body = Fail \/ body[1] # "flush") -> Fail
          [] OTHER -> IF lines = Fail THEN Fail
                      ELSE <<{BeforeNul(l) : l \in ToSet(lines[1])} \ {<<Zero, "capabilities^{}">>}, CapsOf(lines[1])>>

EncodePush(updates, caps, pack) ==
    Sent(WithCaps([i \in DOMAIN updates |-> <<Id(updates[i].old), Id(updates[i].new), updates[i].name>>], caps))
        \o Flush \o pack

\* parse_push_request_head(), and the pack as what is left.
ParsePush(stream) ==
    LET said == Section(stream)
        Ok(l) == Len(l) = 3 /\ l[1] \in Sha1 /\ l[2] \in Sha1
        Update(l) == [old |-> Unzero(l[1]), new |-> Unzero(l[2]), name |-> l[3]]
    IN  IF said = Fail \/ \E i \in DOMAIN said[1] : ~Ok(BeforeNul(said[1][i])) THEN Fail
        ELSE <<[i \in DOMAIN said[1] |-> Update(BeforeNul(said[1][i]))], CapsOf(said[1]), said[3]>>

\* canonical_push_payload_with_nonce(): what is signed.
Rank == [w \in {Zero, "o1", "o2", "r1", "r2"} |-> CASE w = Zero -> 0 [] w = "o1" -> 1 [] w = "o2" -> 2
                                                    [] w = "r1" -> 3 [] w = "r2" -> 4]
LineBefore(x, y) ==
    \E k \in 1 .. 3 : Rank[x[k]] < Rank[y[k]] /\ \A j \in 1 .. k - 1 : x[j] = y[j]
CanonicalPayload(updates, nonce) ==
    (IF nonce = "-" THEN <<>> ELSE <<<<"nonce", nonce>>>>)
        \o SortSeq([i \in DOMAIN updates |-> <<Id(updates[i].old), Id(updates[i].new), updates[i].name>>], LineBefore)

(***************************************************************************)
(* The report: <<"unpack", "ok" or why>> and a line <<"ok", ref>> or       *)
(* <<"ng", ref, why>> for each update.                                     *)
(***************************************************************************)
EncodeReport(unpack, commands) == Data(<<"unpack", unpack>>) \o Sent(commands) \o Flush

RECURSIVE Report(_, _)
Report(stream, said) ==
    LET frame == ReadFrame(stream)
        line  == frame[2]
    IN  CASE frame = Fail -> Fail
          [] frame # Fail /\ frame[1] \in {"flush", "end"} -> <<said>>
          [] frame # Fail /\ frame[1] = "delim" -> Report(frame[3], said)
          [] OTHER -> CASE line[1] = "unpack" -> Report(frame[3], [said EXCEPT !.unpack = line[2]])
                        [] line[1] = "ok" \/ (line[1] = "ng" /\ Len(line) = 3) ->
                             Report(frame[3], [said EXCEPT !.commands = Append(@, line)])
                        [] OTHER -> Fail
ParseReport(stream) == Report(stream, [unpack |-> "(no unpack line)", commands |-> <<>>])
ParseReportSideBand(stream) ==
    LET band == Drained(stream, TRUE, <<>>) IN IF band = Fail THEN Fail ELSE ParseReport(band[1])

\* What push tells its caller.
Pushed(report) ==
    report # Fail /\ report[1].unpack = "ok" /\ \A i \in DOMAIN report[1].commands : report[1].commands[i][1] = "ok"

-----------------------------------------------------------------------------
(***************************************************************************)
(* FilterSpec: of a fetch's filter, what a pack leaves out.  An unknown    *)
(* one leaves out nothing.                                                 *)
(***************************************************************************)
Excludes(filter, kind, size) ==
    CASE kind = "blob" -> \/ filter \in {<<"blob:none">>, <<"tree:0">>}
                          \/ Len(filter) = 2 /\ filter[1] = "blob:limit" /\ size >= filter[2]
      [] kind = "tree" -> filter = <<"tree:0">>
      [] OTHER -> FALSE

\* build_pack_for_fetch(): of the objects that go out, those that are left.
PackFor(outgoing, filter) == {o \in outgoing : ~Excludes(filter, o.kind, o.size)}

-----------------------------------------------------------------------------
(***************************************************************************)
(* What the codecs promise each other, over small streams.                 *)
(***************************************************************************)
UpTo(S, n) == UNION {[1 .. k -> S] : k \in 0 .. n}
Cuts(stream) == {SubSeq(stream, 1, k) : k \in 0 .. Len(stream) - 1}

\* read_frame: lines come back as they were sent, and of a section that is cut
\* short none does: a stream that ends is an error and never an end.
ASSUME SectionsReadBack ==
    \A lines \in UpTo({<<>>, <<"a">>, <<"a", "b">>}, 3) :
        /\ \A rest \in {<<>>, <<"z">>} : Section(Sent(lines) \o Flush \o rest) = <<lines, "flush", rest>>
        /\ \A cut \in Cuts(Sent(lines) \o Flush) : Section(cut) = Fail

\* encode_ls_refs_request and parse_ls_refs_request are each other's inverse,
\* a request that is cut is refused, and sniff_command routes it.
ASSUME LsRefsReadBack ==
    \A peel, symrefs \in BOOLEAN, prefixes \in UpTo({"r1", "r2"}, 2), format \in {"-", "sha1"} :
        LET req  == [peel |-> peel, symrefs |-> symrefs, prefixes |-> prefixes]
            sent == EncodeLsRefs(req, format)
        IN  /\ ParseLsRefs(sent) = <<req, format>> /\ SniffCommand(sent) = <<"ls-refs">>
            /\ \A cut \in Cuts(sent) : ParseLsRefs(cut) = Fail

\* So are encode_fetch_request and parse_fetch_request, but of SHA-1 ids alone:
\* a client of the other format says so and has its wants refused.
ASSUME FetchReadsBack ==
    \A flags \in SUBSET {"done", "thin-pack", "include-tag"}, filter \in {"-", "blob:none"},
       wants, haves \in UpTo({"o1", "o2"}, 1), format \in {"-", "sha1"} :
        LET req  == [flags |-> flags, wants |-> wants, haves |-> haves, filter |-> filter]
            sent == EncodeFetch(req, format)
        IN  /\ ParseFetch(sent) = <<req, format>> /\ SniffCommand(sent) = <<"fetch">>
            /\ \A cut \in Cuts(sent) : ParseFetch(cut) = Fail
            /\ ParseFetch(EncodeFetch([req EXCEPT !.wants = Append(@, "x1")], "sha256")) = Fail

Bodies == {[i \in 1 .. n |-> <<"p", i>>] : n \in 0 .. 2 * MaxPayload}
Preambles ==
    UpTo({Data(<<"acknowledgments">>) \o Data(<<"NAK">>) \o Delim,
          Data(<<"acknowledgments">>) \o Data(<<"ACK", "o1">>) \o Data(<<"ready">>) \o Delim,
          Data(<<"shallow-info">>) \o Data(<<"shallow", "o1">>) \o Delim}, 2)

\* drain_packfile: a pack comes whole out of its side-band, whatever sections
\* come before it and whatever progress is told within it, and a stream that is
\* cut anywhere yields no pack: a short one is never indexed.
ASSUME PacksArriveWholeOrNot ==
    \A body \in Bodies, before \in Preambles :
        LET sent == FlattenSeq(before) \o EncodePackfile(body)
        IN  /\ Fetched(sent) = <<body>>
            /\ Fetched(FlattenSeq(before) \o Data(<<"packfile">>) \o Data(<<2, "progress">>) \o SideBand(body)) = <<body>>
            /\ Fetched(FlattenSeq(before) \o Data(<<"packfile">>) \o Data(<<3, "no">>) \o SideBand(body)) = Fail
            /\ \A cut \in Cuts(sent) : Fetched(cut) = Fail

\* encode_ls_refs_response and parse_ls_refs_response, attributes and all.
ASSUME RefsReadBack ==
    \A refs \in UpTo([oid : {"o1", "o2"}, name : {"r1"}, symref : {"-", "r2"}, peeled : {"-", "o1"}], 2) :
        /\ ParseRefs(EncodeRefs(refs)) = <<refs>>
        /\ \A cut \in Cuts(EncodeRefs(refs)) : ParseRefs(cut) = Fail

\* parse_v2_capability_advertisement: what encode_v2_capabilities says, over
\* HTTP or bare; a cut one is refused.  Its "exactly one version" is the last.
ASSUME CapabilitiesReadBack ==
    \A caps \in UpTo({<<"ls-refs">>, <<"fetch", "filter">>}, 2) :
        LET sent == EncodeCaps("git-upload-pack", caps)
        IN  /\ ParseCaps(sent, "git-upload-pack") = <<ToSet(caps)>>
            /\ ParseCaps(From(sent, Len(Data(<<"# service", "s">>)) + 1), "git-upload-pack") = <<ToSet(caps)>>
            /\ ParseCaps(sent, "git-receive-pack") = Fail
            /\ \A cut \in Cuts(sent) : ParseCaps(cut, "git-upload-pack") = Fail
            /\ ParseCaps(Data(<<"version", 1>>) \o From(sent, Len(Data(<<"# service", "s">>)) + 1), "git-upload-pack")
                 = <<ToSet(caps)>>

Ads == {refs \in UpTo({<<"o1", "r1">>, <<"o2", "r2">>}, 2) : Cardinality(ToSet(refs)) = Len(refs)}

\* parse_v1_ref_advertisement: what write_v1_advertisement says, of no refs too.
\* One that is cut is refused, but one with a delimiter in it is taken as ended
\* there: "bail loudly so the caller doesn't silently truncate" is not done.
ASSUME AdsReadBack ==
    \A refs \in Ads, caps \in {<<>>, <<"report-status">>, <<"report-status", "atomic">>} :
        LET sent == EncodeV1Ad(refs, caps)
        IN  /\ ParseV1Ad(sent) = <<ToSet(refs), caps>>
            /\ \A cut \in Cuts(sent) : ParseV1Ad(cut) = Fail
            /\ ParseV1Ad(SubSeq(sent, 1, Len(sent) - 1) \o Delim \o Data(<<"o1", "r3">>) \o Flush) = <<ToSet(refs), caps>>

Ids == {"-", "o1"}
Updates == UpTo([old : Ids, new : Ids, name : {"r1", "r2"}], 2)

\* encode_push_request and parse_push_request_head: creations and deletions come
\* back as such, the pack is what follows, and a cut list of updates is refused.
ASSUME PushesReadBack ==
    \A updates \in Updates, pack \in {<<>>, <<"PACK">>} :
        LET caps == IF updates = <<>> THEN <<>> ELSE <<"report-status">>
            sent == EncodePush(updates, caps, pack)
        IN  /\ ParsePush(sent) = <<updates, caps, pack>>
            /\ \A k \in 0 .. Len(sent) - Len(pack) - 1 : ParsePush(SubSeq(sent, 1, k)) = Fail

\* canonical_push_payload_with_nonce: a signature speaks for the same updates,
\* in whatever order, and for the one nonce; it speaks for no other push.
ASSUME SignaturesNameThePush ==
    \A u, v \in Updates, n, m \in {"-", "n1", "n2"} :
        (CanonicalPayload(u, n) = CanonicalPayload(v, m))
            <=> (n = m /\ (u = v \/ u = Reverse(v)))

Commands == UpTo({<<"ok", "r1">>, <<"ng", "r2", "stale">>}, 2)

\* parse_report_status_sideband: the report comes back; a cut one, one without
\* its unpack line and one with a refused update are no success.  A report that
\* does not speak of an update at all is one.
ASSUME ReportsReadBack ==
    \A unpack \in {"ok", "corrupt"}, commands \in Commands :
        LET report == EncodeReport(unpack, commands)
            read   == ParseReportSideBand(SideBand(report))
        IN  /\ read = <<[unpack |-> unpack, commands |-> commands]>>
            /\ Pushed(read) <=> (unpack = "ok" /\ ToSet(commands) \subseteq {<<"ok", "r1">>})
            /\ ~Pushed(ParseReport(Sent(commands) \o Flush))
            /\ \A cut \in Cuts(SideBand(report)) : ~Pushed(ParseReportSideBand(cut))
ASSUME SilenceIsSuccess == Pushed(ParseReport(EncodeReport("ok", <<>>)))

Objects == [kind : {"commit", "tag", "tree", "blob"}, size : 0 .. 2]
Filters == {<<"none">>, <<"blob:none">>, <<"tree:0">>, <<"combine">>, <<"blob:limit", 0>>, <<"blob:limit", 1>>}

\* FilterSpec: a filter leaves every commit and tag in the pack, and trees but
\* for tree:0; a limit of zero is blob:none, and one that is not known is none.
ASSUME FiltersKeepHistory ==
    /\ \A filter \in Filters : \A o \in Objects \ PackFor(Objects, filter) :
           o.kind = "blob" \/ (o.kind = "tree" /\ filter = <<"tree:0">>)
    /\ PackFor(Objects, <<"blob:limit", 0>>) = PackFor(Objects, <<"blob:none">>)
    /\ PackFor(Objects, <<"combine">>) = Objects
=============================================================================
