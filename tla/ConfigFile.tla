----------------------------- MODULE ConfigFile -----------------------------
(***************************************************************************)
(* The INI files of src/configfile: reading (parse.rs), the store and its  *)
(* accessors (mod.rs), interpolation (interp.rs) and writing (write.rs).   *)
(*                                                                         *)
(* A text is a sequence of characters over a small alphabet. The store is  *)
(* the record cf: defaults and sections are sequences of [k, v] in         *)
(* insertion order, a section's v is such a sequence, and an option's v is *)
(* NoValue or a text. The scrubbing of released buffers is left out.       *)
(***************************************************************************)
EXTENDS Integers, Sequences, FiniteSets, SequencesExt

CONSTANTS
    Docs,            \* the files that are read: [ok: BOOLEAN, kind, text]
    SectionNames, OptionNames, Values,   \* what callers of the setters pass
    Lower(_),        \* to_lowercase on a character
    MaxConfigOps, MaxDepth, MaxOutput,
    NoValue

VARIABLE cf

DefaultSection == <<"D">>
Space(c) == c \in {" ", "\t", "\n"}

-----------------------------------------------------------------------------
(* Insertion-ordered maps and text.                                        *)

Position(o, key) == IF \E i \in DOMAIN o : o[i].k = key
                    THEN CHOOSE i \in DOMAIN o : o[i].k = key ELSE 0
OContains(o, key) == Position(o, key) # 0
OGet(o, key) == o[Position(o, key)].v
OInsert(o, key, value) ==
    IF OContains(o, key) THEN [o EXCEPT ![Position(o, key)].v = value]
    ELSE Append(o, [k |-> key, v |-> value])
ORemove(o, key) == SelectSeq(o, LAMBDA e : e.k # key)
OKeys(o) == [i \in DOMAIN o |-> o[i].k]

PyRstrip(s) ==
    LET last == {i \in DOMAIN s : ~Space(s[i])}
    IN  IF last = {} THEN <<>> ELSE SubSeq(s, 1, Max(last))
PyStrip(s) ==
    LET first == {i \in DOMAIN s : ~Space(s[i])}
    IN  IF first = {} THEN <<>> ELSE SubSeq(s, Min(first), Max(first))
Indent(s) == LET first == {i \in DOMAIN s : ~Space(s[i])}
             IN  IF first = {} THEN Len(s) ELSE Min(first) - 1
OptionXform(s) == [i \in DOMAIN s |-> Lower(s[i])]
FindAny(s, chars) == LET at == {i \in DOMAIN s : s[i] \in chars}
                     IN  IF at = {} THEN 0 ELSE Min(at)

\* split_inclusive: every line keeps its line break.
Lines(text) ==
    LET ends == {i \in DOMAIN text : text[i] = "\n" \/ i = Len(text)}
        nth(k) == CHOOSE i \in ends : Cardinality({j \in ends : j <= i}) = k
    IN  [k \in 1..Cardinality(ends) |->
            SubSeq(text, (IF k = 1 THEN 1 ELSE nth(k - 1) + 1), nth(k))]
JoinLines(ls) ==
    FlattenSeq([i \in DOMAIN ls |-> IF i = 1 THEN ls[i] ELSE <<"\n">> \o ls[i]])

-----------------------------------------------------------------------------
(* Reading.                                                                *)

\* A mutant: a name that opens a header is let through.
KeyFaultNoHeader(key) ==
    \/ key = <<>> \/ FindAny(key, {"\n", "=", ":"}) # 0
    \/ Space(Head(key)) \/ Space(Last(key)) \/ Head(key) = "#"
KeyFault(key) ==
    \/ key = <<>> \/ FindAny(key, {"\n", "=", ":"}) # 0
    \/ Space(Head(key)) \/ Space(Last(key)) \/ Head(key) \in {"[", "#", ";"}
SectionFault(name) == name = <<>> \/ FindAny(name, {"\n"}) # 0

\* The name in [name], up to the last bracket; <<>> when clean is no header.
SectionHeader(clean) ==
    LET close == {i \in DOMAIN clean : clean[i] = "]"}
    IN  IF clean = <<>> \/ clean[1] # "[" \/ close = {} \/ (close # {} /\ Max(close) <= 2)
        THEN <<>> ELSE SubSeq(clean, 2, Max(close) - 1)

\* [ok, key, value]; value is the list of lines collected so far.
ParseOption(clean, allowNoValue) ==
    LET p == FindAny(clean, {"=", ":"})
    IN  IF p # 0
        THEN [ok |-> TRUE, key |-> PyRstrip(SubSeq(clean, 1, p - 1)),
              value |-> <<PyStrip(SubSeq(clean, p + 1, Len(clean)))>>]
        ELSE [ok |-> allowNoValue, key |-> PyRstrip(clean), value |-> NoValue]

NewWork == [dflt |-> <<>>, sections |-> <<>>, cur |-> <<>>, opt |-> <<>>, indent |-> 0,
            bad |-> FALSE, err |-> FALSE]
CurOpts(w) == IF w.cur = DefaultSection THEN w.dflt ELSE OGet(w.sections, w.cur)
WithOpts(w, opts) ==
    IF w.cur = DefaultSection THEN [w EXCEPT !.dflt = opts]
    ELSE [w EXCEPT !.sections = OInsert(@, w.cur, opts)]
PushLine(w, l) == WithOpts(w, OInsert(CurOpts(w), w.opt, Append(OGet(CurOpts(w), w.opt), l)))
HasLines(w) == w.cur # <<>> /\ w.opt # <<>> /\ OGet(CurOpts(w), w.opt) # NoValue

ReadHeader(w, header) ==
    IF header = DefaultSection THEN [w EXCEPT !.cur = header, !.opt = <<>>]
    ELSE IF OContains(w.sections, header) THEN [w EXCEPT !.err = TRUE]
    ELSE [w EXCEPT !.sections = OInsert(@, header, <<>>), !.cur = header, !.opt = <<>>]

ReadOption(w, clean, indent, allowNoValue) ==
    LET o == ParseOption(clean, allowNoValue)
        key == OptionXform(o.key)
        v == [w EXCEPT !.indent = indent]
    IN  IF ~o.ok \/ key = <<>> THEN [v EXCEPT !.bad = TRUE]
        ELSE IF OContains(CurOpts(w), key) THEN [v EXCEPT !.err = TRUE]
        ELSE [WithOpts(v, OInsert(CurOpts(w), key, o.value)) EXCEPT !.opt = key]

ReadLine(w, line, allowNoValue) ==
    LET trimmed == PyStrip(line)
        comment == trimmed # <<>> /\ trimmed[1] \in {"#", ";"}
        header == SectionHeader(trimmed)
    IN  CASE w.err -> w
          [] ~w.err /\ comment -> w
          [] ~w.err /\ trimmed = <<>> -> IF HasLines(w) THEN PushLine(w, <<>>) ELSE w
          [] OTHER ->
               IF w.cur # <<>> /\ w.opt # <<>> /\ Indent(line) > w.indent
               THEN IF HasLines(w) THEN PushLine(w, trimmed) ELSE [w EXCEPT !.err = TRUE]
               ELSE IF header # <<>> THEN ReadHeader(w, header)
               ELSE IF w.cur = <<>> THEN [w EXCEPT !.err = TRUE]
               ELSE ReadOption(w, trimmed, Indent(line), allowNoValue)

Join(acc) == IF acc = NoValue THEN NoValue ELSE PyRstrip(JoinLines(acc))

MergeOpts(into, opts) == FoldLeft(LAMBDA o, e : OInsert(o, e.k, Join(e.v)), into, opts)
Merge(cfg, w) ==
    [cfg EXCEPT !.defaults = MergeOpts(@, w.dflt),
                !.sections = FoldLeft(
                    LAMBDA ss, s : OInsert(ss, s.k, MergeOpts(
                        IF OContains(ss, s.k) THEN OGet(ss, s.k) ELSE <<>>, s.v)),
                    @, w.sections)]

Parsed(cfg, text) ==
    FoldLeft(LAMBDA w, l : ReadLine(w, l, cfg.allowNoValue), NewWork, Lines(text))
\* A mutant: what was collected is merged before the errors are looked at.
ReadTextEagerly(cfg, text) ==
    [ok |-> ~Parsed(cfg, text).err /\ ~Parsed(cfg, text).bad,
     cfg |-> Merge(cfg, Parsed(cfg, text))]
ReadText(cfg, text) ==
    LET w == Parsed(cfg, text)
    IN  IF w.err \/ w.bad THEN [ok |-> FALSE, cfg |-> cfg]
        ELSE [ok |-> TRUE, cfg |-> Merge(cfg, w)]

-----------------------------------------------------------------------------
(* Writing.                                                                *)

WriteSection(name, opts, delim, allowNoValue) ==
    <<"[">> \o name \o <<"]", "\n">>
    \o FlattenSeq([i \in DOMAIN opts |->
          LET v == opts[i].v
              broken == FlattenSeq([j \in DOMAIN v |->
                           IF v[j] = "\n" THEN <<"\n", "\t">> ELSE <<v[j]>>])
          IN  opts[i].k
              \o (IF v # NoValue THEN delim \o broken
                  ELSE IF allowNoValue THEN <<>> ELSE delim \o <<"N", "o", "n", "e">>)
              \o <<"\n">>])
    \o <<"\n">>

ToText(cfg, spaced) ==
    LET delim == IF spaced THEN <<" ", "=", " ">> ELSE <<"=">>
    IN  (IF cfg.defaults = <<>> THEN <<>>
         ELSE WriteSection(DefaultSection, cfg.defaults, delim, cfg.allowNoValue))
        \o FlattenSeq([i \in DOMAIN cfg.sections |->
              WriteSection(cfg.sections[i].k, cfg.sections[i].v, delim, cfg.allowNoValue)])

-----------------------------------------------------------------------------
(* Looking up.                                                             *)

RawLookup(cfg, section, key) ==
    LET own == IF OContains(cfg.sections, section) THEN OGet(cfg.sections, section) ELSE <<>>
    IN  IF OContains(own, key) THEN OGet(own, key)
        ELSE IF (OContains(cfg.sections, section) \/ section = DefaultSection)
                /\ OContains(cfg.defaults, key)
        THEN OGet(cfg.defaults, key) ELSE NoValue

HasOption(cfg, section, key) ==
    IF OContains(cfg.sections, section)
    THEN OContains(OGet(cfg.sections, section), key) \/ OContains(cfg.defaults, key)
    ELSE section = DefaultSection /\ OContains(cfg.defaults, key)

MergedView(cfg, section) ==
    FoldLeft(LAMBDA v, e : OInsert(v, e.k, e.v), cfg.defaults,
             IF OContains(cfg.sections, section) THEN OGet(cfg.sections, section) ELSE <<>>)

Options(cfg, section) ==
    LET own == OGet(cfg.sections, section)
    IN  OKeys(own) \o SelectSeq(OKeys(cfg.defaults), LAMBDA k : ~OContains(own, k))

\* %(name)s at the head of s: [name, end], end = 0 when it is not one.
KeyRef(s) ==
    LET close == FindAny(SubSeq(s, 3, Len(s)), {")"}) + 2
    IN  IF close = 2 \/ close = 3 \/ Len(s) < close + 1 THEN [name |-> <<>>, end |-> 0]
        ELSE IF s[close + 1] # "s" THEN [name |-> <<>>, end |-> 0]
        ELSE [name |-> SubSeq(s, 3, close - 1), end |-> close + 1]

Failed(out, why) == [out |-> out, err |-> why]
\* A mutant: only the depth is bounded.
OverCapNever(out) == Len(out) < 0
OverCap(out) == Len(out) > MaxOutput
RECURSIVE Interpolate(_, _, _, _)
\* One reference expanded, before the rest of the text it stands in.
Expand(value, view, depth, out) ==
    IF FindAny(value, {"%"}) # 0 THEN Interpolate(value, view, depth + 1, out)
    ELSE Failed(out \o value, "no")
Interpolate(rest, view, depth, out) ==
    LET p == FindAny(rest, {"%"})
        upTo == out \o SubSeq(rest, 1, p - 1)
        at == SubSeq(rest, p, Len(rest))
        ref == KeyRef(at)
        var == OptionXform(ref.name)
        after(n) == SubSeq(at, n + 1, Len(at))
    IN  IF depth > MaxDepth THEN Failed(out, "depth")
        ELSE IF rest = <<>> THEN Failed(out, "no")
        ELSE IF OverCap(out) THEN Failed(out, "output")
        ELSE IF p = 0 THEN Failed(out \o rest, "no")
        ELSE IF Len(at) >= 2 /\ at[2] = "%" THEN Interpolate(after(2), view, depth, Append(upTo, "%"))
        ELSE IF Len(at) < 2 \/ at[2] # "(" \/ ref.end = 0 THEN Failed(upTo, "syntax")
        ELSE IF ~OContains(view, var) \/ OGet(view, var) = NoValue THEN Failed(upTo, "missing")
        ELSE LET got == Expand(OGet(view, var), view, depth, upTo)
             IN  IF got.err # "no" THEN got
                 ELSE Interpolate(after(ref.end), view, depth, got.out)

RequireSection(cfg, section) ==
    section = DefaultSection \/ OContains(cfg.sections, section)

Get(cfg, section, option) ==
    LET raw == RawLookup(cfg, section, OptionXform(option))
    IN  IF ~RequireSection(cfg, section) THEN Failed(<<>>, "section")
        ELSE IF raw = NoValue \/ cfg.raw THEN Failed(raw, "no")
        ELSE Interpolate(raw, MergedView(cfg, section), 1, <<>>)

\* No pairs at all for a section that does not exist.
Items(cfg, section) ==
    LET view == MergedView(cfg, section)
    IN  IF ~RequireSection(cfg, section) THEN <<>>
        ELSE
        [i \in DOMAIN view |->
            [k |-> view[i].k,
             v |-> IF view[i].v = NoValue THEN Failed(<<>>, "no")
                   ELSE IF cfg.raw THEN Failed(view[i].v, "no")
                   ELSE Interpolate(view[i].v, view, 1, <<>>)]]

RECURSIVE ScanSet(_)
\* validate_set, after every %% has been removed.
ScanSet(rest) ==
    LET p == FindAny(rest, {"%"})
        at == SubSeq(rest, p, Len(rest))
    IN  \/ p = 0
        \/ p # 0 /\ Len(at) >= 2 /\ at[2] = "(" /\ KeyRef(at).end # 0
           /\ ScanSet(SubSeq(at, KeyRef(at).end + 1, Len(at)))
RECURSIVE Unescaped(_)
Unescaped(s) ==
    IF Len(s) < 2 THEN s
    ELSE IF s[1] = "%" /\ s[2] = "%" THEN Unescaped(SubSeq(s, 3, Len(s)))
    ELSE <<s[1]>> \o Unescaped(Tail(s))
ValidateSet(value) == ScanSet(Unescaped(value))

-----------------------------------------------------------------------------
(* The operations.                                                         *)

ConfigInit ==
    cf \in [defaults : {<<>>}, sections : {<<>>}, raw : BOOLEAN, allowNoValue : BOOLEAN,
            touched : {{}}, ok : {TRUE}, n : {0}]

ConfigOp(new, ok) == cf.n < MaxConfigOps /\ cf' = [new EXCEPT !.ok = ok, !.n = @ + 1]

\* read_path: a file that cannot be opened or read whole changes nothing.
ReadPath(cfg, d) == IF d.kind = "text" THEN ReadText(cfg, d.text) ELSE [ok |-> FALSE, cfg |-> cfg]
ReadOne(d) == ConfigOp(ReadPath(cf, d).cfg, ReadPath(cf, d).ok)
\* read_paths passes over what cannot be opened and stops at what is wrong.
ReadPaths(d1, d2) ==
    LET r1 == ReadPath(cf, d1)
        r2 == ReadPath(r1.cfg, d2)
    IN  IF ~r1.ok /\ d1.kind # "errno" THEN ConfigOp(r1.cfg, FALSE)
        ELSE ConfigOp(r2.cfg, r2.ok \/ d2.kind = "errno")

\* read_secret_path: once the image is staged the configuration is raw for
\* good, whether or not the text then parses.
ReadSecretPath(cfg, d) ==
    IF d.kind = "text" THEN ReadText([cfg EXCEPT !.raw = TRUE], d.text)
    ELSE [ok |-> FALSE, cfg |-> cfg]
ReadSecret(d) == ConfigOp(ReadSecretPath(cf, d).cfg, ReadSecretPath(cf, d).ok)

AddSection(name) ==
    IF SectionFault(name) \/ name = DefaultSection \/ OContains(cf.sections, name)
    THEN ConfigOp(cf, FALSE)
    ELSE ConfigOp([cf EXCEPT !.sections = OInsert(@, name, <<>>)], TRUE)

SetOption(section, option, value) ==
    LET key == OptionXform(option)
        bad == KeyFault(key) \/ (~cf.raw /\ value # NoValue /\ ~ValidateSet(value))
        t == [cf EXCEPT !.touched = @ \cup {<<section, key>>}]
    IN  IF bad THEN ConfigOp(cf, FALSE)
        ELSE IF section = DefaultSection
        THEN ConfigOp([t EXCEPT !.defaults = OInsert(@, key, value)], TRUE)
        ELSE IF ~OContains(cf.sections, section) THEN ConfigOp(cf, FALSE)
        ELSE ConfigOp([t EXCEPT !.sections = OInsert(@, section,
                                    OInsert(OGet(@, section), key, value))], TRUE)

RemoveSection(name) ==
    ConfigOp([cf EXCEPT !.sections = ORemove(@, name)], OContains(cf.sections, name))

RemoveOption(section, option) ==
    LET key == OptionXform(option)
    IN  IF section = DefaultSection
        THEN ConfigOp([cf EXCEPT !.defaults = ORemove(@, key)], OContains(cf.defaults, key))
        ELSE IF ~OContains(cf.sections, section) THEN ConfigOp(cf, FALSE)
        ELSE ConfigOp([cf EXCEPT !.sections = OInsert(@, section, ORemove(OGet(@, section), key))],
                      OContains(OGet(cf.sections, section), key))

ConfigNext ==
    \/ \E d \in Docs : ReadOne(d) \/ ReadSecret(d) \/ \E e \in Docs : ReadPaths(d, e)
    \/ \E s \in SectionNames : AddSection(s) \/ RemoveSection(s)
    \/ \E s \in SectionNames, o \in OptionNames :
          RemoveOption(s, o) \/ \E v \in Values \cup {NoValue} : SetOption(s, o, v)

-----------------------------------------------------------------------------
\* A value that the text keeps as it is: no line but the first opens a
\* comment, none has white space around it, and the last is not empty.
Tidy(v) ==
    v = <<>> \/ /\ v = PyRstrip(v)
                /\ LET ls == Lines(v) IN \A i \in DOMAIN ls :
                      LET l == IF Last(ls[i]) = "\n" THEN Front(ls[i]) ELSE ls[i]
                      IN  l = PyStrip(l) /\ (i > 1 /\ l # <<>> => l[1] \notin {"#", ";"})

\* What reading back makes of one option.
SameOption(cfg, section, e, back) ==
    /\ OContains(back, e.k)
    /\ (e.v # NoValue /\ (<<section, e.k>> \notin cfg.touched \/ Tidy(e.v))) => OGet(back, e.k) = e.v
    /\ (e.v = NoValue /\ cfg.allowNoValue) => OGet(back, e.k) = NoValue

(* Whatever has been read, set and removed, the text write_string and      *)
(* to_string_with make of the store reads back with the same sections in   *)
(* the same order, the same option names in each, and the value of every   *)
(* option the text can spell, all those that were read included. No option *)
(* name is taken for a header or a comment, which is what set screens for. *)
ConfigReadsBack ==
    \A spaced \in BOOLEAN :
       LET r == ReadText([cf EXCEPT !.defaults = <<>>, !.sections = <<>>], ToText(cf, spaced))
       IN  /\ r.ok
           /\ OKeys(r.cfg.sections) = OKeys(cf.sections)
           /\ OKeys(r.cfg.defaults) = OKeys(cf.defaults)
           /\ \A i \in DOMAIN cf.sections :
                 /\ OKeys(cf.sections[i].v) = OKeys(r.cfg.sections[i].v)
                 /\ \A e \in Range(cf.sections[i].v) :
                       SameOption(cf, cf.sections[i].k, e, r.cfg.sections[i].v)
           /\ \A e \in Range(cf.defaults) : SameOption(cf, DefaultSection, e, r.cfg.defaults)

(* Interpolation ends, within a bound: the cap is looked at only where a   *)
(* piece of text is taken up, so the output passes                         *)
(* MAX_INTERPOLATION_OUTPUT by at most the literal text of one stored      *)
(* value and one whole value that follows it, whatever refers to whatever. *)
(* And items answers what get answers, option by option, an option without *)
(* a value being the empty text there and none here.                       *)
InterpBounded ==
    \A s \in SectionNames \cup {DefaultSection} \cup Range(OKeys(cf.sections)) :
       LET items == Items(cf, s)
           stored == {x.v : x \in {e \in Range(MergedView(cf, s)) : e.v # NoValue}}
           longest == Max({0} \cup {Len(v) : v \in stored})
       IN  \A i \in DOMAIN items :
              /\ cf.raw \/ Len(items[i].v.out) <= MaxOutput + 2 * longest
              /\ LET got == Get(cf, s, items[i].k)
                 IN  items[i].v = IF got.out = NoValue THEN Failed(<<>>, "no") ELSE got

(* A read that reports an error has changed nothing of the file that was   *)
(* wrong: the options are what they were, or what the earlier files of the *)
(* same read_paths made them.  Only a secret whose image was read whole    *)
(* turns interpolation off, and then for good.                             *)
ReadKept ==
    LET before == [cf EXCEPT !.ok = FALSE, !.n = @ + 1]
    IN  /\ (cf'.n > cf.n /\ ~cf'.ok) =>
             \/ cf' \in {before, [before EXCEPT !.raw = cf'.raw]}
             \/ \E d \in Docs : /\ ReadPath(cf, d).ok
                                /\ cf' = [ReadPath(cf, d).cfg EXCEPT !.ok = FALSE, !.n = @ + 1]
        /\ cf'.raw # cf.raw =>
             /\ cf'.raw
             /\ \E d \in Docs : d.kind = "text" /\ cf' = [ReadSecretPath(cf, d).cfg EXCEPT
                                     !.ok = ReadSecretPath(cf, d).ok, !.n = @ + 1]
=============================================================================
