-------------------------------- MODULE Acl --------------------------------
(***************************************************************************)
(* The access control lists of src/sync_fs/acl: the two models (NFSv4 and  *)
(* POSIX.1e), the rules each list is held to before it is written, what a  *)
(* new child inherits, the lossy conversion both ways (a port of nfsd's    *)
(* shim), and the sequence of xattr calls that reads, replaces and removes *)
(* the list of a file.                                                     *)
(*                                                                         *)
(* An ACE and an entry are records; permissions and flags are sets.        *)
(*   NFSv4 ACE    [type, flags, mask, who, id]                             *)
(*   POSIX entry  [tag, perms, id]                                         *)
(* The variable cv is a list being built ACE by ACE and converted; al is a *)
(* file, with one caller that reads and writes its list.                   *)
(***************************************************************************)
EXTENDS Integers, Sequences, FiniteSets, SequencesExt

CONSTANTS
    AceChoices,       \* the NFSv4 ACEs a list is built from
    MaxAces,          \* how many
    PosixLists,       \* the POSIX entry lists that callers hand over
    DefaultLists,     \* those they hand over as the default half
    Nfs4Lists,        \* the NFSv4 lists that callers hand over
    CreateModes,      \* creation modes: [u, g, o] sets of permissions
    Subjects,         \* who asks: [owner: BOOLEAN, uid, gids, member: BOOLEAN]
    StartLists,       \* the POSIX access lists a file may already have
    NoId, SpecialId,  \* -1, and u32::MAX, which the wire keeps for "no id"
    MaxAclCalls

VARIABLES cv, al

Rwx == {"r", "w", "x"}
AnyoneMode == {"READ_ATTRIBUTES", "READ_ACL", "SYNCHRONIZE"}
OwnerMode == {"WRITE_ATTRIBUTES", "WRITE_ACL"}
WriteMode == {"WRITE_DATA", "APPEND_DATA"}
Inheritable == {"FILE_INHERIT", "DIRECTORY_INHERIT"}
InheritMask == Inheritable \cup {"NO_PROPAGATE_INHERIT", "INHERIT_ONLY"}

Ace(type, flags, mask, who, id) ==
    [type |-> type, flags |-> flags, mask |-> mask, who |-> who, id |-> id]
Entry(tag, perms, id) == [tag |-> tag, perms |-> perms, id |-> id]

Tagged(es, tag) == SelectSeq(es, LAMBDA e : e.tag = tag)
Joined(sets) == UNION sets
PermsOf(es, tag) == Joined({es[i].perms : i \in {j \in DOMAIN es : es[j].tag = tag}})

-----------------------------------------------------------------------------
(* POSIX.1e: order, validation, inheritance.                               *)

TagOrder(tag) ==
    CASE tag = "UserObj" -> 1 [] tag = "User" -> 2 [] tag = "GroupObj" -> 4
      [] tag = "Group" -> 8 [] tag = "Mask" -> 16 [] tag = "Other" -> 32

PosixFromAces(es) ==
    SortSeq(es, LAMBDA a, b : \/ TagOrder(a.tag) < TagOrder(b.tag)
                              \/ a.tag = b.tag /\ a.id < b.id)

\* A 32-bit id, of which the largest is the sentinel.
ValidateNamedId(e) == e.tag \in {"User", "Group"} => e.id \in 0 .. SpecialId - 1

ValidateEntries(es) ==
    LET n(tag) == Len(Tagged(es, tag)) IN
    /\ \A i \in DOMAIN es : es[i].perms \subseteq Rwx /\ ValidateNamedId(es[i])
    /\ \A i \in 1..(Len(es) - 1) : TagOrder(es[i].tag) <= TagOrder(es[i + 1].tag)
    /\ n("UserObj") = 1 /\ n("GroupObj") = 1 /\ n("Other") = 1
    /\ n("User") + n("Group") > 0 => n("Mask") = 1
    /\ n("Mask") <= 1

\* An absent default list is the empty one: a present one is never empty
\* once it has been validated.
PosixValidate(access, dflt, dir) ==
    /\ ValidateEntries(access)
    /\ dflt # <<>> => dir /\ ValidateEntries(dflt)

\* On the wire an id of a special tag is the sentinel; an id that could be
\* mistaken for it is refused.
EncodeAces(es) ==
    IF \A i \in DOMAIN es : ValidateNamedId(es[i])
    THEN [ok |-> TRUE,
          data |-> [i \in DOMAIN es |->
                       [es[i] EXCEPT !.id = IF es[i].tag \in {"User", "Group"}
                                            THEN es[i].id ELSE SpecialId]]]
    ELSE [ok |-> FALSE, data |-> <<>>]

ParseAces(data) ==
    [ok |-> \A i \in DOMAIN data :
               data[i].tag \in {"User", "Group"} => data[i].id # SpecialId,
     aces |-> [i \in DOMAIN data |->
                  [data[i] EXCEPT !.id = IF data[i].tag \in {"User", "Group"}
                                         THEN data[i].id ELSE NoId]]]

EquivalentToMode(es) ==
    \A i \in DOMAIN es : es[i].tag \notin {"User", "Group", "Mask"}

SynthesizeFromMode(mode) ==
    <<Entry("UserObj", mode.u, NoId), Entry("GroupObj", mode.g, NoId),
      Entry("Other", mode.o, NoId)>>

\* The entry that speaks for the group class: the mask, when there is one.
GroupClass(es) == IF Tagged(es, "Mask") # <<>> THEN "Mask" ELSE "GroupObj"

CreateMasq(es, mode) ==
    LET cut(e) == CASE e.tag = "UserObj" -> mode.u [] e.tag = "Other" -> mode.o
                    [] e.tag = GroupClass(es) -> mode.g [] OTHER -> Rwx
        new == [i \in DOMAIN es |-> [es[i] EXCEPT !.perms = @ \cap cut(es[i])]]
    IN  [access |-> new,
         mode |-> [u |-> PermsOf(new, "UserObj"),
                   g |-> mode.g \cap PermsOf(new, GroupClass(es)),
                   o |-> PermsOf(new, "Other")]]

GenerateInheritedPosix(dflt, dir, mode) ==
    LET m == CreateMasq(dflt, mode)
    IN  [ok |-> dflt # <<>>, access |-> m.access,
         dflt |-> IF dir THEN dflt ELSE <<>>, mode |-> m.mode]

-----------------------------------------------------------------------------
(* NFSv4: order, validation, inheritance.                                  *)

BucketKey(a) == (IF "INHERITED" \in a.flags THEN 2 ELSE 0)
                  + (IF a.type = "Allow" THEN 1 ELSE 0)
\* A stable sort: within a bucket the caller's order stands.
Nfs4FromAces(aces) ==
    FlattenSeq([k \in 1..4 |-> SelectSeq(aces, LAMBDA a : BucketKey(a) = k - 1)])

NamedWho(a) == a.who = "Named" => a.id >= 0 /\ a.id <= SpecialId

Nfs4Validate(aces, dir) ==
    /\ \A i \in DOMAIN aces :
          /\ NamedWho(aces[i])
          /\ aces[i].type = "Deny" => aces[i].who = "Named"
          /\ aces[i].type \in {"Allow", "Deny"}
          /\ aces[i].flags \cap {"SUCCESSFUL_ACCESS", "FAILED_ACCESS"} = {}
          /\ (dir /\ aces[i].flags \cap {"INHERIT_ONLY", "NO_PROPAGATE_INHERIT"} # {})
                => aces[i].flags \cap Inheritable # {}
          /\ aces[i].flags \cap InheritMask # {} => dir
    /\ dir => \E i \in DOMAIN aces : aces[i].flags \cap Inheritable # {}

Nfs4ToXattr(aces) ==
    IF \A i \in DOMAIN aces : NamedWho(aces[i])
    THEN [ok |-> TRUE,
          data |-> [i \in DOMAIN aces |->
                       [type |-> aces[i].type, flags |-> aces[i].flags,
                        mask |-> aces[i].mask, iflag |-> aces[i].who # "Named",
                        who |-> IF aces[i].who = "Named" THEN aces[i].id
                                ELSE CASE aces[i].who = "Owner" -> 1
                                       [] aces[i].who = "Group" -> 2
                                       [] aces[i].who = "Everyone" -> 3]]]
    ELSE [ok |-> FALSE, data |-> <<>>]

Nfs4FromXattr(data) ==
    [ok |-> \A i \in DOMAIN data : data[i].iflag => data[i].who \in 1..3,
     aces |-> [i \in DOMAIN data |->
        IF data[i].iflag
        THEN Ace(data[i].type, data[i].flags, data[i].mask,
                 <<"Owner", "Group", "Everyone">>[data[i].who], NoId)
        ELSE Ace(data[i].type, data[i].flags, data[i].mask, "Named", data[i].who)]]

AceIsInheritable(flags, dir) ==
    IF dir /\ "DIRECTORY_INHERIT" \in flags THEN TRUE
    ELSE "FILE_INHERIT" \in flags /\ ~(dir /\ "NO_PROPAGATE_INHERIT" \in flags)

InheritedFlags(f, dir) ==
    {"INHERITED"} \cup
        (IF dir /\ "NO_PROPAGATE_INHERIT" \notin f
         THEN IF "DIRECTORY_INHERIT" \in f THEN f \ {"INHERIT_ONLY"}
              ELSE f \cup {"INHERIT_ONLY"}
         ELSE f \ InheritMask)

GenerateInheritedNfs4(aces, dir) ==
    LET took == SelectSeq(aces, LAMBDA a : AceIsInheritable(a.flags, dir))
    IN  [ok |-> took # <<>>,
         aces |-> [i \in DOMAIN took |->
                      [took[i] EXCEPT !.flags = InheritedFlags(took[i].flags, dir)]]]

-----------------------------------------------------------------------------
(* POSIX.1e to NFSv4: each class goes out already masked, with the denials *)
(* that keep a later allow from reaching it.                               *)

DenyMaskFromPosix(perm, dir) ==
    (IF "r" \in perm THEN {"READ_DATA"} ELSE {})
      \cup (IF "w" \in perm
            THEN WriteMode \cup (IF dir THEN {"DELETE_CHILD"} ELSE {}) ELSE {})
      \cup (IF "x" \in perm THEN {"EXECUTE"} ELSE {})

MaskFromPosix(perm, dir, owner) ==
    AnyoneMode \cup DenyMaskFromPosix(perm, dir)
      \cup (IF owner THEN OwnerMode ELSE {})

\* A mutant: the mask read as if there were none.
SummarizeUnmasked(es) ==
    [owner |-> PermsOf(es, "UserObj"), other |-> PermsOf(es, "Other"),
     users |-> PermsOf(es, "User"), group |-> PermsOf(es, "GroupObj"),
     groups |-> PermsOf(es, "Group"), mask |-> Rwx]
Summarize(es) ==
    LET mask == IF Tagged(es, "Mask") = <<>> THEN Rwx ELSE PermsOf(es, "Mask")
    IN  [owner |-> PermsOf(es, "UserObj"), other |-> PermsOf(es, "Other"),
         users |-> PermsOf(es, "User") \cap mask,
         group |-> PermsOf(es, "GroupObj") \cap mask,
         groups |-> PermsOf(es, "Group") \cap mask, mask |-> mask]

TranslateOne(es, dir, inheritOnly) ==
    LET pas == Summarize(es)
        ef == IF inheritOnly THEN Inheritable \cup {"INHERIT_ONLY"} ELSE {}
        gf == ef \cup {"IDENTIFIER_GROUP"}
        allow(p, flags, who, id) ==
            <<Ace("Allow", flags, MaskFromPosix(p, dir, who = "Owner"), who, id)>>
        deny(p, flags, who, id) ==
            IF p = {} THEN <<>>
            ELSE <<Ace("Deny", flags, DenyMaskFromPosix(p, dir), who, id)>>
        users == Tagged(es, "User")
        groups == Tagged(es, "Group")
        eff(e) == e.perms \cap pas.mask
    IN  deny((pas.users \cup pas.group \cup pas.groups \cup pas.other) \ pas.owner,
             ef, "Owner", NoId)
        \o allow(pas.owner, ef, "Owner", NoId)
        \o FlattenSeq([i \in DOMAIN users |->
              deny((pas.groups \cup pas.group \cup pas.other) \ eff(users[i]),
                   ef, "Named", users[i].id)
              \o allow(eff(users[i]), ef, "Named", users[i].id)])
        \o allow(pas.group, ef, "Group", NoId)
        \o FlattenSeq([i \in DOMAIN groups |->
              allow(eff(groups[i]), gf, "Named", groups[i].id)])
        \o deny(pas.other \ pas.group, ef, "Group", NoId)
        \o FlattenSeq([i \in DOMAIN groups |->
              deny(pas.other \ eff(groups[i]), gf, "Named", groups[i].id)])
        \o allow(pas.other, ef, "Everyone", NoId)

ToNfs4Lossy(access, dflt, dir) ==
    [ok |-> PosixValidate(access, dflt, dir),
     aces |-> TranslateOne(access, dir, FALSE)
                \o (IF dflt = <<>> THEN <<>> ELSE TranslateOne(dflt, dir, TRUE))]

-----------------------------------------------------------------------------
(* NFSv4 to POSIX.1e: what each entity has been allowed and denied so far. *)

LowModeFromNfs4(mask, dir) ==
    (IF "READ_DATA" \in mask THEN {"r"} ELSE {})
      \cup (IF WriteMode \cup (IF dir THEN {"DELETE_CHILD"} ELSE {}) \subseteq mask
            THEN {"w"} ELSE {})
      \cup (IF "EXECUTE" \in mask THEN {"x"} ELSE {})

AceStateEmpty == [allow |-> {}, deny |-> {}]
AllowBits(p, mask) == [p EXCEPT !.allow = @ \cup (mask \ p.deny)]
DenyBits(p, mask) == [p EXCEPT !.deny = @ \cup (mask \ p.allow)]
DenyBitsAll(list, mask) == [i \in DOMAIN list |-> [list[i] EXCEPT !.st = DenyBits(@, mask)]]
AllowBitsAll(list, mask) == [i \in DOMAIN list |-> [list[i] EXCEPT !.st = AllowBits(@, mask)]]

Ace2Tag(a) ==
    CASE a.who = "Named" -> IF "IDENTIFIER_GROUP" \in a.flags THEN "Group" ELSE "User"
      [] a.who = "Owner" -> "UserObj" [] a.who = "Group" -> "GroupObj"
      [] a.who = "Everyone" -> "Other"

AclStateNew ==
    [valid |-> {}, owner |-> AceStateEmpty, group |-> AceStateEmpty,
     other |-> AceStateEmpty, everyone |-> AceStateEmpty, users |-> <<>>, groups |-> <<>>]

\* A mutant: the seed forgotten.
AclSlotUnseeded(list, everyone, id) ==
    IF \E i \in DOMAIN list : list[i].id = id THEN list
    ELSE Append(list, [id |-> id, st |-> AceStateEmpty])
AclSlot(list, everyone, id) ==
    IF \E i \in DOMAIN list : list[i].id = id THEN list
    ELSE Append(list, [id |-> id, st |-> everyone])

ProcessAce(s, a) ==
    LET tag == Ace2Tag(a)
        allow == a.type = "Allow"
        on(p) == IF allow THEN AllowBits(p, a.mask) ELSE DenyBits(p, a.mask)
        onAll(list) == IF allow THEN AllowBitsAll(list, a.mask) ELSE DenyBitsAll(list, a.mask)
        onId(list) == [i \in DOMAIN list |->
                          IF list[i].id = a.id THEN [list[i] EXCEPT !.st = on(@)] ELSE list[i]]
        deniedTo(list) == (CHOOSE e \in Range(list) : e.id = a.id).st.deny
        \* a denial of a group reaches everyone who may be a member of it
        spread(t, denied) ==
            IF allow THEN t
            ELSE [t EXCEPT !.owner = DenyBits(@, denied), !.everyone = DenyBits(@, denied),
                           !.users = DenyBitsAll(@, denied), !.groups = DenyBitsAll(@, denied)]
        v == [s EXCEPT !.valid = @ \cup {tag}]
    IN  CASE tag = "UserObj" -> [v EXCEPT !.owner = on(@)]
          [] tag = "User" ->
                LET us == onId(AclSlot(s.users, s.everyone, a.id))
                IN  [v EXCEPT !.users = us,
                              !.owner = IF allow THEN @ ELSE DenyBits(@, deniedTo(us))]
          [] tag = "GroupObj" -> spread([v EXCEPT !.group = on(@)], on(s.group).deny)
          [] tag = "Group" ->
                LET gs == onId(AclSlot(s.groups, s.everyone, a.id))
                    t == spread([v EXCEPT !.groups = gs], deniedTo(gs))
                IN  IF allow THEN t
                    ELSE [t EXCEPT !.group = DenyBits(@, deniedTo(gs))]
          [] tag = "Other" ->
                [v EXCEPT !.owner = on(@), !.group = on(@), !.other = on(@),
                          !.everyone = on(@), !.users = onAll(@), !.groups = onAll(@)]

StateToEntries(s, dir) ==
    LET of(tag, st, id) == Entry(tag, LowModeFromNfs4(st.allow, dir), id)
        named == Range(s.users) \cup Range(s.groups)
        mask == s.group.allow \cup Joined({e.st.allow : e \in named})
    IN  <<of("UserObj", s.owner, NoId)>>
        \o [i \in DOMAIN s.users |-> of("User", s.users[i].st, s.users[i].id)]
        \o <<of("GroupObj", s.group, NoId)>>
        \o [i \in DOMAIN s.groups |-> of("Group", s.groups[i].st, s.groups[i].id)]
        \o (IF named = {} THEN <<>> ELSE <<Entry("Mask", LowModeFromNfs4(mask, dir), NoId)>>)
        \o <<of("Other", s.other, NoId)>>

ToPosixLossy(aces, dir) ==
    LET settles(a) == a.type \in {"Allow", "Deny"}
        run(wanted(_)) == FoldLeft(LAMBDA s, a : IF settles(a) /\ wanted(a) THEN ProcessAce(s, a) ELSE s,
                                   AclStateNew, aces)
        eff == run(LAMBDA a : "INHERIT_ONLY" \notin a.flags)
        inh0 == run(LAMBDA a : dir /\ a.flags \cap Inheritable # {})
        inh == [inh0 EXCEPT !.owner = IF "UserObj" \in inh0.valid THEN @ ELSE eff.owner,
                            !.group = IF "GroupObj" \in inh0.valid THEN @ ELSE eff.group,
                            !.other = IF "Other" \in inh0.valid THEN @ ELSE eff.other]
        access == PosixFromAces(StateToEntries(eff, dir))
        dflt == IF inh0.valid = {} THEN <<>> ELSE PosixFromAces(StateToEntries(inh, dir))
    IN  [ok |-> PosixValidate(access, dflt, dir), access |-> access, dflt |-> dflt]

-----------------------------------------------------------------------------
(* The reference: what each model grants a subject. The kernel's POSIX     *)
(* check picks one class; the NFSv4 one accumulates over the ACEs.         *)

PosixGrants(es, s) ==
    LET mask == IF Tagged(es, "Mask") = <<>> THEN Rwx ELSE PermsOf(es, "Mask")
        users == {e \in Range(es) : e.tag = "User" /\ e.id = s.uid}
        groups == {e \in Range(es) : \/ e.tag = "GroupObj" /\ s.member
                                     \/ e.tag = "Group" /\ e.id \in s.gids}
    IN  IF s.owner THEN PermsOf(es, "UserObj")
        ELSE IF users # {} THEN Joined({e.perms : e \in users}) \cap mask
        ELSE IF groups # {} THEN Joined({e.perms : e \in groups}) \cap mask
        ELSE PermsOf(es, "Other")

Nfs4Applies(a, s) ==
    CASE a.who = "Everyone" -> TRUE [] a.who = "Owner" -> s.owner
      [] a.who = "Group" -> s.member
      [] a.who = "Named" -> IF "IDENTIFIER_GROUP" \in a.flags THEN a.id \in s.gids
                            ELSE a.id = s.uid

Nfs4Grants(aces, dir, s) ==
    LET seen == FoldLeft(
            LAMBDA p, a :
                IF "INHERIT_ONLY" \in a.flags \/ ~Nfs4Applies(a, s) THEN p
                ELSE IF a.type = "Allow" THEN AllowBits(p, a.mask)
                ELSE IF a.type = "Deny" THEN DenyBits(p, a.mask) ELSE p,
            AceStateEmpty, aces)
    IN  LowModeFromNfs4(seen.allow, dir)

-----------------------------------------------------------------------------
(* A list built ACE by ACE.                                                *)

CvInit == cv \in [aces : {<<>>}, dir : BOOLEAN]
AddAce(a) == /\ Len(cv.aces) < MaxAces
             /\ cv' = [cv EXCEPT !.aces = Append(@, a)]

-----------------------------------------------------------------------------
(* The file: the mode, and the xattrs its filesystem keeps. A failure of   *)
(* any one call is a choice.                                               *)

NoArg == [kind |-> "none", access |-> <<>>, dflt |-> <<>>, aces |-> <<>>]

\* What the kernel keeps when it is handed an access list: the mode always
\* follows the list, and a list the mode can spell is not kept at all.
KernelSetAccess(f, data) ==
    [f EXCEPT !.access = IF EquivalentToMode(data) THEN <<>> ELSE data,
              !.mode = [u |-> PermsOf(data, "UserObj"), g |-> PermsOf(data, GroupClass(data)),
                        o |-> PermsOf(data, "Other")]]

\* The file as the caller finds it: with the mode alone, or with lists of the
\* kind its filesystem keeps, a default one on a directory only.
AlInit ==
    \E fs \in {"nfs4", "posix", "neither"}, dir \in BOOLEAN, m \in CreateModes :
        LET bare == [fs |-> fs, dir |-> dir, mode |-> m, access |-> <<>>, dflt |-> <<>>,
                     aces |-> <<>>, pc |-> "idle", arg |-> NoArg, prior |-> <<>>,
                     was |-> <<>>, err |-> "no", n |-> 0]
            Posix(lists) == {EncodeAces(x).data : x \in {y \in lists : ValidateEntries(y)}}
            posix == IF fs = "posix"
                     THEN {KernelSetAccess(bare, a) : a \in Posix(StartLists)} ELSE {}
            dflts == IF fs = "posix" /\ dir THEN Posix(DefaultLists) ELSE {}
            aces  == IF fs = "nfs4"
                     THEN {Nfs4ToXattr(a).data : a \in {y \in Nfs4Lists : Nfs4Validate(y, dir)}}
                     ELSE {}
        IN  \E f \in {bare} \cup posix, d \in {<<>>} \cup dflts, n \in {<<>>} \cup aces :
                al = [f EXCEPT !.dflt = d, !.aces = n]

FGetAclPosix(f) ==
    [kind |-> "posix", aces |-> <<>>, dflt |-> ParseAces(f.dflt).aces,
     access |-> IF f.access = <<>> THEN SynthesizeFromMode(f.mode) ELSE ParseAces(f.access).aces]
FGetAcl(f) ==
    IF f.fs = "nfs4"
    THEN [kind |-> "nfs4", access |-> <<>>, dflt |-> <<>>, aces |-> Nfs4FromXattr(f.aces).aces]
    ELSE FGetAclPosix(f)

ValidateAcl(arg, dir) ==
    IF arg.kind = "nfs4" THEN Nfs4Validate(arg.aces, dir)
    ELSE PosixValidate(arg.access, arg.dflt, dir)

AclDone(f, err) == [f EXCEPT !.pc = "done", !.err = err]

\* fsetacl, up to its first change: None removes, a list is validated
\* against the type of its target.  fsetacl_nfs4 and fsetacl_posix are handed
\* the bytes and decode them first; "empty" is no bytes at all, which both
\* refuse, the kernel's word for removing the list.
FSetAcl(arg) ==
    /\ al.pc = "idle" /\ al.n < MaxAclCalls
    /\ al' = LET f == [al EXCEPT !.arg = arg, !.n = @ + 1, !.err = "no", !.prior = <<>>,
                                 !.was = <<al.mode, al.access, al.dflt, al.aces>>]
             IN  CASE arg.kind = "none" -> [f EXCEPT !.pc = "remove"]
                   [] arg.kind = "empty" -> AclDone(f, "invalid")
                   [] arg.kind \in {"nfs4", "posix"} /\ ~ValidateAcl(arg, al.dir) -> AclDone(f, "invalid")
                   [] arg.kind = "nfs4" /\ ValidateAcl(arg, al.dir) -> [f EXCEPT !.pc = "nfs4"]
                   [] OTHER -> [f EXCEPT !.pc = "prior"]

WriteNfs4(fails) ==
    /\ al.pc = "nfs4"
    /\ al' = IF fails \/ al.fs # "nfs4" THEN AclDone(al, "set")
             ELSE AclDone([al EXCEPT !.aces = Nfs4ToXattr(al.arg.aces).data], "no")

ReadPrior(fails) ==
    /\ al.pc = "prior"
    /\ al' = IF fails THEN AclDone(al, "prior")
             ELSE [al EXCEPT !.pc = "default", !.prior = al.dflt]

WriteDefault(fails) ==
    /\ al.pc = "default"
    /\ al' = IF fails \/ al.fs # "posix" THEN AclDone(al, "default")
             ELSE [al EXCEPT !.pc = "access", !.dflt = EncodeAces(al.arg.dflt).data]

WriteAccess(fails) ==
    /\ al.pc = "access"
    /\ al' = IF fails THEN [al EXCEPT !.pc = "restore"]
             ELSE AclDone(KernelSetAccess(al, EncodeAces(al.arg.access).data), "no")

\* A mutant: the failed write leaves the new default behind.
RestoreDefaultSkipped(fails) ==
    /\ al.pc = "restore" /\ fails \in BOOLEAN
    /\ al' = AclDone(al, "access")
\* A mutant: it is removed, whatever was there before.
RestoreDefaultRemoves(fails) ==
    /\ al.pc = "restore"
    /\ al' = IF fails THEN AclDone(al, "restore")
             ELSE AclDone([al EXCEPT !.dflt = <<>>], "access")
RestoreDefault(fails) ==
    /\ al.pc = "restore"
    /\ al' = IF fails THEN AclDone(al, "restore")
             ELSE AclDone([al EXCEPT !.dflt = al.prior], "access")

FRemoveAcl(fails) ==
    /\ al.pc = "remove"
    /\ al' = CASE al.fs = "neither" -> AclDone(al, "no")
               [] al.fs # "neither" /\ fails -> AclDone(al, "remove")
               [] al.fs = "nfs4" /\ ~fails -> AclDone([al EXCEPT !.aces = <<>>], "no")
               [] OTHER -> [al EXCEPT !.access = <<>>, !.pc = "remove_default"]

FRemoveDefault(fails) ==
    /\ al.pc = "remove_default"
    /\ al' = IF fails THEN AclDone(al, "remove") ELSE AclDone([al EXCEPT !.dflt = <<>>], "no")

AclReturn == al.pc = "done" /\ al' = [al EXCEPT !.pc = "idle", !.arg = NoArg, !.was = <<>>]

AclArgs ==
    {NoArg, [NoArg EXCEPT !.kind = "empty"]}
      \cup {[NoArg EXCEPT !.kind = "posix", !.access = a, !.dflt = d] :
               a \in PosixLists, d \in DefaultLists \cup {<<>>}}
      \cup {[NoArg EXCEPT !.kind = "nfs4", !.aces = Nfs4FromAces(a)] : a \in Nfs4Lists}

CvNext == \E a \in AceChoices : AddAce(a)

AlNext ==
    \/ al.pc = "idle" /\ \E arg \in AclArgs : FSetAcl(arg)
    \/ \E fails \in BOOLEAN :
          \/ WriteNfs4(fails) \/ ReadPrior(fails) \/ WriteDefault(fails)
          \/ WriteAccess(fails) \/ RestoreDefault(fails)
          \/ FRemoveAcl(fails) \/ FRemoveDefault(fails)
    \/ AclReturn

-----------------------------------------------------------------------------
(* Neither a conversion to POSIX nor an inheritance grants a subject what  *)
(* the source did not: "rounding up would grant what the source did not".  *)
(* The converted list of a file or directory is within the NFSv4 rights of *)
(* everyone who may ask it of that object, and what a child is created     *)
(* with is within its creation mode.  Nothing is said of deeper            *)
(* descendants: a default list is handed on to all of them, so             *)
(* NO_PROPAGATE_INHERIT is lost in the conversion and the result grants at *)
(* depth 2 what the source stopped at depth 1, as lossy.rs says.           *)
NeverWider ==
    \A p \in {ToPosixLossy(cv.aces, cv.dir)} :
    /\ p.ok => \A s \in Subjects :
                  PosixGrants(p.access, s) \subseteq Nfs4Grants(cv.aces, cv.dir, s)
    /\ (p.ok /\ p.dflt # <<>>) => \A m \in CreateModes :
          \A c \in {GenerateInheritedPosix(p.dflt, cv.dir, m)} :
              /\ c.mode.u \subseteq m.u /\ c.mode.g \subseteq m.g /\ c.mode.o \subseteq m.o
              /\ \A s \in Subjects :
                    PosixGrants(c.access, s) \subseteq
                       IF s.owner THEN c.mode.u ELSE c.mode.g \cup c.mode.o
    /\ LET c == GenerateInheritedNfs4(cv.aces, FALSE)
       IN  (c.ok /\ Nfs4Validate(cv.aces, TRUE)) => Nfs4Validate(c.aces, FALSE)

(* The conversion of a POSIX list to NFSv4 grants every subject what the   *)
(* POSIX check would, permission by permission, and so does converting it  *)
(* back: only the stored mask is lost.                                     *)
RightsKept ==
    al.pc = "prior" =>
       \A n \in {ToNfs4Lossy(al.arg.access, al.arg.dflt, al.dir)} :
       \A back \in {ToPosixLossy(n.aces, al.dir)} :
           /\ n.ok /\ back.ok
           /\ \A s \in Subjects :
                 /\ Nfs4Grants(n.aces, al.dir, s) = PosixGrants(al.arg.access, s)
                 /\ PosixGrants(back.access, s) = PosixGrants(al.arg.access, s)
                 /\ al.arg.dflt # <<>> =>
                       PosixGrants(back.dflt, s) = PosixGrants(al.arg.dflt, s)

(* fsetacl of a list either puts it in place, so that fgetacl answers that *)
(* list, or reports an error with the access half and the mode unchanged;  *)
(* the default half is back as well, unless putting it back failed too.    *)
AclWriteExact ==
    (al.pc = "done" /\ al.arg.kind # "none") =>
       IF al.err = "no" THEN FGetAcl(al) = al.arg
       ELSE /\ <<al.mode, al.access, al.aces>> = <<al.was[1], al.was[2], al.was[4]>>
            /\ al.err # "restore" => al.dflt = al.was[3]
=============================================================================
