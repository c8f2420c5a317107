-------------------------- MODULE ObjectNamespace --------------------------
(***************************************************************************)
(* Names of objects: the typed record format (typed_object_format.rs), the *)
(* relationships between objects (object_relationships.rs), their revision *)
(* history (revision_history.rs), locators resolved through name bindings  *)
(* under capabilities (object_locator.rs), the workspace session record    *)
(* (workspace_objects.rs) and the object browser (object_browser.rs).      *)
(*                                                                         *)
(* The structures are independent until a resolution reads them together,  *)
(* so each behaviour exercises one part: "names" adds relationships under  *)
(* every combination of binding records, "history" writes revisions,       *)
(* "syntax" types a locator character by character.                        *)
(***************************************************************************)
EXTENDS Naturals, Sequences, FiniteSets, SequencesExt

CONSTANTS
    ObjectCapacity,        \* OBJECT_CAPACITY of the relationship store
    RelationshipCapacity,  \* RELATIONSHIP_CAPACITY
    CurrentCapacity,       \* CURRENT_CAPACITY of the revision history
    RevisionCapacity,      \* REVISION_CAPACITY
    BrowserCapacity,       \* MAX_BROWSER_OBJECTS
    MaxSegments,           \* MAX_LOCATOR_SEGMENTS
    MaxSegmentBytes,       \* MAX_LOCATOR_SEGMENT_BYTES
    Links,                 \* relationships the "names" part may add
    Bindings,              \* the revision tables the "names" part starts from
    Written,               \* records the "history" part writes
    MaxTime,               \* bound: timestamps of the "history" part
    Alphabet,              \* character classes of the "syntax" part
    MaxText                \* bound: length of a typed locator

ObjectNamespaceAssumption ==
    /\ {ObjectCapacity, RelationshipCapacity, CurrentCapacity, RevisionCapacity,
        BrowserCapacity, MaxSegments, MaxSegmentBytes, MaxTime, MaxText} \subseteq Nat \ {0}

VARIABLES part, rel, hist, browser, text

vars == <<part, rel, hist, browser, text>>

---------------------------------------------------------------------------
(* Typed object records *)

MaxFields == 4

(* TypedObjectRecord::new: the fields hold the locator segment, or a       *)
(* window layout                                                           *)
Record(id, kind, version) == [id |-> id, kind |-> kind, version |-> version, fields |-> <<>>]

Field(id, value) == [id |-> id, version |-> 1, value |-> value]

push_field(r, f) ==
    IF Len(r.fields) = MaxFields THEN r ELSE [r EXCEPT !.fields = Append(@, f)]

kind_codes ==
    [ApplicationLauncherWindow |-> 1, BootIdentitySurface |-> 2, ServiceMonitorWindow |-> 3,
     PythonConsoleWindow |-> 4, SettingsPanelWindow |-> 5, ButtonWidget |-> 6,
     TextFieldWidget |-> 7, WorkspaceSession |-> 8, ObjectBrowserWindow |-> 9, Note |-> 10,
     NameBinding |-> 11, Task |-> 20, TaskProposal |-> 21, TaskEvent |-> 22,
     TaskRelation |-> 23, RelevanceAssertion |-> 24, CapabilityRequest |-> 25,
     Package |-> 30, SchemaDefinition |-> 31, PackageDefinedObject |-> 32]

NoRecord == Record(0, "None", 0)

(* encode: four slots, those past the field count zero *)
encode(r) ==
    [magic |-> "PYOB", format |-> 1, length |-> 120, id |-> r.id,
     kind |-> kind_codes[r.kind], version |-> r.version, count |-> Len(r.fields),
     slots |-> [i \in 1 .. MaxFields |-> IF i <= Len(r.fields) THEN r.fields[i] ELSE Field(0, <<>>)]]

(* decode: the record, or NoRecord *)
decode(b) ==
    LET kinds == {k \in DOMAIN kind_codes : kind_codes[k] = b.kind}
    IN IF b.magic # "PYOB" \/ b.format # 1 \/ b.length # 120 \/ b.count > MaxFields \/ kinds = {}
       THEN NoRecord
       ELSE FoldLeft(push_field, Record(b.id, CHOOSE k \in kinds : TRUE, b.version),
                     SubSeq(b.slots, 1, b.count))

---------------------------------------------------------------------------
(* Relationships *)

NoStore == [objects |-> <<>>, links |-> <<>>]

Link(source, kind, target) == [source |-> source, kind |-> kind, target |-> target]

(* insert_object: refused for a known object and in a full table *)
insert_object(store, id, capacity) ==
    IF id \in ToSet(store.objects) \/ Len(store.objects) = capacity THEN store
    ELSE [store EXCEPT !.objects = Append(@, id)]

(* add_relationship: between known objects, once *)
add_relationship(store, link, capacity) ==
    IF \/ ~ ({link.source, link.target} \subseteq ToSet(store.objects))
       \/ link \in ToSet(store.links)
       \/ Len(store.links) = capacity
    THEN store
    ELSE [store EXCEPT !.links = Append(@, link)]

(* query_first: the target of the first such relationship, 0 for none *)
query_first(store, source, kind) ==
    LET i == SelectInSeq(store.links, LAMBDA l : l.source = source /\ l.kind = kind)
    IN IF i = 0 THEN 0 ELSE store.links[i].target

---------------------------------------------------------------------------
(* Revision history: the current revision of each object and the earlier   *)
(* ones, in the order they were replaced                                   *)

NoHistory == [current |-> <<>>, prior |-> <<>>]

Known(h) == {h.current[i].record.id : i \in 1 .. Len(h.current)}

current_index(h, id) == SelectInSeq(h.current, LAMBDA c : c.record.id = id)

Revision(n, at, r) == [revision |-> n, at |-> at, record |-> r]

create_object(h, r, at, capacity) ==
    IF r.id \in Known(h) \/ Len(h.current) = capacity THEN h
    ELSE [h EXCEPT !.current = Append(@, Revision(1, at, r))]

(* update_object: an unknown object, a timestamp that does not advance and *)
(* a full revision table are refused before anything is written            *)
update_object(h, r, at, capacity) ==
    LET i == current_index(h, r.id)
    IN IF i = 0 THEN h
       ELSE IF at <= h.current[i].at \/ Len(h.prior) = capacity THEN h
       ELSE [current |-> [h.current EXCEPT ![i] = Revision(@.revision + 1, at, r)],
             prior |-> Append(h.prior, h.current[i])]

NoRevision == Revision(0, 0, NoRecord)

current_revision(h, id) ==
    LET i == current_index(h, id) IN IF i = 0 THEN NoRevision ELSE h.current[i]

prior_revision(h, id, n) ==
    LET i == SelectInSeq(h.prior, LAMBDA p : p.record.id = id /\ p.revision = n)
    IN IF i = 0 THEN NoRevision ELSE h.prior[i]

revision_count(h, id) == Len(SelectSeq(h.prior, LAMBDA p : p.record.id = id))

(* restore_from_records: refused for a twice-current object and for an     *)
(* earlier revision of an unknown one; NoHistory then                      *)
restore_from_records(current, prior) ==
    LET h == [current |-> current, prior |-> prior]
    IN IF /\ Cardinality(Known(h)) = Len(current)
          /\ \A i \in 1 .. Len(prior) : prior[i].record.id \in Known(h)
       THEN h ELSE NoHistory

---------------------------------------------------------------------------
(* Locator syntax.  A character is its class: "l" a letter, "d" a digit,   *)
(* "_" or "-", and "/", "\", ":", ".", "*" (wildcards), "$" (shell         *)
(* expansions) and "?" (anything else)                                     *)

LocatorBytes == {"l", "d"}

(* LocatorSegment::parse: "Ok" or the error *)
parse_segment(s) ==
    LET first == SelectInSeq(s, LAMBDA c : c \notin LocatorBytes)
    IN CASE s = <<>> -> "EmptySegment"
         [] s \in {<<".">>, <<".", ".">>} -> "NavigationSegment"
         [] s # <<>> /\ s \notin {<<".">>, <<".", ".">>} ->
              IF Len(s) > MaxSegmentBytes THEN "SegmentTooLong"
              ELSE IF first = 0 THEN "Ok"
              ELSE IF s[first] = "*" THEN "Wildcard"
              ELSE IF s[first] = "$" THEN "ShellExpansion"
              ELSE "InvalidCharacter"

(* contains_uri_scheme: a colon before the first slash, after a letter *)
contains_uri_scheme(t) ==
    LET i == SelectInSeq(t, LAMBDA c : c \in {"/", ":"})
    IN i > 1 /\ t[i] = ":" /\ t[1] = "l"

Syntax(e) == [error |-> e, segments |-> <<>>]

(* The end of a segment whose parse gave e *)
Closed(p, e) ==
    IF p.open = <<>> THEN [p EXCEPT !.error = "EmptySegment"]
    ELSE IF Len(p.segments) = MaxSegments THEN [p EXCEPT !.error = "TooManySegments"]
    ELSE IF e # "Ok" THEN [p EXCEPT !.error = e]
    ELSE [p EXCEPT !.segments = Append(@, p.open), !.open = <<>>]

(* One character of parse_locator's scan; "/" past the end closes the last *)
(* segment                                                                 *)
scan(p, c) ==
    CASE p.error # "Ok" -> p
      [] p.error = "Ok" /\ c = "/" -> Closed(p, parse_segment(p.open))
      [] p.error = "Ok" /\ c = "\\" -> [p EXCEPT !.error = "HostAbsolute"]
      [] OTHER -> [p EXCEPT !.open = Append(@, c)]

Scanned(p) == [error |-> p.error, segments |-> IF p.error = "Ok" THEN p.segments ELSE <<>>]

parse_locator(t) ==
    IF t = <<>> THEN Syntax("Empty")
    ELSE IF t[1] \in {"/", "\\"} THEN Syntax("HostAbsolute")
    ELSE IF Len(t) >= 2 /\ t[1] = "l" /\ t[2] = ":" THEN Syntax("DrivePrefix")
    ELSE IF contains_uri_scheme(t) THEN Syntax("UriScheme")
    ELSE Scanned(FoldLeft(scan, [error |-> "Ok", segments |-> <<>>, open |-> <<>>], Append(t, "/")))

---------------------------------------------------------------------------
(* Resolution *)

SegmentField == "segment"

(* binding_record_matches_segment: "Yes", "No" or "Malformed" *)
binding_record_matches_segment(r, segment) ==
    LET i == SelectInSeq(r.fields, LAMBDA f : f.id = SegmentField)
    IN IF i = 0 THEN "Malformed"
       ELSE IF parse_segment(r.fields[i].value) # "Ok" THEN "Malformed"
       ELSE IF r.fields[i].value = segment THEN "Yes" ELSE "No"

(* Mutant: the first target wins *)
first_binding_target(links, binding) ==
    LET t == SelectSeq(links, LAMBDA l : l.source = binding /\ l.kind = "BindingTarget")
    IN IF t # <<>> THEN <<t[1]>> ELSE <<>>

(* find_binding_target: the one BindingTarget of a binding, or none *)
find_binding_target(links, binding) ==
    LET t == SelectSeq(links, LAMBDA l : l.source = binding /\ l.kind = "BindingTarget")
    IN IF Len(t) = 1 THEN t ELSE <<>>

(* One binding of the namespace, in record order: its current record, how  *)
(* that matches the segment, and its target                                *)
Judged(acc, l, r, match, target) ==
    IF r = NoRevision THEN [acc EXCEPT !.error = "StaleBinding"]
    ELSE IF r.record.kind # "NameBinding" THEN [acc EXCEPT !.error = "MalformedBinding"]
    ELSE IF match = "Malformed" THEN [acc EXCEPT !.error = "MalformedBinding"]
    ELSE IF match = "No" THEN acc
    ELSE IF target = <<>> THEN [acc EXCEPT !.error = "MalformedBinding"]
    ELSE IF acc.step # <<>> THEN [acc EXCEPT !.error = "NameCollision"]
    ELSE [acc EXCEPT !.step = <<l>> \o target]

examine(links, h, segment, acc, l) ==
    LET r == current_revision(h, l.target)
    IN Judged(acc, l, r, binding_record_matches_segment(r.record, segment),
              find_binding_target(links, l.target))

Settled(found) ==
    IF found.error = "Ok" /\ found.step = <<>> THEN [found EXCEPT !.error = "MissingSegment"]
    ELSE found

find_binding(links, h, namespace, segment) ==
    Settled(FoldLeft(LAMBDA acc, l :
                IF acc.error # "Ok" \/ l.source # namespace \/ l.kind # "NameBinding" THEN acc
                ELSE examine(links, h, segment, acc, l),
                [error |-> "Ok", step |-> <<>>], links))

(* validate: a capability is its resource and rights; resource 0 stands    *)
(* for a handle that names no entry                                        *)
validate(c, resource, rights) ==
    IF c.resource = 0 THEN "InvalidHandle"
    ELSE IF c.resource # resource THEN "WrongResource"
    ELSE IF rights \subseteq c.rights THEN "Ok" ELSE "MissingRights"

NoAuthority == [resource |-> 0, rights |-> {"None"}]

(* ObjectLocatorRequest: traversal authorities by segment, NoAuthority     *)
(* where none was set                                                      *)
Request(root, traversal, final, rights) ==
    [root |-> root, traversal |-> traversal, final |-> final, rights |-> rights]

(* One segment of resolve_locator *)
Authority(req, i) == IF i <= Len(req.traversal) THEN req.traversal[i] ELSE NoAuthority

Walked(acc, c, e, b) ==
    IF acc.error # "Ok" THEN acc
    ELSE IF c = NoAuthority THEN [acc EXCEPT !.error = "MissingTraversalAuthority"]
    ELSE IF e # "Ok" THEN [acc EXCEPT !.error = "Traversal" \o e]
    ELSE IF b.error # "Ok" THEN [acc EXCEPT !.error = b.error]
    ELSE [acc EXCEPT !.at = b.step[2].target, !.path = @ \o b.step]

step_into(links, h, req, acc, segment) ==
    LET c == Authority(req, Len(acc.path) \div 2 + 1)
    IN Walked(acc, c, validate(c, acc.at, {"READ"}), find_binding(links, h, acc.at, segment))

(* The object at the end of the walk: its revision r, and what the final   *)
(* authority answers                                                       *)
Final(walk, r, e) ==
    [error |-> IF walk.error # "Ok" THEN walk.error
               ELSE IF r = NoRevision THEN "StaleBinding"
               ELSE IF e # "Ok" THEN "Final" \o e ELSE "Ok",
     at |-> walk.at, path |-> walk.path, revision |-> r.revision]

Arrived(h, req, walk) ==
    Final(walk, current_revision(h, walk.at), validate(req.final, walk.at, req.rights))

Parsed(links, h, req, p) ==
    IF p.error # "Ok" THEN [error |-> "Syntax" \o p.error, at |-> 0, path |-> <<>>, revision |-> 0]
    ELSE Arrived(h, req,
           FoldLeft(LAMBDA acc, s : step_into(links, h, req, acc, s),
                    [error |-> "Ok", at |-> req.root, path |-> <<>>], p.segments))

resolve_locator(links, h, req, t) == Parsed(links, h, req, parse_locator(t))

---------------------------------------------------------------------------
(* Workspace session and browser *)

(* register_first_party_apps: window, position, size and z order *)
first_party_apps ==
    << [object |-> 29185, x |-> 0, y |-> 0, width |-> 2, height |-> 2, z |-> 0],
       [object |-> 29186, x |-> 2, y |-> 0, width |-> 2, height |-> 2, z |-> 1],
       [object |-> 29187, x |-> 0, y |-> 2, width |-> 4, height |-> 2, z |-> 2],
       [object |-> 29188, x |-> 4, y |-> 2, width |-> 4, height |-> 2, z |-> 3] >>

(* WorkspaceWindowLayout: 16 bytes, the widths as in the layout *)
encode_layout(a) ==
    << a.object % 256, a.object \div 256, a.x % 256, a.x \div 256, a.y % 256, a.y \div 256,
       a.width, a.height, a.z, 0 >>

decode_layout(v) ==
    [object |-> v[1] + 256 * v[2], x |-> v[3] + 256 * v[4], y |-> v[5] + 256 * v[6],
     width |-> v[7], height |-> v[8], z |-> v[9]]

FitsLayout(a) == a.x < 65536 /\ a.y < 65536 /\ a.width < 256 /\ a.height < 256

SessionId == 29697

(* workspace_session_record: one layout field per application, in order *)
workspace_session_record(apps) ==
    FoldLeft(LAMBDA r, a : push_field(r, Field("layout", encode_layout(a))),
             Record(SessionId, "WorkspaceSession", 1), SelectSeq(apps, FitsLayout))

(* layout_for: the first layout that names the object, of a record whose   *)
(* reserved bytes are zero up to there                                     *)
layout_for(r, id) ==
    LET i == SelectInSeq(r.fields, LAMBDA f : f.value[10] # 0 \/ decode_layout(f.value).object = id)
    IN IF r.kind # "WorkspaceSession" \/ i = 0 THEN <<>>
       ELSE IF r.fields[i].value[10] # 0 THEN <<>>
       ELSE <<decode_layout(r.fields[i].value)>>

(* ObjectBrowserStore::add_object *)
add_object(b, r, capacity) ==
    IF r.id \in {b[i].id : i \in 1 .. Len(b)} \/ Len(b) = capacity THEN b ELSE Append(b, r)

(* ObjectBrowserStore::inspect: the kind, the target of one relationship   *)
(* and the number of earlier revisions; nothing for an unlisted object     *)
inspect(b, store, h, id, kind) ==
    LET i == SelectInSeq(b, LAMBDA r : r.id = id)
    IN IF i = 0 THEN <<>>
       ELSE << [kind |-> b[i].kind, target |-> query_first(store, id, kind),
                prior |-> revision_count(h, id)] >>

---------------------------------------------------------------------------
(* The boot-time self tests *)

Root == 1
Bound == 2
Target == 3
Child == 4
Bound2 == 5
Target2 == 6
Elsewhere == 7  \* ALTERNATE_ROOT_OBJECT_ID

locator_binding_record(id, segment) ==
    push_field(Record(id, "NameBinding", 1), Field(SegmentField, segment))

Inserted(ids, links) ==
    FoldLeft(LAMBDA s, l : add_relationship(s, l, 8),
             FoldLeft(LAMBDA s, o : insert_object(s, o, 8), NoStore, ids), links)

CreatedInOrder(records) ==
    FoldLeft(LAMBDA h, r : create_object(h, r, Len(h.current) + 1, 8), NoHistory, records)

Notes == <<"l", "d">>
Today == <<"l">>
Reads(o) == [resource |-> o, rights |-> {"READ"}]

BasicLinks == <<Link(Root, "NameBinding", Bound), Link(Bound, "BindingTarget", Target)>>

RootRecord == Record(Root, "WorkspaceSession", 1)
NoteRecord(o) == Record(o, "Note", 1)
NotesBinding(o) == locator_binding_record(o, Notes)

BasicHistory == CreatedInOrder(<<RootRecord, NotesBinding(Bound), NoteRecord(Target)>>)

Asked(store, h, traversal, final, t) ==
    resolve_locator(store.links, h, Request(Root, traversal, final, {"READ"}), t)

(* object_locator::run_self_test *)
run_self_test ==
    LET store == Inserted(<<Root, Bound, Target>>, BasicLinks)
        ok == Asked(store, BasicHistory, <<Reads(Root)>>, Reads(Target), Notes)
    IN /\ ok.error = "Ok" /\ ok.at = Target /\ ok.revision = 1 /\ Len(ok.path) = 2
       /\ parse_locator(Notes \o <<"/", ".", ".", "/", "l">>).error = "NavigationSegment"
       /\ Asked(store, BasicHistory, <<Reads(Target)>>, Reads(Target), Notes).error
             = "TraversalWrongResource"
       /\ Asked(store, BasicHistory, <<Reads(Root)>>, Reads(Root), Notes).error
             = "FinalWrongResource"

(* object_locator::run_adversarial_self_test: bindings without a current   *)
(* revision and names nobody carries                                       *)
adversarial_stale_and_missing ==
    LET store == Inserted(<<Root, Bound, Target>>, BasicLinks)
        stale == CreatedInOrder(<<RootRecord, NoteRecord(Target)>>)
    IN /\ parse_locator(Notes \o <<"/", "/", "l">>).error = "EmptySegment"
       /\ Asked(store, stale, <<Reads(Root)>>, Reads(Target), Notes).error = "StaleBinding"
       /\ Asked(Inserted(<<Root>>, <<>>), CreatedInOrder(<<RootRecord>>), <<Reads(Root)>>,
                Reads(Target), <<"d">>).error = "MissingSegment"

(* ... authority missing on the way and at the end *)
adversarial_authority ==
    LET store == Inserted(<<Root, Bound, Target>>, BasicLinks)
        multi == Inserted(<<Root, Bound, Child, Bound2, Target2>>,
                    <<Link(Root, "NameBinding", Bound), Link(Bound, "BindingTarget", Child),
                      Link(Child, "NameBinding", Bound2), Link(Bound2, "BindingTarget", Target2)>>)
        multiHistory == CreatedInOrder(<<RootRecord, NotesBinding(Bound),
                            Record(Child, "WorkspaceSession", 1),
                            locator_binding_record(Bound2, Today), NoteRecord(Target2)>>)
        stale == CreatedInOrder(<<RootRecord, NoteRecord(Target)>>)
    IN /\ Asked(multi, multiHistory, <<Reads(Root)>>, Reads(Target2), Notes \o <<"/">> \o Today).error
             = "MissingTraversalAuthority"
       /\ Asked(store, stale, <<Reads(Root)>>, NoAuthority, Notes).error = "StaleBinding"
       /\ Asked(store, BasicHistory, <<Reads(Root)>>, NoAuthority, Notes).error
             = "FinalInvalidHandle"

(* ... two bindings of one name, other relationships, another root *)
adversarial_confusion ==
    LET twice == Inserted(<<Root, Bound, Bound2, Target, Target2>>, BasicLinks \o
                    <<Link(Root, "NameBinding", Bound2), Link(Bound2, "BindingTarget", Target2)>>)
        twiceHistory == CreatedInOrder(<<RootRecord, NotesBinding(Bound), NotesBinding(Bound2)>>)
        member == Inserted(<<Root, Target>>, <<Link(Root, "BelongsTo", Target)>>)
        other == Inserted(<<Root, Elsewhere, Bound, Target>>, BasicLinks)
    IN /\ Asked(twice, twiceHistory, <<Reads(Root)>>, Reads(Target), Notes).error = "NameCollision"
       /\ Asked(member, BasicHistory, <<Reads(Root)>>, Reads(Target), Notes).error = "MissingSegment"
       /\ resolve_locator(other.links, BasicHistory,
             Request(Elsewhere, <<Reads(Elsewhere)>>, Reads(Target), {"READ"}), Notes).error
             = "MissingSegment"

format_self_test ==
    LET record == push_field(push_field(Record(2, "ServiceMonitorWindow", 1),
                    Field("f1", Notes)), Field("f2", Today))
    IN decode(encode(record)) = record

relationship_self_test ==
    LET s == Inserted(<<2, 3, 4>>, <<Link(2, "Blocks", 4), Link(3, "DependsOn", 2),
                                     Link(4, "CreatedBy", 3)>>)
    IN query_first(s, 2, "Blocks") = 4 /\ Len(s.links) = 3

revision_self_test ==
    LET ready(n) == Record(2, "ServiceMonitorWindow", n)
        h == update_object(update_object(create_object(NoHistory, ready(1), 100, 4),
                ready(2), 120, 8), ready(3), 140, 8)
    IN /\ current_revision(h, 2).revision = 3 /\ current_revision(h, 2).record.version = 3
       /\ revision_count(h, 2) = 2
       /\ prior_revision(h, 2, 1).at = 100 /\ prior_revision(h, 2, 2).at = 120

workspace_self_test ==
    LET session == workspace_session_record(first_party_apps)
        restored == current_revision(create_object(NoHistory, session, 200, 4), SessionId).record
    IN /\ Len(session.fields) = 4
       /\ layout_for(restored, 29186) = <<first_party_apps[2]>>
       /\ layout_for(restored, 29187) = <<first_party_apps[3]>>

browser_self_test ==
    LET session == workspace_session_record(first_party_apps)
        listed == FoldLeft(LAMBDA b, r : add_object(b, r, 6), <<>>,
                    <<session, Record(29186, "ServiceMonitorWindow", 1),
                      Record(29188, "SettingsPanelWindow", 1)>>)
        shown == Inserted(<<SessionId, 29186, 29188>>, <<Link(29186, "Blocks", 29188)>>)
        written == update_object(create_object(NoHistory, session, 200, 4), session, 220, 8)
    IN /\ Len(listed) = 3 /\ listed[1].id = SessionId
       /\ inspect(listed, shown, written, 29186, "Blocks")[1].target = 29188
       /\ inspect(listed, shown, written, SessionId, "DependsOn")[1].prior = 1

---------------------------------------------------------------------------
(* Behaviours *)

Init ==
    /\ part \in {"names", "history", "syntax"}
    /\ rel = [objects |-> IF part = "names" THEN <<Root, Bound, Target, Child, Bound2>> ELSE <<>>,
              links |-> <<>>]
    /\ hist \in IF part = "names" THEN Bindings ELSE {NoHistory}
    /\ browser = <<>>
    /\ text = <<>>

AddRelationship(l) ==
    /\ part = "names"
    /\ rel' = add_relationship(rel, l, RelationshipCapacity)
    /\ UNCHANGED <<part, hist, browser, text>>

InsertObject(r) ==
    /\ part = "history"
    /\ rel' = insert_object(rel, r.id, ObjectCapacity)
    /\ browser' = add_object(browser, r, BrowserCapacity)
    /\ UNCHANGED <<part, hist, text>>

CreateObject(r, at) ==
    /\ part = "history"
    /\ hist' = create_object(hist, r, at, CurrentCapacity)
    /\ UNCHANGED <<part, rel, browser, text>>

UpdateObject(r, at) ==
    /\ part = "history"
    /\ hist' = update_object(hist, r, at, RevisionCapacity)
    /\ UNCHANGED <<part, rel, browser, text>>

Restore ==
    /\ part = "history"
    /\ hist' = restore_from_records(hist.current, hist.prior)
    /\ UNCHANGED <<part, rel, browser, text>>

Type(c) ==
    /\ part = "syntax" /\ Len(text) < MaxText
    /\ text' = Append(text, c)
    /\ UNCHANGED <<part, rel, hist, browser>>

(* A locator of full length is only looked at *)
Typed ==
    /\ part = "syntax" /\ Len(text) = MaxText
    /\ UNCHANGED vars

Next ==
    \/ \E l \in Links : AddRelationship(l)
    \/ \E r \in Written : InsertObject(r)
    \/ \E r \in Written, at \in 1 .. MaxTime : CreateObject(r, at) \/ UpdateObject(r, at)
    \/ Restore
    \/ \E c \in Alphabet : Type(c)
    \/ Typed

Spec == Init /\ [][Next]_vars

---------------------------------------------------------------------------
(* Properties *)

(* The tables stay within their capacities and hold what they are for *)
TypeOK ==
    /\ part \in {"names", "history", "syntax"}
    /\ Len(rel.links) <= RelationshipCapacity
    /\ \A i \in 1 .. Len(rel.links) :
          {rel.links[i].source, rel.links[i].target} \subseteq ToSet(rel.objects)
    /\ Len(hist.prior) <= RevisionCapacity
    /\ Len(browser) <= BrowserCapacity /\ IsInjective(rel.objects)
    /\ text \in Seq(Alphabet) /\ Len(text) <= MaxText

(* What the locators asked below are, and under which authority *)
Locators == {Notes, Notes \o <<"/">> \o Today}

Authorities ==
    {Request(Root, <<first, second>>, final, {"READ"}) :
        first \in {Reads(Root), Reads(Target)},
        second \in {Reads(Child), NoAuthority},
        final \in {Reads(Target), Reads(Child), [resource |-> Target, rights |-> {"WRITE"}]}}

(* The reference: a namespace is usable when each of its bindings is       *)
(* current, a binding and well formed; a name is bound in it when exactly  *)
(* one binding carries it and that one has exactly one target              *)
NameLinks(ns) == {l \in ToSet(rel.links) : l.source = ns /\ l.kind = "NameBinding"}

Usable(ns) ==
    \A l \in NameLinks(ns) :
        \E i \in 1 .. Len(hist.current) :
            LET r == hist.current[i].record
            IN /\ r.id = l.target /\ r.kind = "NameBinding"
               /\ \E j \in 1 .. Len(r.fields) :
                     /\ r.fields[j].id = SegmentField
                     /\ parse_segment(r.fields[j].value) = "Ok"

Carrying(ns, name) ==
    {l \in NameLinks(ns) :
        \E i \in 1 .. Len(hist.current) : hist.current[i].record = locator_binding_record(l.target, name)}

TargetsOf(b) == {l \in ToSet(rel.links) : l.source = b /\ l.kind = "BindingTarget"}

BoundIn(ns, name) ==
    IF /\ Usable(ns) /\ Cardinality(Carrying(ns, name)) = 1
       /\ \A l \in Carrying(ns, name) : Cardinality(TargetsOf(l.target)) = 1
    THEN (CHOOSE t \in UNION {TargetsOf(l.target) : l \in Carrying(ns, name)} : TRUE).target
    ELSE 0

Reference(req, t) ==
    LET names == parse_locator(t).segments
        first == BoundIn(req.root, names[1])
        last == IF Len(names) = 1 THEN first
                ELSE IF first = 0 THEN 0 ELSE BoundIn(first, names[2])
    IN IF /\ last \in Known(hist)
          /\ req.traversal[1] = Reads(req.root)
          /\ Len(names) = 2 => req.traversal[2] = Reads(first)
          /\ req.final = Reads(last)
       THEN last ELSE 0

(* A locator resolves exactly when every namespace on the way holds only   *)
(* current, well-formed bindings, one of which carries the segment and     *)
(* leads to one object, and the caller may read each namespace and the     *)
(* object; the answer is that object at its current revision, with the     *)
(* relationships walked (resolve_locator)                                  *)
ResolvesExactly ==
    part = "names" =>
        \A req \in Authorities, t \in Locators :
            \A a \in {resolve_locator(rel.links, hist, req, t)}, o \in {Reference(req, t)} :
               /\ (a.error = "Ok") <=> (o # 0)
               /\ a.error = "Ok" =>
                    /\ a.at = o
                    /\ a.revision = current_revision(hist, a.at).revision
                    /\ Len(a.path) = 2 * Len(parse_locator(t).segments)
                    /\ a.path[1].source = req.root /\ a.path[Len(a.path)].target = a.at
                    /\ \A i \in 1 .. Len(a.path) - 1 : a.path[i].target = a.path[i + 1].source

(* Another relationship may make a name unusable, never lead the walk to   *)
(* another object: no binding added later takes over a name, not even to   *)
(* have the final authority refuse it (find_binding)                       *)
NeverRedirected ==
    part = "names" =>
        \A final \in {Reads(Target), Reads(Child)}, t \in Locators :
            LET req == Request(Root, <<Reads(Root), Reads(Child)>>, final, {"READ"})
                a == resolve_locator(rel.links, hist, req, t)
                b == resolve_locator(rel'.links, hist', req, t)
            IN a.error = "Ok" /\ b.error \in {"Ok", "FinalWrongResource"} => a.at = b.at

(* parse_locator accepts exactly the texts that are one to MaxSegments     *)
(* non-empty segments of at most MaxSegmentBytes locator bytes between     *)
(* single slashes, and gives back the segments in order                    *)
Slashes(t) == {i \in 1 .. Len(t) : t[i] = "/"}

WellFormed(t) ==
    /\ t # <<>>
    /\ ToSet(t) \subseteq LocatorBytes \cup {"/"}
    /\ Cardinality(Slashes(t)) < MaxSegments
    /\ \A i, j \in Slashes(t) \cup {0, Len(t) + 1} :
          (i < j /\ ~ \E k \in Slashes(t) : i < k /\ k < j) => j - i \in 2 .. MaxSegmentBytes + 1

Joined(segments) ==
    FoldLeft(LAMBDA t, s : IF t = <<>> THEN s ELSE t \o <<"/">> \o s, <<>>, segments)

SyntaxExactly ==
    LET p == parse_locator(text)
    IN /\ (p.error = "Ok") <=> WellFormed(text)
       /\ p.error = "Ok" => Joined(p.segments) = text

(* Every earlier revision of an object is kept, numbered from one without  *)
(* a gap and written before the next: an update the full table refuses     *)
(* changes nothing, a restored history is the one stored, and the browser  *)
(* shows that many earlier revisions (update_object, restore_from_records, *)
(* inspect)                                                                *)
HistoryWithoutGaps ==
    \A id \in Known(hist) :
        LET n == current_revision(hist, id).revision
            at(k) == IF k = n THEN current_revision(hist, id).at ELSE prior_revision(hist, id, k).at
        IN /\ revision_count(hist, id) = n - 1
           /\ \A k \in 1 .. n : at(k) > 0 /\ (k > 1 => at(k - 1) < at(k))
           /\ \A d \in ToSet(inspect(browser, rel, hist, id, "Blocks")) : d.prior = n - 1

(* Every kind of record, with up to four fields, decodes to itself, the    *)
(* kinds' codes being distinct; and the layouts of the four windows come   *)
(* back from the session record (encode, decode, layout_for)               *)
RecordsRoundTrip ==
    /\ part = "syntax" => \A k \in DOMAIN kind_codes, n \in 0 .. MaxFields :
          LET r == [Record(7, k, n) EXCEPT !.fields = [i \in 1 .. n |-> Field("f", <<i>>)]]
          IN decode(encode(r)) = r
    /\ part = "syntax" => \A i \in 1 .. Len(first_party_apps) :
          layout_for(decode(encode(workspace_session_record(first_party_apps))), first_party_apps[i].object)
             = <<first_party_apps[i]>>

(* The expectations of the boot self tests hold of the operations as       *)
(* modelled (the kernel stops the boot where one of them fails)            *)
SelfTestsPass ==
    part = "syntax" =>
        /\ run_self_test /\ adversarial_stale_and_missing /\ adversarial_authority
        /\ adversarial_confusion /\ format_self_test /\ relationship_self_test
        /\ revision_self_test /\ workspace_self_test /\ browser_self_test
=============================================================================
