--------------------------- MODULE ProfileLoading ---------------------------
(***************************************************************************)
(* How the files of the user become a store: load_profiles_d and           *)
(* load_overlay_config (src/src/cli/profile_selection.rs) read them while  *)
(* they may be edited, and ProfileStore::try_insert_user_profile           *)
(* (src/src/profiles.rs) takes the profiles in on top of the bundled ones. *)
(*                                                                         *)
(* A file is its size and its document, None when it does not parse or     *)
(* exceeds the bounds of YamlLimits; an edit replaces it at once.  An entry*)
(* of the metadata is its trimmed text and the blanks around it.           *)
(***************************************************************************)
EXTENDS Sums, FiniteSets, SequencesExt

CONSTANTS
  ProfileFiles,    \* the paths of profiles.d, in order
  OverlayFiles,    \* the paths of default_config_paths, in order
  Contents,        \* what an edit may put into a file
  Bundled,         \* the built-in store
  MaxEntries,      \* MAX_PROFILES_D_ENTRIES
  MaxFiles,        \* MAX_PROFILES_D_FILES
  MaxBytes,        \* MAX_PROFILES_D_BYTES
  MaxFileBytes,    \* MAX_CONFIG_FILE_BYTES
  ProfileBudget,   \* the metadata budgets of one profile
  StoreBudget,     \* and of the whole store
  MaxEdits,        \* bound on the edits while the files are read
  None             \* no file, no document

Paths == ToSet(ProfileFiles) \cup ToSet(OverlayFiles)

(* A list of metadata as a document may hold it. *)
IsMetadata(list) ==
  /\ list \in Seq(ToSet(list))
  /\ \A entry \in ToSet(list) : Len(entry.text) \in Nat /\ entry.blanks \in Nat

Fields == {"inherits", "detection"}

(* A directory holds each path once. *)
ASSUME LoadingAssumptions ==
  /\ {MaxEntries, MaxFiles, MaxBytes, MaxFileBytes, MaxEdits} \subseteq Nat
  /\ \A c \in Contents : c.size \in Nat
  /\ \A c \in Contents : c.document # None =>
       \A field \in Fields : IsMetadata(c.document[field])
  /\ \A field \in Fields :
       {ProfileBudget[field].entryBytes, ProfileBudget[field].entries, ProfileBudget[field].bytes}
         \subseteq Nat
  /\ ProfileFiles \in Seq(ToSet(ProfileFiles)) /\ OverlayFiles \in Seq(ToSet(OverlayFiles))
  /\ \A i, j \in DOMAIN ProfileFiles : ProfileFiles[i] = ProfileFiles[j] => i = j
  /\ \A n \in DOMAIN Bundled : Bundled[n].bundled

VARIABLES
  disk,            \* the content of each path
  edits,
  loading,         \* where the load is
  unlisted,        \* directory entries not yet looked at
  listed,          \* directory entries counted
  entries,         \* the profile files found
  opened,          \* of the file that is open, its content then
  sources, total,  \* what was read of the profile files, and its bytes
  overlay,         \* the documents of the overlay
  unchecked,       \* overlay paths still to look for
  store,           \* the profiles
  shown            \* history: what each path held until the profile files were read

readVars == <<unlisted, listed, entries, opened, sources, total, overlay, unchecked>>
loadingVars == <<disk, edits, loading, readVars, store, shown>>

Missing == [size |-> 0, document |-> None]

Stages ==
  {"listing", "reading", "parsing", "inserting", "overlay", "found", "loaded", "failed"}

-----------------------------------------------------------------------------
(* normalize_metadata_entries: blank entries and repeats are left out.       *)

Length(entry) == Len(entry.text) + entry.blanks

NormalizeEntry(budget, kept, entry) ==
  IF ~ kept.fits THEN kept
  ELSE IF Length(entry) > budget.entryBytes THEN [kept EXCEPT !.fits = FALSE]
  ELSE IF entry.text = <<>> \/ Contains(kept.texts, entry.text) THEN kept
  ELSE [fits |-> /\ Len(kept.texts) < budget.entries
                 /\ kept.bytes + Len(entry.text) <= budget.bytes,
        texts |-> Append(kept.texts, entry.text),
        bytes |-> kept.bytes + Len(entry.text)]

Normalizing(budget, raw) ==
  LET kept[n \in 0 .. Len(raw)] ==
        IF n = 0 THEN [fits |-> TRUE, texts |-> <<>>, bytes |-> 0]
        ELSE NormalizeEntry(budget, kept[n - 1], raw[n])
  IN kept

Normalize(budget, raw) == Normalizing(budget, raw)[Len(raw)]

AsEntries(texts) == [i \in DOMAIN texts |-> [text |-> texts[i], blanks |-> 0]]

(* profile_file_from_doc: a profile has a name, metadata within the budgets,  *)
(* no runtime section of its own, and rules that parse.                      *)
Accepted(document) ==
  /\ document # None /\ document.name # None
  /\ Normalize(ProfileBudget.inherits, document.inherits).fits
  /\ Normalize(ProfileBudget.detection, document.detection).fits
  /\ ~ document.runtime
  /\ document.sound

ProfileOf(document) ==
  [inherits |-> Normalize(ProfileBudget.inherits, document.inherits).texts,
   detection |-> Normalize(ProfileBudget.detection, document.detection).texts,
   bundled |-> FALSE]

-----------------------------------------------------------------------------
(* try_insert_user_profile *)

Count(profiles, names, field) ==
  MapThenSumSet(LAMBDA n : Len(profiles[n][field]), names)

BytesOf(profiles, names, field) ==
  MapThenSumSet(LAMBDA n : FoldLeft(LAMBDA sum, text : sum + Len(text), 0, profiles[n][field]),
                names)

WithinStore(profiles) ==
  \A field \in Fields :
    /\ Count(profiles, DOMAIN profiles, field) <= StoreBudget[field].entries
    /\ BytesOf(profiles, DOMAIN profiles, field) <= StoreBudget[field].bytes

(* The bundled profiles leave room: profiles.rs:39-53 against profiles/. *)
ASSUME BundledAssumption == WithinStore(Bundled)

Insert(profiles, document) ==
  [n \in DOMAIN profiles \cup {document.name} |->
     IF n = document.name THEN ProfileOf(document) ELSE profiles[n]]

(* A profile of the same name makes room for the new one. *)
Insertable(profiles, document) ==
  /\ Normalize(ProfileBudget.inherits, AsEntries(ProfileOf(document).inherits)).fits
  /\ Normalize(ProfileBudget.detection, AsEntries(ProfileOf(document).detection)).fits
  /\ WithinStore(Insert(profiles, document))

-----------------------------------------------------------------------------
(* The user edits, makes or removes a file, at any time. *)
Edit(path, content) ==
  /\ edits < MaxEdits /\ content # disk[path]
  /\ disk' = [disk EXCEPT ![path] = content]
  /\ shown' = IF loading \in {"listing", "reading"}
              THEN [shown EXCEPT ![path] = @ \cup {content}] ELSE shown
  /\ edits' = edits + 1
  /\ UNCHANGED <<loading, readVars, store>>

FailLoad == loading' = "failed"

(* An entry of the directory: counted, and kept when it is a YAML file.  One  *)
(* that is gone, or a link that leads nowhere, is not, but may be counted.   *)
SeeEntry(path) ==
  /\ loading = "listing" /\ path \in unlisted
  /\ unlisted' = unlisted \ {path}
  /\ listed' \in {listed + 1} \cup (IF disk[path] = Missing THEN {listed} ELSE {})
  /\ LET kept == IF disk[path] = Missing THEN entries ELSE entries \cup {path}
     IN IF listed' > MaxEntries \/ Cardinality(kept) > MaxFiles
        THEN FailLoad /\ UNCHANGED entries
        ELSE entries' = kept /\ UNCHANGED loading
  /\ UNCHANGED <<disk, edits, opened, sources, total, overlay, unchecked, store, shown>>

EndListing ==
  /\ loading = "listing" /\ unlisted = {}
  /\ loading' = "reading"
  /\ UNCHANGED <<disk, edits, readVars, store, shown>>

(* The files found are read in order. *)
Read == {sources[i].path : i \in DOMAIN sources}

Unread == {i \in DOMAIN ProfileFiles : ProfileFiles[i] \in entries \ Read}

NextPath ==
  IF loading = "reading" THEN ProfileFiles[Min(Unread)] ELSE Head(unchecked)

ToRead ==
  \/ loading = "reading" /\ Unread # {}
  \/ loading = "found" /\ unchecked # <<>>

(* read_bounded_regular_file: the size is checked when the file is opened,   *)
(* and again on what was read.  One that was found may be gone by then.      *)
OpenPath ==
  /\ ToRead /\ opened = None
  /\ IF disk[NextPath] = Missing \/ disk[NextPath].size > MaxFileBytes
     THEN FailLoad /\ UNCHANGED opened
     ELSE opened' = disk[NextPath] /\ UNCHANGED loading
  /\ UNCHANGED <<disk, edits, unlisted, listed, entries, sources, total, overlay, unchecked,
                 store, shown>>

(* What is read is what was there when the file was opened or, if it was      *)
(* written in place since, what is there now.                                *)
ReadNow == {opened} \cup ({disk[NextPath]} \ {Missing})

Charge(content) == total + content.size

ReadSource ==
  /\ loading = "reading" /\ opened # None
  /\ \E content \in ReadNow :
       IF content.size > MaxFileBytes \/ Charge(content) > MaxBytes
       THEN FailLoad /\ UNCHANGED <<sources, total>>
       ELSE /\ sources' = Append(sources, [path |-> NextPath, content |-> content])
            /\ total' = Charge(content)
            /\ UNCHANGED loading
  /\ opened' = None
  /\ UNCHANGED <<disk, edits, unlisted, listed, entries, overlay, unchecked, store, shown>>

EndReading ==
  /\ loading = "reading" /\ Unread = {}
  /\ loading' = "parsing"
  /\ UNCHANGED <<disk, edits, readVars, store, shown>>

(* Fault: a path is opened again for the profile it holds. *)
Reopen(source) ==
  IF Accepted(disk[source.path].document) THEN disk[source.path].document
  ELSE source.content.document

Snapshot(source) == source.content.document

(* Every file is parsed before any profile is inserted. *)
ParseSources ==
  /\ loading = "parsing"
  /\ loading' = IF \A i \in DOMAIN sources : Accepted(Snapshot(sources[i]))
                THEN "inserting" ELSE "failed"
  /\ UNCHANGED <<disk, edits, readVars, store, shown>>

InsertSource ==
  /\ loading = "inserting" /\ sources # <<>>
  /\ LET document == Snapshot(Head(sources))
     IN IF Insertable(store, document)
        THEN store' = Insert(store, document) /\ UNCHANGED loading
        ELSE FailLoad /\ UNCHANGED store
  /\ sources' = Tail(sources)
  /\ UNCHANGED <<disk, edits, unlisted, listed, entries, opened, total, overlay, unchecked, shown>>

EndInserting ==
  /\ loading = "inserting" /\ sources = <<>>
  /\ loading' = "overlay"
  /\ UNCHANGED <<disk, edits, readVars, store, shown>>

-----------------------------------------------------------------------------
(* load_overlay_config: a path that does not exist is passed over. *)
LookForOverlay ==
  /\ loading = "overlay" /\ unchecked # <<>>
  /\ IF disk[Head(unchecked)] = Missing
     THEN unchecked' = Tail(unchecked) /\ UNCHANGED loading
     ELSE loading' = "found" /\ UNCHANGED unchecked
  /\ UNCHANGED <<disk, edits, unlisted, listed, entries, opened, sources, total, overlay, store,
                 shown>>

ReadOverlay ==
  /\ loading = "found" /\ opened # None
  /\ \E content \in ReadNow :
       IF content.size > MaxFileBytes \/ content.document = None \/ ~ content.document.sound
       THEN FailLoad /\ UNCHANGED <<overlay, unchecked>>
       ELSE /\ overlay' = Append(overlay, content.document)
            /\ unchecked' = Tail(unchecked)
            /\ loading' = "overlay"
  /\ opened' = None
  /\ UNCHANGED <<disk, edits, unlisted, listed, entries, sources, total, store, shown>>

EndOverlay ==
  /\ loading = "overlay" /\ unchecked = <<>>
  /\ loading' = "loaded"
  /\ UNCHANGED <<disk, edits, readVars, store, shown>>

LoadStep ==
  \/ \E path \in Paths : SeeEntry(path)
  \/ EndListing \/ OpenPath \/ ReadSource \/ EndReading
  \/ ParseSources \/ InsertSource \/ EndInserting
  \/ LookForOverlay \/ ReadOverlay \/ EndOverlay

EditStep ==
  /\ loading \notin {"loaded", "failed"}
  /\ \E path \in Paths, content \in Contents \cup {Missing} : Edit(path, content)

LoadingInit ==
  /\ disk \in [Paths -> Contents \cup {Missing}]
  /\ edits = 0 /\ loading = "listing"
  /\ unlisted = ToSet(ProfileFiles) /\ listed = 0 /\ entries = {} /\ opened = None
  /\ sources = <<>> /\ total = 0 /\ overlay = <<>> /\ unchecked = OverlayFiles
  /\ store = Bundled
  /\ shown = [path \in Paths |-> {disk[path]}]

-----------------------------------------------------------------------------
LoadingTypeOK ==
  /\ disk \in [Paths -> Contents \cup {Missing}] /\ edits \in 0 .. MaxEdits
  /\ loading \in Stages
  /\ unlisted \subseteq ToSet(ProfileFiles) /\ entries \subseteq ToSet(ProfileFiles)
  /\ opened \in Contents \cup {None}
  /\ sources \in Seq([path : ToSet(ProfileFiles), content : Contents]) /\ total \in Nat
  /\ unchecked \in Seq(ToSet(OverlayFiles))
  /\ shown \in [Paths -> SUBSET (Contents \cup {Missing})]

(* However the files change while they are read, what is kept of them stays  *)
(* within the budgets, the whole store's too (profile_selection.rs:222-262).  *)
LoadKeepsBudgets ==
  /\ loading \in {"reading", "parsing"} =>
       /\ total = SumOf([i \in DOMAIN sources |-> sources[i].content.size])
       /\ total <= MaxBytes
  /\ Len(sources) <= MaxFiles
  /\ WithinStore(store)

(* A profile that parsed is refused by the store only for what others hold:  *)
(* normalizing its metadata again changes nothing (profiles.rs:796-805).     *)
NormalizedStays ==
  \A n \in DOMAIN store : ~ store[n].bundled =>
    \A field \in Fields :
      LET again == Normalize(ProfileBudget[field], AsEntries(store[n][field]))
      IN again.fits /\ again.texts = store[n][field]

(* What a path held until all were read. *)
Steady(path) == \E held \in shown[path] : shown[path] = {held}

(* The profiles of a store are the bundled ones and what a file held.  None   *)
(* is made up, and none that stayed put is lost to anything but a later file.*)
NoneMadeUp ==
  \A n \in DOMAIN store :
    \/ n \in DOMAIN Bundled /\ store[n] = Bundled[n]
    \/ \E i \in DOMAIN ProfileFiles : \E c \in shown[ProfileFiles[i]] \ {Missing} :
         Accepted(c.document) /\ c.document.name = n /\ store[n] = ProfileOf(c.document)

(* A file's profile is in the store, or one of its name from a later file. *)
Holds(document) == document.name \in DOMAIN store /\ store[document.name] = ProfileOf(document)

Kept(i, document) ==
  /\ Accepted(document)
  /\ \/ Holds(document)
     \/ \E j \in DOMAIN ProfileFiles : \E c \in shown[ProfileFiles[j]] \ {Missing} :
          /\ i < j /\ Accepted(c.document) /\ c.document.name = document.name
          /\ Holds(c.document)

NoneLost ==
  \A i \in DOMAIN ProfileFiles : \A held \in shown[ProfileFiles[i]] \ {Missing} :
    Steady(ProfileFiles[i]) => Kept(i, held.document)

-----------------------------------------------------------------------------
(* Why that is so.  The files are found, whatever is edited; they are read in *)
(* order, each once; they are inserted in order.                             *)

Before(p, q) ==
  \E i, j \in DOMAIN ProfileFiles : i < j /\ ProfileFiles[i] = p /\ ProfileFiles[j] = q

FindsFiles ==
  /\ loading \in {"listing", "reading"} => \A path \in Paths : disk[path] \in shown[path]
  /\ loading # "failed" =>
       /\ Cardinality(entries) <= MaxFiles
       /\ \A path \in ToSet(ProfileFiles) \ unlisted :
            Missing \notin shown[path] => path \in entries
  /\ loading = "listing" => sources = <<>> /\ total = 0
  /\ loading \notin {"listing", "failed"} => unlisted = {}

ReadsInOrder ==
  /\ loading = "reading" =>
       /\ \A i \in Unread, p \in Read : Before(p, ProfileFiles[i])
       /\ opened # None => opened \in shown[NextPath] \ {Missing}
  /\ loading = "parsing" => entries \subseteq Read
  /\ loading # "failed" =>
       /\ opened # None => ToRead
       /\ Read \subseteq entries
       /\ \A i \in DOMAIN sources :
            sources[i].content \in shown[sources[i].path] \ {Missing}
       /\ \A i, j \in DOMAIN sources : i < j => Before(sources[i].path, sources[j].path)

InsertsInOrder ==
  /\ loading = "inserting" => \A i \in DOMAIN sources : Accepted(Snapshot(sources[i]))
  /\ loading \in {"inserting", "overlay", "found", "loaded"} =>
       \A i \in DOMAIN ProfileFiles : ProfileFiles[i] \in entries \ Read =>
         /\ \E c \in shown[ProfileFiles[i]] \ {Missing} : Kept(i, c.document)
         /\ \A q \in Read : Before(ProfileFiles[i], q)
  /\ loading \in {"overlay", "found", "loaded"} => sources = <<>>

LoadsInOrder == FindsFiles /\ ReadsInOrder /\ InsertsInOrder /\ NoneMadeUp
=============================================================================
