----------------------------- MODULE ReleasePackage -----------------------------
(* The sanitized archive of the source tree (security/release_package.py):   *)
(* built from a working tree by one of two scripts, which write it only if   *)
(* their own verification accepts it; handed around, where it may be damaged *)
(* or put together anew; verified with or without the fingerprint that is    *)
(* expected; unpacked as the next working tree.  A hash stands for the bytes *)
(* it is computed from, and signatures cannot be forged.                     *)
EXTENDS Naturals, Sequences, FiniteSets

CONSTANTS
  Sources,      \* files that may be put into a working tree
  ClimbingStems,\* file names that lead out of the tree once "\" is read as "/"
  MaxChanges    \* changes of trees and archives

VARIABLES
  worktree,  \* the files of the working tree
  device,    \* the signing key in the directory the script is started from
  archive,   \* what is handed around
  written,   \* history: the members of the archives the pinned key has signed
  changes    \* history: how many changes were made
PackagingVars == <<worktree, device, archive, written, changes>>

(* EXPECTED_SIGNER_FINGERPRINT, any other key, and a verifier who asks for none. *)
Pinned == "pinned"
Other == "other"
Anyone == "anyone"
Nobody == "nobody"

FORBIDDEN_PARTS ==
  {".git", ".venv", "venv", "node_modules", "__pycache__", ".pytest_cache", ".mypy_cache",
   ".ruff_cache", ".veilgraph", ".veilgraph-hotfix-backups", "dist", "build", ".idea", ".vscode"}
FORBIDDEN_SUFFIXES ==
  {".pyc", ".pyo", ".db", ".sqlite", ".sqlite3", ".key", ".pem", ".log", ".tsbuildinfo"}

TreePath(dirs, stem, suffix) == [dirs |-> dirs, stem |-> stem, suffix |-> suffix]
ManifestPath == TreePath(<<>>, "veilgraph-release-manifest", ".json")
PrivateKeyBlock == <<"private key">>

PathsOf(files) == {f.path : f \in files}
Bytes(files, path) == (CHOOSE f \in files : f.path = path).content

should_exclude(path) ==
  \/ \E k \in DOMAIN path.dirs : path.dirs[k] \in FORBIDDEN_PARTS
  \/ path.suffix = "" /\ path.stem \in FORBIDDEN_PARTS \cup {".DS_Store"}
  \/ path.stem = ".env" \/ path.suffix \in FORBIDDEN_SUFFIXES
  \/ Len(path.dirs) > 1 /\ SubSeq(path.dirs, 1, 2) = <<"competition", "releases">>

(* A file is its path, its content and whether it is a link; there is        *)
(* something to release.                                                     *)
ASSUME PackagingAssumption ==
  /\ \A f \in Sources :
       f = [path |-> f.path, content |-> f.content, link |-> f.link] /\ f.link \in BOOLEAN
  /\ \E f \in Sources : ~f.link /\ ~should_exclude(f.path)
  /\ MaxChanges \in Nat

iter_release_files(tree) == {f \in tree : ~f.link /\ ~should_exclude(f.path)}

_scan_bytes(files) == \A f \in files : f.content # PrivateKeyBlock

ManifestOf(files) ==
  [entries |-> [p \in PathsOf(files) |-> Bytes(files, p)],
   entry_count |-> Cardinality(PathsOf(files))]

Unsigned(manifest) == [manifest |-> manifest, signer |-> Nobody, signature |-> <<Nobody, manifest>>]
SignedBy(key, manifest) == [manifest |-> manifest, signer |-> key, signature |-> <<key, manifest>>]

build_release_package(tree, key) ==
  LET files == iter_release_files(tree)
      manifest == ManifestOf(files)
  IN [members |-> files,
      document |-> IF key = Nobody THEN Unsigned(manifest) ELSE SignedBy(key, manifest)]

-----------------------------------------------------------------------------
(* verify_release_package_bytes *)

MembersAreAllowed(members) ==
  /\ Cardinality(PathsOf(members) \cup {ManifestPath}) = Cardinality(members) + 1
  /\ _scan_bytes(members)
  /\ \A f \in members :
        ~should_exclude(f.path) /\ f.path.stem \notin ClimbingStems /\ ~f.link

SignerIsExpected(document, expected) ==
  IF document.signer = Nobody THEN expected = Anyone
  ELSE /\ expected \in {document.signer, Anyone}
       /\ document.signature = <<document.signer, document.manifest>>

(* Slip: hashes are compared, but members the manifest does not list pass.   *)
listed_members_match(manifest, members) ==
  \A p \in DOMAIN manifest.entries : p \in PathsOf(members) /\ manifest.entries[p] = Bytes(members, p)

MembersMatch(manifest, members) ==
  /\ ManifestPath \notin DOMAIN manifest.entries
  /\ manifest.entry_count = Cardinality(DOMAIN manifest.entries)
  /\ PathsOf(members) = DOMAIN manifest.entries
  /\ \A p \in DOMAIN manifest.entries : manifest.entries[p] = Bytes(members, p)

verify_release_package_bytes(package, expected) ==
  /\ MembersAreAllowed(package.members)
  /\ SignerIsExpected(package.document, expected)
  /\ MembersMatch(package.document.manifest, package.members)

-----------------------------------------------------------------------------
NoArchive == [members |-> {}, document |-> Unsigned(ManifestOf({}))]

Change == changes < MaxChanges /\ changes' = changes + 1

EditTree ==
  /\ Change
  /\ \E f \in Sources :
        worktree' \in {worktree \ {f}, {g \in worktree : g.path # f.path} \cup {f}}
  /\ UNCHANGED <<device, archive, written>>

(* The key's path is relative: another directory has another key.            *)
OtherDirectory ==
  /\ device' \in {Pinned, Other}
  /\ UNCHANGED <<worktree, archive, written, changes>>

(* build_rightsgate_release.py signs and expects the pinned fingerprint;     *)
(* build_competition_release.py does neither.                                *)
Build(key, expected) ==
  LET package == build_release_package(worktree, key)
  IN /\ _scan_bytes(iter_release_files(worktree))
     /\ verify_release_package_bytes(package, expected)
     /\ archive' = package
     /\ written' = IF key = Pinned THEN written \cup {package.members} ELSE written
     /\ UNCHANGED <<worktree, device, changes>>
build_rightsgate_release == Build(device, Pinned)
build_competition_release == Build(Nobody, Anyone)

(* A member is lost, replaced, added or turned into a link on the way.       *)
AlterMembers ==
  /\ Change
  /\ \E f \in Sources :
        archive' = [archive EXCEPT !.members =
          CASE f \in @ -> @ \ {f} [] OTHER -> {g \in @ : g.path # f.path} \cup {f}]
  /\ UNCHANGED <<worktree, device, written>>

(* Somebody writes the manifest anew, without a signature, with one of       *)
(* their own, or with the old one left in place.                             *)
AlterManifest ==
  /\ Change
  /\ LET manifest == ManifestOf(archive.members)
     IN archive' \in {[archive EXCEPT !.document = d] :
          d \in {Unsigned(manifest), SignedBy(Other, manifest),
                 [archive.document EXCEPT !.manifest = manifest],
                 [archive.document EXCEPT !.manifest.entry_count = @ + 1],
                 [archive.document EXCEPT !.signer = Pinned]}}
  /\ UNCHANGED <<worktree, device, written>>

Unpack ==
  /\ archive # NoArchive
  /\ verify_release_package_bytes(archive, Anyone)
  /\ worktree' = archive.members \cup
       {[path |-> ManifestPath, content |-> <<"manifest", archive.document>>, link |-> FALSE]}
  /\ UNCHANGED <<device, archive, written, changes>>

PackagingInit ==
  /\ worktree = {CHOOSE f \in Sources : ~f.link /\ ~should_exclude(f.path)}
  /\ device = Pinned
  /\ archive = NoArchive /\ written = {} /\ changes = 0

PackagingNext ==
  \/ EditTree \/ OtherDirectory \/ AlterMembers \/ AlterManifest \/ Unpack
  \/ build_rightsgate_release \/ build_competition_release

-----------------------------------------------------------------------------

PackagingTypeOK ==
  /\ device \in {Pinned, Other} /\ changes \in 0 .. MaxChanges
  /\ archive.document.signer \in {Nobody, Pinned, Other}
  /\ \A f \in worktree : f.path = ManifestPath \/ f \in Sources

(* Whoever expects the pinned fingerprint accepts only members that a script *)
(* has written as they are; whoever expects none still gets nothing that     *)
(* the tree must keep, and all of what the manifest names and no more.  The  *)
(* builder's own verification refuses what it built in three cases only: the *)
(* tree is an unpacked archive, with the manifest in it; a file name leads   *)
(* out of it; the key is another one.                                        *)
ReleaseIsWhatWasBuilt ==
  /\ verify_release_package_bytes(archive, Pinned) => archive.members \in written
  /\ verify_release_package_bytes(archive, Anyone) =>
       /\ archive.members = iter_release_files(archive.members)
       /\ archive.document.manifest = ManifestOf(archive.members)
  /\ _scan_bytes(iter_release_files(worktree)) =>
       \A key \in {device, Nobody} :
         verify_release_package_bytes(build_release_package(worktree, key),
                                      IF key = Nobody THEN Anyone ELSE Pinned)
         <=> /\ ManifestPath \notin PathsOf(iter_release_files(worktree))
             /\ \A f \in iter_release_files(worktree) : f.path.stem \notin ClimbingStems
             /\ key # Other
=============================================================================
