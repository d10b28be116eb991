------------------------------ MODULE Plugins ------------------------------
(***************************************************************************)
(* Plugins of a profile (plugin_api.rs): preview, install, staged upgrade, *)
(* activation, rollback, patch and deletion, against a release source that *)
(* may be published again at any time (plugin_github.rs).                  *)
(*                                                                         *)
(* One plugin name.  A release is a tag, with the commit it points to,     *)
(* where the manifest is read, and an artifact; the publisher may move the *)
(* one and replace the other at any time.  Tags are named as versions are, *)
(* but the version a plugin gets is the one its manifest says, whichever   *)
(* tag was asked for.  Install holds no lock: it resolves, downloads,      *)
(* extracts, tests and commits, and the unique name decides.  The other    *)
(* long operations hold the plugin's row (SELECT ... FOR UPDATE) from      *)
(* beginning to end, so one slot is enough for them.  A client that leaves *)
(* drops its handler at any await.                                         *)
(***************************************************************************)
EXTENDS Naturals, Sequences, FiniteSets

CONSTANTS Installers,   \* install requests, each with its own plugin id
          Releases,     \* versions the publisher tags
          MaxPublished, \* bound: commits of a tag, and artifacts
          MaxPluginOps,       \* bound: operations on the installed plugin
          MaxEntries    \* MAX_ARCHIVE_ENTRIES

ASSUME PluginsAssumption == MaxPublished \in Nat \ {0} /\ {MaxPluginOps, MaxEntries} \subseteq Nat

VARIABLES release,   \* what the source serves for a version
          shown,     \* history: digests that a preview showed or an upgrade staged
          plugin,    \* the row of plugins
          companion,      \* its companion book
          instal,    \* plugin_installations of that row
          installer, \* install requests
          rowHolder,    \* the operation that holds the row
          staging,   \* staging directories on disk
          ops, crashed

pvars == <<release, shown, plugin, companion, instal, installer, rowHolder, staging, ops, crashed>>

ArchiveEntries  == {"file", "dir", "link"}
Archives == UNION {[1 .. n -> ArchiveEntries] : n \in 1 .. MaxEntries + 1}
NoPlugin     == [kind |-> "none"]
NoInstall == [status |-> "none", digest |-> 0, at |-> 0]

PluginsInit ==
    /\ release = [v \in Releases |-> [commit |-> 1, says |-> v, artifact |-> 1]]
    /\ shown = {} /\ plugin = NoPlugin /\ companion = NoPlugin
    /\ instal = [v \in Releases |-> NoInstall]
    /\ installer = [i \in Installers |-> [pc |-> "idle"]]
    /\ rowHolder = NoPlugin /\ staging = {} /\ ops = 0 /\ crashed = FALSE

Installed == plugin # NoPlugin
Locked    == rowHolder # NoPlugin
pcounts == <<ops, crashed>>

\* The publisher moves a tag to a commit whose manifest says what it says.
MoveTag(v) ==
    /\ release[v].commit < MaxPublished
    /\ \E says \in Releases :
          release' = [release EXCEPT ![v].commit = @ + 1, ![v].says = says]
    /\ UNCHANGED <<shown, plugin, companion, instal, installer, rowHolder, staging, pcounts>>

\* The publisher replaces the artifact of a release.
ReplaceArtifact(v) ==
    /\ release[v].artifact < MaxPublished
    /\ release' = [release EXCEPT ![v].artifact = @ + 1]
    /\ UNCHANGED <<shown, plugin, companion, instal, installer, rowHolder, staging, pcounts>>

-----------------------------------------------------------------------------
(* The source and the archive *)

\* resolve_ref_to_commit, release_assets with pick_artifact_url, and
\* compute_artifact_digest, one request to the source each: any commit and
\* artifact the release has had together may be the result.
CommitOf(v)  == release[v].commit
AssetOf(v)   == release[v].artifact
Digest(v)    == AssetOf(v)
Says(v)      == release[v].says
Resolve(v)   == [v |-> v, commit |-> CommitOf(v), says |-> Says(v), digest |-> Digest(v)]

\* The file at the commit that was resolved, which says a version.
FetchManifest(r) == [commit |-> r.commit, version |-> r.says]

\* artifact_location asks for the assets again; download_artifact hashes what
\* it got.
ArtifactLocation(r) == AssetOf(r.v)
DownloadMatches(r)  == ArtifactLocation(r) = r.digest

\* extract_zip and extract_tar_gz: links are refused, and an archive of more
\* than MaxEntries entries; the zip loop skips its bound for directories.
FilesIn(a) == Cardinality({n \in DOMAIN a : a[n] = "file"})
ExtractZip(a) ==
    \A n \in DOMAIN a : a[n] # "link" /\ (a[n] = "file" => n <= MaxEntries)
ExtractTar(a) == (\A n \in DOMAIN a : a[n] # "link") /\ Len(a) <= MaxEntries
Extracts(a) == ExtractZip(a) \/ ExtractTar(a)

-----------------------------------------------------------------------------
(* preview and install *)

PreviewPlugin(v) ==
    /\ shown' = shown \cup {Resolve(v).digest}
    /\ UNCHANGED <<release, plugin, companion, instal, installer, rowHolder, staging, pcounts>>

\* Approval, the digest the operator got from a preview, and the free name.
InstallResolve(i, v) ==
    /\ installer[i].pc = "idle" /\ ~Installed
    /\ Resolve(v).digest \in shown
    /\ installer' = [installer EXCEPT ![i] = [pc |-> "download", r |-> Resolve(v)]]
    /\ staging' = staging \cup {i}
    /\ UNCHANGED <<release, shown, plugin, companion, instal, rowHolder, pcounts>>

\* StagingGuard: the directory goes when the handler returns.
InstallEnds(i) ==
    /\ installer' = [installer EXCEPT ![i] = [pc |-> "ended"]]
    /\ staging' = staging \ {i}

InstallDownload(i) ==
    /\ installer[i].pc = "download"
    /\ IF DownloadMatches(installer[i].r)
       THEN installer' = [installer EXCEPT ![i].pc = "extract"] /\ UNCHANGED staging
       ELSE InstallEnds(i)
    /\ UNCHANGED <<release, shown, plugin, companion, instal, rowHolder, pcounts>>

\* extract_staged, on a thread of its own (spawn_blocking).
InstallExtract(i) ==
    /\ installer[i].pc = "extract"
    /\ \E a \in Archives :
          IF Extracts(a)
          THEN /\ installer' = [installer EXCEPT ![i] =
                                   [pc |-> "test", r |-> installer[i].r, archive |-> a]]
               /\ UNCHANGED staging
          ELSE InstallEnds(i)
    /\ UNCHANGED <<release, shown, plugin, companion, instal, rowHolder, pcounts>>

\* run_plugin_self_test, in a workspace of its own.
InstallSelfTest(i) ==
    /\ installer[i].pc = "test"
    /\ \/ /\ installer' = [installer EXCEPT ![i] = [pc |-> "commit", r |-> installer[i].r]]
          /\ UNCHANGED staging
       \/ InstallEnds(i)
    /\ UNCHANGED <<release, shown, plugin, companion, instal, rowHolder, pcounts>>

\* The handler is dropped.  What it was writing goes on, on another thread, and
\* may bring back a directory that StagingGuard has removed.
LeftBehind(d, pc) ==
    staging' \in {staging \ {d}} \cup
                 (IF pc \in {"download", "extract"} THEN {(staging \ {d}) \cup {"left"}} ELSE {})
InstallDropped(i) ==
    /\ installer[i].pc \notin {"idle", "ended"}
    /\ installer' = [installer EXCEPT ![i] = [pc |-> "ended"]]
    /\ LeftBehind(i, installer[i].pc)
    /\ UNCHANGED <<release, shown, plugin, companion, instal, rowHolder, pcounts>>

\* The row of a plugin as install, activate and rollback write it: the version
\* is the manifest's, which is not compared with the tag that was asked for.
PluginRow(i, r, trust, st) ==
    [kind |-> "row", id |-> i, version |-> FetchManifest(r).version, digest |-> r.digest,
     manifest |-> FetchManifest(r).commit, trust |-> trust, state |-> st]
Companion(row) == [kind |-> "book", version |-> row.version, trust |-> row.trust]

\* insert_plugin_row, components, permissions, installation and book in one
\* transaction; UNIQUE (profile_id, name) lets one of two installs through.
InstallCommit(i) ==
    LET r   == installer[i].r
        row == PluginRow(i, r, "USER_PROVIDED", "dormant")
    IN  /\ installer[i].pc = "commit"
        /\ IF Installed THEN UNCHANGED <<plugin, companion, instal>>
           ELSE /\ plugin' = row /\ companion' = Companion(row)
                /\ instal' = [v \in Releases |->
                      IF v = row.version THEN [status |-> "active", digest |-> r.digest, at |-> ops]
                      ELSE NoInstall]
        /\ InstallEnds(i)
        /\ UNCHANGED <<release, shown, rowHolder, pcounts>>

-----------------------------------------------------------------------------
(* upgrade, activate and rollback hold the row *)

HoldRow(h) ==
    /\ Installed /\ ~Locked /\ ops < MaxPluginOps /\ ops' = ops + 1
    /\ rowHolder' = h
    /\ UNCHANGED <<release, shown, plugin, companion, instal, installer, crashed>>
LetRowGo == rowHolder' = NoPlugin /\ staging' = staging \ {"holder"}

\* The transaction is rolled back.
HolderDropped ==
    /\ Locked /\ rowHolder' = NoPlugin
    /\ LeftBehind("holder", rowHolder.pc)
    /\ UNCHANGED <<release, shown, plugin, companion, instal, installer, pcounts>>

UpgradeResolve(v) ==
    /\ Installed => plugin.version # v
    /\ HoldRow([kind |-> "upgrade", pc |-> "commit", r |-> Resolve(v)])
    /\ UNCHANGED staging

\* The installation is the one of the version that the manifest says.
MayStage(status) == status \notin {"staged", "active"}
UpgradeCommit ==
    LET r       == rowHolder.r
        version == FetchManifest(r).version
    IN  /\ rowHolder.kind = "upgrade"
        /\ IF MayStage(instal[version].status)
           THEN /\ instal' = [instal EXCEPT ![version].status = "staged", ![version].digest = r.digest]
                /\ plugin' = [plugin EXCEPT !.state = "staged"]
                /\ shown' = shown \cup {r.digest}
           ELSE UNCHANGED <<instal, plugin, shown>>
        /\ LetRowGo
        /\ UNCHANGED <<release, companion, installer, pcounts>>

\* stage_and_verify: the tag named as the version is resolved again, and its
\* digest must be the one recorded when the version was staged or installed;
\* the manifest at its commit is taken as it is.
Pinned(v) == Resolve(v).digest = instal[v].digest
StageAndVerify(kind, v) ==
    /\ Pinned(v)
    /\ HoldRow([kind |-> kind, pc |-> "download", r |-> Resolve(v)])
    /\ staging' = staging \cup {"holder"}

Activate(v) == instal[v].status = "staged" /\ StageAndVerify("activate", v)

\* The active installation that was activated last, of another version than
\* the plugin's, whose own must be active.
Rollback(v) ==
    /\ Installed => /\ instal[plugin.version].status = "active" /\ v # plugin.version
                    /\ \A w \in Releases \ {plugin.version} : instal[w].status = "active"
                           => instal[w].at <= instal[v].at
    /\ instal[v].status = "active"
    /\ StageAndVerify("rollback", v)

HolderDownload ==
    /\ Locked /\ rowHolder.pc = "download"
    /\ IF DownloadMatches(rowHolder.r)
       THEN rowHolder' = [rowHolder EXCEPT !.pc = "extract"] /\ UNCHANGED staging
       ELSE LetRowGo
    /\ UNCHANGED <<release, shown, plugin, companion, instal, installer, pcounts>>

\* Only an activation runs the self test.
HolderExtract ==
    /\ Locked /\ rowHolder.pc = "extract"
    /\ \/ /\ rowHolder' = [rowHolder EXCEPT !.pc = IF rowHolder.kind = "activate" THEN "test"
                                                  ELSE "commit"]
          /\ UNCHANGED staging
       \/ LetRowGo
    /\ UNCHANGED <<release, shown, plugin, companion, instal, installer, pcounts>>

HolderSelfTest ==
    /\ Locked /\ rowHolder.pc = "test"
    /\ \/ rowHolder' = [rowHolder EXCEPT !.pc = "commit"] /\ UNCHANGED staging
       \/ LetRowGo
    /\ UNCHANGED <<release, shown, plugin, companion, instal, installer, pcounts>>

\* The record that was staged or is gone back to becomes active, and the row
\* gets the version of the manifest that was fetched now.
\* VERIFIED is never reached: verify_artifact_signature refuses everything.
NewTrust == IF plugin.trust # "UNTRUSTED" THEN plugin.trust ELSE "USER_PROVIDED"
SwapIn(r) ==
    LET row == PluginRow(plugin.id, r, NewTrust, "dormant")
    IN  /\ plugin' = row
        /\ companion' = IF companion = NoPlugin THEN NoPlugin ELSE Companion(row)

ActivateCommit ==
    /\ rowHolder.kind = "activate" /\ rowHolder.pc = "commit"
    /\ SwapIn(rowHolder.r)
    /\ instal' = [instal EXCEPT ![rowHolder.r.v].status = "active", ![rowHolder.r.v].at = ops]
    /\ LetRowGo
    /\ UNCHANGED <<release, shown, installer, pcounts>>

RollbackCommit ==
    /\ rowHolder.kind = "rollback" /\ rowHolder.pc = "commit"
    /\ SwapIn(rowHolder.r)
    /\ instal' = [instal EXCEPT ![plugin.version].status = "rolled_back",
                                ![rowHolder.r.v].status = "active", ![rowHolder.r.v].at = ops]
    /\ LetRowGo
    /\ UNCHANGED <<release, shown, installer, pcounts>>

-----------------------------------------------------------------------------
PatchPlugin(st, trust) ==
    /\ Installed /\ ~Locked /\ ops < MaxPluginOps /\ ops' = ops + 1
    /\ plugin' = [plugin EXCEPT !.state = st, !.trust = trust]
    /\ companion' = IF companion = NoPlugin THEN NoPlugin ELSE [companion EXCEPT !.trust = trust]
    /\ UNCHANGED <<release, shown, instal, installer, rowHolder, staging, crashed>>

DeletePlugin ==
    /\ Installed /\ ~Locked
    /\ plugin' = NoPlugin /\ companion' = NoPlugin
    /\ instal' = [v \in Releases |-> NoInstall]     \* ON DELETE CASCADE
    /\ UNCHANGED <<release, shown, installer, rowHolder, staging, pcounts>>

\* The server stops: transactions are rolled back, no guard runs.  Nothing
\* clears the directories when it starts.
PluginServerCrash ==
    /\ ~crashed /\ crashed' = TRUE
    /\ installer' = [i \in Installers |->
          IF installer[i].pc = "idle" THEN installer[i] ELSE [pc |-> "ended"]]
    /\ rowHolder' = NoPlugin
    /\ staging' = IF staging = {} THEN {} ELSE {"left"}
    /\ UNCHANGED <<release, shown, plugin, companion, instal, ops>>

PluginsNext ==
    \/ \E v \in Releases :
          \/ MoveTag(v) \/ ReplaceArtifact(v) \/ PreviewPlugin(v) \/ UpgradeResolve(v)
          \/ Activate(v) \/ Rollback(v)
          \/ \E i \in Installers : InstallResolve(i, v)
    \/ \E i \in Installers :
          \/ InstallDownload(i) \/ InstallExtract(i) \/ InstallSelfTest(i) \/ InstallCommit(i)
          \/ InstallDropped(i)
    \/ UpgradeCommit \/ HolderDownload \/ HolderExtract \/ HolderSelfTest
    \/ ActivateCommit \/ RollbackCommit \/ HolderDropped
    \/ \E t \in {"UNTRUSTED", "EXTERNAL"} : PatchPlugin("enabled", t)
    \/ DeletePlugin \/ PluginServerCrash

PluginsSpec == PluginsInit /\ [][PluginsNext]_pvars

-----------------------------------------------------------------------------
PluginsTypeOK ==
    /\ Installed => /\ plugin.version \in Releases /\ plugin.digest \in 1 .. MaxPublished
                    /\ plugin.manifest \in 1 .. MaxPublished
                    /\ plugin.state \in {"dormant", "enabled", "staged"}
    /\ \A v \in Releases : instal[v].status \in {"none", "staged", "active", "rolled_back"}
    /\ rowHolder.kind \in {"none", "upgrade", "activate", "rollback"}

(***************************************************************************)
(* What runs is what was approved: the artifact of the installed plugin is *)
(* one that a preview showed the operator or a staged upgrade recorded,    *)
(* although the release may be published again between the preview, the    *)
(* download and the activation; an active installation carries the same    *)
(* digest; the companion book names the version and trust of the row.      *)
(* Nothing is tested from an archive with a link or with more files than   *)
(* the limit, and a staging directory has its request, but for what a      *)
(* dropped handler's thread or a stop of the server left.  (The manifest   *)
(* is not pinned: it is read where the tag is now, and the version of the  *)
(* row need not be the one of the installation.)                           *)
(***************************************************************************)
PluginAsApproved ==
    /\ Installed =>
        /\ plugin.digest \in shown
        /\ \E v \in Releases : instal[v].status = "active" /\ instal[v].digest = plugin.digest
        /\ companion # NoPlugin => companion.version = plugin.version /\ companion.trust = plugin.trust
    /\ staging \ {"left"} \subseteq
          {i \in Installers : installer[i].pc \in {"download", "extract", "test", "commit"}}
              \cup (IF Locked THEN {"holder"} ELSE {})
    /\ \A i \in Installers : installer[i].pc = "test" =>
          LET a == installer[i].archive
          IN  FilesIn(a) <= MaxEntries /\ \A n \in DOMAIN a : a[n] # "link"
=============================================================================
