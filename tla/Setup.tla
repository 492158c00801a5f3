-------------------------------- MODULE Setup --------------------------------
(***************************************************************************)
(* The commands that put llm-guard's files in place: `llmguard install`,   *)
(* `init` and `models pull` (internal/install, internal/config,            *)
(* internal/llamacpp/download.go, cmd/llmguard/main.go).  Each runs in a   *)
(* terminal of its own.  They share the configuration and the downloaded   *)
(* files, and nothing locks any of them.                                   *)
(***************************************************************************)
EXTENDS ShellProfile

CONSTANTS Term,        \* terminals, each running one command at a time
          Nobody,      \* no terminal
          Tag,         \* releases of llama.cpp
          Selections,     \* selections of agents
          Flag,        \* what --upstream names, "" where it is not given
          Given        \* the homes to begin with, and the commands given in each

Entry == {"llama-server", "library"}     \* of a release archive
Op == {"install", "init", "pull"}

ASSUME SelectionsAssumption == Selections \subseteq (SUBSET Agent) \ {{}}
ASSUME TermAssumption == Nobody \notin Term
ASSUME TagAssumption == Tag \cap {"none", "absent", "broken", "cut"} = {}
ASSUME GivenAssumption ==
    \A g \in Given : g.profile \in Text /\ g.settings \in Settings /\ g.left \in [Op -> Nat]

VARIABLES config,      \* config.yaml, NoConfig if there is none
          agents,      \* the saved agents
          profile,     \* the shell profile
          settings,    \* ~/.claude/settings.json
          bin,         \* the files of each release
          model,       \* the GGUF model
          tmp,         \* the model's download, .tmp
          job,         \* the command of each terminal
          left,        \* how many commands are still to come (bound of the model)
          last,        \* the install that ended last, with nothing begun since (history)
          merged,      \* config.yaml with every command's change (history)
          lost,        \* a change of config.yaml was undone or cut short (history)
          torn,        \* config.yaml was left half written (history)
          overlap,     \* a download began over one still running (history)
          cut          \* files left out when an extraction was cut short (history)

files == <<bin, model, tmp>>
home == <<agents, profile, settings, last>>
past == <<merged, lost, torn>>
vars == <<config, agents, profile, settings, bin, model, tmp, job, left,
          last, merged, lost, torn, overlap, cut>>

Upstream == {"", "openai", "anthropic"} \cup Flag

(* The fields of Config that a command changes.  server_path and model_path
   are set together, and "cut" is a value of which only a part was written. *)
Config == [upstream : Upstream \cup {"cut"}, paths : Tag \cup {"none", "cut"}, enabled : BOOLEAN]
Default == [upstream |-> "", paths |-> "none", enabled |-> FALSE]
NoConfig == [upstream |-> "", paths |-> "absent", enabled |-> FALSE]
Broken == [upstream |-> "", paths |-> "broken", enabled |-> FALSE]    \* does not parse

(* A file, whether it is complete, and who opened it last while it is not. *)
File == [there : BOOLEAN, full : BOOLEAN, by : Term \cup {Nobody}]
Absent == [there |-> FALSE, full |-> FALSE, by |-> Nobody]
Opened(t) == [there |-> TRUE, full |-> FALSE, by |-> t]
Full == [there |-> TRUE, full |-> TRUE, by |-> Nobody]

Idle == [op |-> "none", at |-> "idle", cfg |-> Default, fresh |-> TRUE,
         agents |-> {}, write |-> FALSE, tidy |-> FALSE,
         tag |-> "none", force |-> FALSE, todo |-> {}, open |-> "none", fd |-> "none"]

Place == {"idle", "truncate", "save", "agents", "profile", "settings",
          "release", "unpack", "open", "copy", "rename", "answer"}

Job == [op : Op \cup {"none"},
        at : Place,
        cfg : Config,                         \* as loaded, then as changed
        fresh : BOOLEAN,                      \* config.yaml is as it was loaded (history)
        agents : SUBSET Agent,                \* install: the agents to set up,
        write : BOOLEAN,                      \*   not --no-profile,
        tidy : BOOLEAN,                       \*   a tidy profile was written (history)
        tag : Tag \cup {"none"},              \* pull: the release,
        force : BOOLEAN,                      \*   --force,
        todo : SUBSET Entry,                  \*   the files still to extract,
        open : Entry \cup {"none"},           \*   the one being extracted,
        fd : {"none", "tmp", "model", "gone"}] \*  where the download now goes

Outcome == [agents : SUBSET Agent, tidy : BOOLEAN, warned : BOOLEAN]
None == [agents |-> {}, tidy |-> FALSE, warned |-> FALSE]

TypeOK ==
    /\ config \in Config \cup {NoConfig, Broken}
    /\ agents \subseteq Agent
    /\ profile \in Text
    /\ settings \in Settings
    /\ bin \in [Tag -> [Entry -> File]]
    /\ model \in File /\ tmp \in File
    /\ job \in [Term -> Job]
    /\ left \in [Op -> Nat]
    /\ last \in Outcome
    /\ merged \in Config \cup {NoConfig}
    /\ lost \in BOOLEAN /\ torn \in BOOLEAN /\ overlap \in BOOLEAN
    /\ cut \subseteq Tag \X Entry

Init ==
    /\ config = NoConfig /\ merged = NoConfig
    /\ agents = {}
    /\ \E g \in Given : profile = g.profile /\ settings = g.settings /\ left = g.left
    /\ bin = [b \in Tag |-> [f \in Entry |-> Absent]]
    /\ model = Absent /\ tmp = Absent
    /\ job = [t \in Term |-> Idle]
    /\ last = None
    /\ lost = FALSE /\ torn = FALSE /\ overlap = FALSE /\ cut = {}
-----------------------------------------------------------------------------
(* The command in t ends, or goes to its next call. *)
Over(t) == job' = [job EXCEPT ![t] = Idle]
Goto(t, from, to) == job[t].at = from /\ job' = [job EXCEPT ![t].at = to]

Starts(t, op, j) ==
    /\ job[t] = Idle
    /\ left[op] > 0
    /\ left' = [left EXCEPT ![op] = @ - 1]
    /\ job' = [job EXCEPT ![t] = j]

(* config.Load, or the defaults where there is no file.  A file that was
   truncated is empty and loads as the defaults as well; one that does not
   parse is an error, and the command ends before it has done anything.  Slip:
   a missing file is taken for an empty configuration. *)
AsItIs == config
Load == IF config = NoConfig THEN Default ELSE config
Loads == config # Broken

(* config.Save is os.WriteFile: the file is truncated, then written.  What
   other commands have loaded is out of date by then. *)
Outdated(t, at) ==
    job' = [u \in Term |->
              IF u = t THEN IF at = "idle" THEN Idle ELSE [job[t] EXCEPT !.at = at]
              ELSE [job[u] EXCEPT !.fresh = IF job[u].op = "none" THEN @ ELSE FALSE]]

Truncate(t) ==
    /\ job[t].at = "truncate"
    /\ config' = Default
    /\ Outdated(t, "save")
    /\ lost' = (lost \/ ~job[t].fresh)
    /\ UNCHANGED <<merged, torn, left, cut, overlap>> /\ UNCHANGED files /\ UNCHANGED home

(* What the file should be when no change is lost. *)
Change(t) ==
    LET was == IF merged = NoConfig THEN Default ELSE merged
        cfg == job[t].cfg
    IN  CASE job[t].op = "install" -> [was EXCEPT !.upstream = cfg.upstream]
          [] job[t].op = "pull" -> [was EXCEPT !.paths = cfg.paths, !.enabled = cfg.enabled]
          [] OTHER -> IF merged = NoConfig THEN cfg ELSE merged

Save(t) ==
    /\ job[t].at = "save"
    /\ config' = job[t].cfg
    /\ Outdated(t, IF job[t].op = "install" THEN "agents" ELSE "idle")
    /\ merged' = Change(t)
    /\ lost' = (lost \/ ~job[t].fresh)
    /\ UNCHANGED <<torn, left, cut, overlap>> /\ UNCHANGED files /\ UNCHANGED home

(* The write ends early: the disk is full, or the command is interrupted.  The
   YAML names the upstream first, then enabled, then the paths; what is left
   is a part of it, or does not parse.  (Where nothing is left, see Dies.) *)
Partly(cfg) ==
    {Broken, [Default EXCEPT !.upstream = cfg.upstream], [cfg EXCEPT !.paths = "none"], cfg}
    \cup (IF cfg.upstream = "" THEN {} ELSE {[Default EXCEPT !.upstream = "cut"]})
    \cup (IF cfg.paths = "none" THEN {} ELSE {[cfg EXCEPT !.paths = "cut"]})

SaveFails(t) ==
    /\ job[t].at = "save"
    /\ config' \in Partly(job[t].cfg)
    /\ Outdated(t, "idle")
    /\ lost' = TRUE /\ torn' = TRUE
    /\ UNCHANGED <<merged, left, cut, overlap>> /\ UNCHANGED files /\ UNCHANGED home

(* initCmd: nothing happens when there is a file. *)
InitConfig(t) ==
    /\ config = NoConfig
    /\ \E up \in Upstream \ {""} :
          Starts(t, "init", [Idle EXCEPT !.op = "init", !.at = "truncate",
                                         !.cfg = [Default EXCEPT !.upstream = up]])
    /\ UNCHANGED <<config, cut, overlap>>
    /\ UNCHANGED files /\ UNCHANGED home /\ UNCHANGED past
-----------------------------------------------------------------------------
(* llmguard install.  Nobody runs two of them at once: it asks questions. *)

ResolveUpstream(chosen, flag) ==
    IF flag # "" THEN {flag}
    ELSE IF "claude" \notin chosen THEN {"openai"}
    ELSE IF chosen = {"claude"} THEN {"anthropic"}
    ELSE {"openai", "anthropic"}             \* promptUpstream

(* Slip: the configuration starts over. *)
FromDefaults(up) == [Default EXCEPT !.upstream = up]
WithUpstream(up) == [Load EXCEPT !.upstream = up]

Install(t) ==
    /\ \A u \in Term : job[u].op # "install"
    /\ Loads
    /\ \E chosen \in Selections, flag \in Flag, write \in BOOLEAN :
          \E up \in ResolveUpstream(chosen, flag) :
             Starts(t, "install", [Idle EXCEPT !.op = "install", !.at = "truncate",
                                               !.cfg = WithUpstream(up),
                                               !.agents = chosen, !.write = write])
    /\ last' = None
    /\ UNCHANGED <<config, agents, profile, settings, cut, overlap>>
    /\ UNCHANGED files /\ UNCHANGED past

Rest == UNCHANGED <<config, left, cut, overlap>> /\ UNCHANGED files /\ UNCHANGED past

SaveAgents(t) ==
    /\ Goto(t, "agents", IF job[t].write THEN "profile" ELSE "settings")
    /\ agents' = job[t].agents
    /\ Rest /\ UNCHANGED <<profile, settings, last>>

WriteProfile(t) ==
    /\ job[t].at = "profile"
    /\ profile' = WriteShellProfile(profile, job[t].agents)
    /\ job' = [job EXCEPT ![t].at = "settings", ![t].tidy = Tidy(profile)]
    /\ Rest /\ UNCHANGED <<agents, settings, last>>

(* What a write that ends early leaves of a text, cut between two pieces. *)
Beginnings(text) == Prefixes(text) \ {text}

(* A profile that cannot be opened, or not be written to the end, is a
   warning. *)
ProfileFails(t) ==
    /\ Goto(t, "profile", "settings")
    /\ profile' \in {profile} \cup Beginnings(WriteShellProfile(profile, job[t].agents))
    /\ Rest /\ UNCHANGED <<agents, settings, last>>

Ends(t, warned) ==
    /\ job[t].at = "settings"
    /\ Over(t)
    /\ last' = [agents |-> job[t].agents, tidy |-> job[t].tidy, warned |-> warned]

Merges(t) == "claude" \in job[t].agents /\ settings.file # "broken" /\ ~Panics(settings)

(* configureAgentSettings: settings that cannot be read or written, or not
   to the end, are a warning. *)
MergeSettings(t) ==
    /\ Merges(t)
    /\ settings' = MergeJSONEnv(settings)
    /\ Ends(t, FALSE)
    /\ Rest /\ UNCHANGED <<agents, profile>>

SettingsFail(t) ==
    /\ Merges(t)
    /\ settings' = BrokenSettings
    /\ Ends(t, TRUE)
    /\ Rest /\ UNCHANGED <<agents, profile>>

LeaveSettings(t) ==
    /\ "claude" \in job[t].agents => settings.file = "broken" \/ ~Panics(settings)
    /\ Ends(t, "claude" \in job[t].agents)
    /\ Rest /\ UNCHANGED <<agents, profile, settings>>

Panic(t) ==
    /\ job[t].at = "settings"
    /\ "claude" \in job[t].agents /\ Panics(settings)
    /\ Over(t)
    /\ Rest /\ UNCHANGED home

(* It ends between truncating a file and writing the last of it. *)
CutShort(t) ==
    /\ \/ /\ job[t].at = "agents" /\ agents' \in SUBSET job[t].agents
          /\ UNCHANGED <<profile, settings>>
       \/ /\ job[t].at = "profile"
          /\ profile' \in Beginnings(WriteShellProfile(profile, job[t].agents))
          /\ UNCHANGED <<agents, settings>>
       \/ /\ job[t].at = "settings" /\ Merges(t) /\ settings' = BrokenSettings
          /\ UNCHANGED <<agents, profile>>
    /\ Over(t)
    /\ Rest /\ UNCHANGED last
-----------------------------------------------------------------------------
(* llmguard models pull. *)

Pull(t) ==
    /\ Loads
    /\ \E force \in BOOLEAN :
          Starts(t, "pull", [Idle EXCEPT !.op = "pull", !.at = "release",
                                         !.cfg = Load, !.force = force])
    /\ UNCHANGED <<config, cut, overlap>>
    /\ UNCHANGED files /\ UNCHANGED home /\ UNCHANGED past

Elsewhere == UNCHANGED <<config, left>> /\ UNCHANGED home /\ UNCHANGED past

(* FetchRelease: "latest" may name any release by now.  The archive goes to a
   file of its own, and is extracted unless the server is there. *)
Release(t) ==
    /\ job[t].at = "release"
    /\ \E b \in Tag :
          job' = [job EXCEPT ![t].at = "unpack", ![t].tag = b,
                             ![t].todo = IF job[t].force \/ ~bin[b]["llama-server"].there
                                         THEN Entry ELSE {}]
    /\ UNCHANGED <<bin, model, tmp, cut, overlap>> /\ Elsewhere

(* extractTarGz, extractZip: every file is opened where it belongs, truncated
   and written. *)
Extract(t, f) ==
    /\ job[t].at = "unpack" /\ job[t].open = "none" /\ f \in job[t].todo
    /\ bin' = [bin EXCEPT ![job[t].tag][f] = Opened(t)]
    /\ job' = [job EXCEPT ![t].open = f, ![t].todo = @ \ {f}]
    /\ UNCHANGED <<model, tmp, cut, overlap>> /\ Elsewhere

(* t has written all of a file it opened.  Where another command has truncated
   it since, it is complete only if that one has got far enough. *)
Written(t, file) == {Full} \cup (IF file.by = t THEN {} ELSE {file})

(* Slip: the rest of the archive is left once the server is there. *)
ServerExtracted(t) ==
    /\ job[t].at = "unpack" /\ job[t].open # "none"
    /\ bin' = [bin EXCEPT ![job[t].tag][job[t].open] = Full]
    /\ cut' = cut \ {<<job[t].tag, job[t].open>>}
    /\ job' = [job EXCEPT ![t].open = "none", ![t].todo = @ \cap {"llama-server"}]
    /\ UNCHANGED <<model, tmp, overlap>> /\ Elsewhere
Extracted(t) ==
    /\ job[t].at = "unpack" /\ job[t].open # "none"
    /\ \E file \in Written(t, bin[job[t].tag][job[t].open]) :
          /\ bin' = [bin EXCEPT ![job[t].tag][job[t].open] = file]
          /\ cut' = IF file = Full THEN cut \ {<<job[t].tag, job[t].open>>} ELSE cut
    /\ job' = [job EXCEPT ![t].open = "none"]
    /\ UNCHANGED <<model, tmp, overlap>> /\ Elsewhere

(* The model is downloaded unless it is there. *)
FindModel(t) ==
    /\ job[t].at = "unpack" /\ job[t].open = "none" /\ job[t].todo = {}
    /\ Goto(t, "unpack", IF job[t].force \/ ~model.there THEN "open" ELSE "answer")
    /\ UNCHANGED <<bin, model, tmp, cut, overlap>> /\ Elsewhere

(* downloadToFile, to the one .tmp that all pulls use.  Slip: straight to the
   model. *)
OpenModel(t) ==
    /\ Goto(t, "open", "answer")
    /\ model' = Opened(t)
    /\ UNCHANGED <<bin, tmp, cut, overlap>> /\ Elsewhere
OpenTmp(t) ==
    /\ job[t].at = "open"
    /\ tmp' = Opened(t)
    /\ job' = [job EXCEPT ![t].at = "copy", ![t].fd = "tmp"]
    /\ overlap' = (overlap \/ \E u \in Term \ {t} : job[u].at \in {"copy", "rename"})
    /\ UNCHANGED <<bin, model, cut>> /\ Elsewhere

Copied(t) ==
    /\ job[t].at = "copy"
    /\ tmp' \in IF job[t].fd = "tmp" THEN Written(t, tmp) ELSE {tmp}
    /\ model' \in IF job[t].fd = "model" THEN Written(t, model) ELSE {model}
    /\ job' = [job EXCEPT ![t].at = "rename", ![t].fd = "none"]
    /\ UNCHANGED <<bin, cut, overlap>> /\ Elsewhere

(* What the downloads still open go to when .tmp is moved or removed. *)
Moved(fd) == CASE fd = "tmp" -> "model" [] fd = "model" -> "gone" [] OTHER -> fd
Unlinked(fd) == IF fd = "tmp" THEN "gone" ELSE fd

(* The command ends and removes .tmp, whoever wrote it. *)
GivesUp(t) ==
    /\ tmp' = Absent
    /\ job' = [u \in Term |-> IF u = t THEN Idle ELSE [job[u] EXCEPT !.fd = Unlinked(@)]]
    /\ UNCHANGED <<bin, model, cut, overlap>> /\ Elsewhere

DownloadFails(t) == job[t].at \in {"open", "copy"} /\ GivesUp(t)

Rename(t) ==
    /\ job[t].at = "rename"
    /\ tmp.there
    /\ model' = tmp /\ tmp' = Absent
    /\ job' = [u \in Term |-> IF u = t THEN [job[t] EXCEPT !.at = "answer"]
                              ELSE [job[u] EXCEPT !.fd = Moved(@)]]
    /\ UNCHANGED <<bin, cut, overlap>> /\ Elsewhere

(* Another pull has moved or removed .tmp, or the system refuses; by the time
   of the removal a third may have opened it anew.  Slip: a missing .tmp is not
   taken for an error. *)
RenameGoesOn(t) ==
    /\ Goto(t, "rename", "answer")
    /\ ~tmp.there
    /\ UNCHANGED <<bin, model, tmp, cut, overlap>> /\ Elsewhere
RenameFails(t) == job[t].at = "rename" /\ GivesUp(t)

(* The paths are set, and the fallback is enabled if the user says so. *)
WithPaths(t, yes) == [job[t].cfg EXCEPT !.paths = job[t].tag, !.enabled = @ \/ yes]
Answer(t) ==
    /\ job[t].at = "answer"
    /\ \E yes \in BOOLEAN :
          job' = [job EXCEPT ![t].at = "truncate", ![t].cfg = WithPaths(t, yes)]
    /\ UNCHANGED <<bin, model, tmp, cut, overlap>> /\ Elsewhere
-----------------------------------------------------------------------------
(* What an extraction that ends now leaves out: nothing, as long as it has
   opened no file. *)
LeftOut(t) ==
    IF job[t].at = "unpack" /\ job[t].todo # Entry
    THEN {<<job[t].tag, f>> : f \in job[t].todo \cup ({job[t].open} \cap Entry)}
    ELSE {}

(* A command is interrupted, or ends with an error that cleans up nothing. *)
Dies(t) ==
    /\ job[t] # Idle
    /\ Over(t)
    /\ lost' = (lost \/ job[t].at = "save")
    /\ cut' = cut \cup LeftOut(t)
    /\ UNCHANGED <<config, left, merged, torn, overlap>> /\ UNCHANGED files /\ UNCHANGED home

Next ==
    \E t \in Term :
        \/ Install(t) \/ InitConfig(t) \/ Pull(t)
        \/ Truncate(t) \/ Save(t) \/ SaveFails(t)
        \/ SaveAgents(t) \/ WriteProfile(t) \/ ProfileFails(t)
        \/ MergeSettings(t) \/ SettingsFail(t) \/ LeaveSettings(t) \/ Panic(t) \/ CutShort(t)
        \/ Release(t) \/ (\E f \in Entry : Extract(t, f)) \/ Extracted(t)
        \/ FindModel(t) \/ OpenTmp(t) \/ Copied(t) \/ DownloadFails(t)
        \/ Rename(t) \/ RenameFails(t) \/ Answer(t)
        \/ Dies(t)

Spec == Init /\ [][Next]_vars
-----------------------------------------------------------------------------
(* "a partial download never looks like a complete model" (download.go:122-
   124): where no download began over one that was still running, the model
   is complete from the moment it is there, however the pulls before ended. *)
ModelCompleteUnlessOverlap == model.there /\ ~overlap => model.full

(* A pull takes the server for present when its binary is there.  Every other
   file of the release is complete then (main.go:368-376), unless a command is
   extracting it or one that had begun to extract the release ended without
   it, and none has extracted it since. *)
ServerWholeUnlessCut ==
    \A b \in Tag, f \in Entry :
        /\ bin[b]["llama-server"].there
        /\ <<b, f>> \notin cut
        /\ \A t \in Term : job[t].tag = b /\ job[t].at = "unpack" =>
                             f \notin job[t].todo /\ job[t].open # f
        => bin[b][f].full

(* What config.yaml names has been downloaded: a daemon that starts with it
   finds its files (main.go:682-689), whatever pulls and installs ran in
   between and wherever they ended, unless one left it half written. *)
ConfiguredFilesExist ==
    config # NoConfig /\ ~torn =>
    /\ config.paths # "none" => bin[config.paths]["llama-server"].there /\ model.there
    /\ config.enabled => config.paths # "none"

(* The changes of all commands add up in config.yaml, unless one of them
   wrote over what it had not seen, or died while writing: install keeps what
   a pull has set, a pull what install has chosen (install.go:64-76,
   main.go:388-402). *)
EveryChangeKept ==
    ~lost /\ (\A t \in Term : job[t].at # "save") => config = merged

(* install loses no line of the user's from a profile it writes to the end, as
   long as the markers of its block are in place (install.go:331-353), and no
   variable of the user's from the settings, if that is a string: a number or
   a boolean is blanked (agentsettings.go:50-53). *)
UsersOwnKept ==
    [][\A t \in Term :
         /\ WriteProfile(t) /\ Whole(profile) => Mine(profile') = Mine(profile)
         /\ settings' # settings /\ settings.other = "string" /\ settings'.file = "object"
            => settings'.other = "string"]_vars

(* Writing the block a second time would change nothing: install can be run
   again and again and the profile does not grow (install.go:333-340). *)
ReinstallChangesNothing ==
    [][\A t \in Term :
         WriteProfile(t) /\ Whole(profile)
         => WriteShellProfile(profile', job[t].agents) = profile']_vars

(* After an install that ended `llmguard env` prints the variables of the
   agents chosen; a new shell sets the same ones, if the profile was tidy when
   install rewrote it; and Claude Code is sent to the proxy if it was chosen
   and there was no warning (install.go:78-90). *)
InstallTakesEffect ==
    last # None =>
    /\ agents = last.agents
    /\ last.tidy => Sourced(profile) = ToSet(EnvExports(agents))
    /\ "claude" \in agents /\ ~last.warned => settings.url
=============================================================================
