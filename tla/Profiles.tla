------------------------------ MODULE Profiles ------------------------------
(***************************************************************************)
(* The profiles of managers/profilemanager.py: one file for each, and the  *)
(* main config, which lists them and names the one selected last.          *)
(* configurations/bootup.py repairs them when the program starts, and      *)
(* webpage_handlers/handleprofiles.py applies what the page answers.       *)
(*                                                                         *)
(* A handler runs without an await, so it is not interleaved with others;  *)
(* but the program may be killed between any two writes, and while a file  *)
(* is truncated for one.  A handler is modelled as the calls it has still  *)
(* to make to the profile manager, each the sequence of its writes.  What  *)
(* the page sends is not validated, so an answer may raise at any profile; *)
(* handlesignals.submit logs that, and the program goes on without loading *)
(* the profiles again.                                                     *)
(***************************************************************************)
EXTENDS Integers, Sequences, FiniteSets, SequencesExt

CONSTANTS
    File,           \* names of profile files
    Lower,          \* Lower[f]: f as configparser keeps it, in lower case
    Default,        \* const.DEFAULT_PROFILE_NAME
    CaseSensitive,  \* whether the file system tells f from Lower[f]
    Earlier,        \* profiles that earlier runs of the program have left
    Page,           \* connections of pages
    MaxAnswers,     \* bound: answers and selections of pages
    MaxKills        \* bound: how often the program is killed

ASSUME FileAssumption ==
    /\ IsFiniteSet(File)
    /\ Default \in File
    /\ Lower \in [File -> File]
    /\ \A f \in File : Lower[Lower[f]] = Lower[f]
    /\ Lower[Default] = Default
    /\ Earlier \subseteq {f \in File : Lower[f] = f}
ASSUME BoundAssumption ==
    /\ CaseSensitive \in BOOLEAN
    /\ {MaxAnswers, MaxKills} \subseteq Nat

VARIABLES
    files,     \* files[f]: a profile file on disk
    disk,      \* the main config on disk
    conf,      \* ProfileManager._main_config
    plist,     \* the file names of ProfileManager.PROFILE_LIST
    touched,   \* history: the profiles, as Lower has them, that answers have removed,
               \* renamed, made or damaged since the profiles were loaded
    mode,      \* "down", "boot", "ready", or "failed" if start-up raised
    todo,      \* the calls the running handler has still to make, each its writes
    offers,    \* offers[p]: the list of profiles page p has not answered yet, if any
    answers, kills,
    cut,       \* a selection was not written to its end
    noDefault  \* the default profile was deleted, renamed or damaged, and
               \* the program has not been started since

profilesVars == <<files, disk, conf, plist, touched, mode, todo, offers, answers, kills, cut, noDefault>>

Config == [listed : SUBSET File, selected : SUBSET File]
Write == [op : {"trunc", "fill", "part", "unlink", "list", "unlist", "unselect", "select",
                "save", "append", "load"}, file : File]
         \cup [op : {"rename", "refile"}, file : File, to : File]

ProfilesTypeOK ==
    /\ files \in [File -> {"none", "bad", "good"}]
    /\ disk \in [whole : BOOLEAN, config : Config]
    /\ conf \in Config
    /\ plist \subseteq File
    /\ touched \subseteq File
    /\ mode \in {"down", "boot", "ready", "failed"}
    /\ todo \in Seq(Seq(Write))
    /\ offers \in [Page -> SUBSET SUBSET File]
    /\ answers \in 0..MaxAnswers
    /\ kills \in 0..MaxKills
    /\ cut \in BOOLEAN
    /\ noDefault \in BOOLEAN

(* As the repository ships the files, only the default profile is listed,  *)
(* and a profile that is not there is the selected one.                    *)
ProfilesInit ==
    /\ files = [f \in File |-> IF f \in Earlier \cup {Default} THEN "good" ELSE "none"]
    /\ \E last \in File \ {Default} :
        disk = [whole |-> TRUE, config |-> [listed |-> Earlier \cup {Default},
                                            selected |-> {Lower[last]}]]
    /\ conf = [listed |-> {}, selected |-> {}]
    /\ plist = {}
    /\ touched = {}
    /\ mode = "down"
    /\ todo = <<>>
    /\ offers = [p \in Page |-> {}]
    /\ answers = 0
    /\ kills = 0
    /\ cut = FALSE
    /\ noDefault = FALSE

-----------------------------------------------------------------------------
(* The file that a name opens.                                             *)
OnDisk(f) == IF CaseSensitive THEN f ELSE Lower[f]

(* get_profile_data: the file is there, with all the keys of a profile.    *)
Valid(f) == files[OnDisk(f)] = "good"

Do(op, f) == [op |-> op, file |-> f]

(* __write_to_main_config and __remove_from_main_config: the parser in     *)
(* memory is changed, then the file truncated and written.                 *)
Enlist(f) == <<Do("list", f), Do("save", f)>>
Unlist(f) == <<Do("unlist", f), Do("save", f)>>

(* save_profiles, and the writing of a new file.                           *)
SaveProfile(f) == <<Do("trunc", f), Do("fill", f)>>

DeleteProfile(f) == <<Do("unlink", f)>> \o Unlist(f)

(* add_profile.  With settings that lack a key the file is written and     *)
(* listed too, and what raises is reading it for PROFILE_LIST.             *)
AddProfile(f) == SaveProfile(f) \o Enlist(f) \o <<Do("append", f)>>
AddLacking(f) == <<Do("trunc", f), Do("part", f)>> \o Enlist(f) \o <<Do("append", f)>>

(* write_default_profile: the file, then its entry in the main config.     *)
WriteDefaultProfile == SaveProfile(Default) \o Enlist(Default)

(* edit_profile with another user name: the file is renamed first, and the *)
(* object takes the new name once the main config has it.                  *)
Move(op, f, g) == [op |-> op, file |-> f, to |-> g]
RenameProfile(f, g) ==
    <<Move("rename", f, g)>> \o Unlist(f) \o Enlist(g) \o <<Move("refile", f, g)>> \o SaveProfile(g)

(* write_selected_profile: two writes of the main config.                  *)
SelectProfile(f) == <<Do("unselect", f), Do("save", f), Do("select", f), Do("save", f)>>

(* One call for each element of S.                                         *)
ForAll(S, Call(_)) == [i \in 1..Cardinality(S) |-> Call(SetToSeq(S)[i])]

LoadProfiles == <<Do("load", Default)>>

(* The write that is next, and what is to be done after it.                *)
Following == Head(Head(todo))
Rest == (IF Len(Head(todo)) = 1 THEN <<>> ELSE <<Tail(Head(todo))>>) \o Tail(todo)

-----------------------------------------------------------------------------
BootMutant ==
    /\ mode = "down"
    /\ IF disk.whole
       THEN /\ mode' = "boot"
            /\ conf' = disk.config
            /\ todo' = (IF files[Default] = "none" THEN <<SaveProfile(Default)>> ELSE <<>>)
                       \o <<LoadProfiles>>
       ELSE mode' = "failed" /\ UNCHANGED <<conf, todo>>
    /\ UNCHANGED <<files, disk, plist, touched, offers, answers, kills, cut, noDefault>>

(* initiate_bootup: without its sections, the main config fails it; a      *)
(* default profile that is missing is written, and listed, and the main    *)
(* config is written in any case.  load_profiles_to_program is next.       *)
Boot ==
    /\ mode = "down"
    /\ IF disk.whole
       THEN /\ mode' = "boot"
            /\ conf' = disk.config
            /\ todo' = (IF files[Default] = "none" THEN <<WriteDefaultProfile>> ELSE <<>>)
                       \o <<Enlist(Default), LoadProfiles>>
       ELSE mode' = "failed" /\ UNCHANGED <<conf, todo>>
    /\ UNCHANGED <<files, disk, plist, touched, offers, answers, kills, cut, noDefault>>

LoadMutant ==
    /\ todo # <<>> /\ Following.op = "load"
    /\ conf' = disk.config
    /\ LET bad == {f \in disk.config.listed : ~Valid(f)} IN
        /\ noDefault' = (noDefault \/ Default \in bad)
        /\ plist' = plist \cup (disk.config.listed \ bad)
        /\ touched' = {}
        /\ todo' = ForAll(bad, DeleteProfile)
    /\ mode' = "ready"
    /\ UNCHANGED <<files, disk, offers, answers, kills, cut>>

RaiseMutant ==
    /\ todo # <<>> /\ Following.op = "load"
    /\ conf' = disk.config
    /\ LET bad == {f \in disk.config.listed : ~Valid(f)}
           raises == mode = "boot" /\ bad # {} IN
        /\ noDefault' = (noDefault \/ Default \in bad)
        /\ plist' = disk.config.listed \ bad
        /\ touched' = {}
        /\ todo' = IF raises THEN <<>> ELSE ForAll(bad, DeleteProfile)
        /\ mode' = IF raises THEN "failed" ELSE "ready"
    /\ UNCHANGED <<files, disk, offers, answers, kills, cut>>

(* load_profiles_to_program, and refresh_profile_list once the program is  *)
(* up: a listed profile whose file is missing or incomplete is deleted.    *)
Load ==
    /\ todo # <<>> /\ Following.op = "load"
    /\ conf' = disk.config
    /\ LET bad == {f \in disk.config.listed : ~Valid(f)} IN
        /\ noDefault' = (noDefault \/ Default \in bad)
        /\ plist' = disk.config.listed \ bad
        /\ touched' = {}
        /\ todo' = ForAll(bad, DeleteProfile)
    /\ mode' = "ready"
    /\ UNCHANGED <<files, disk, offers, answers, kills, cut>>

(* One write to a profile file.  A file that cannot be deleted stays, and  *)
(* one that is not there cannot be renamed.                                *)
FileStep ==
    /\ todo # <<>>
    /\ LET w == Following IN
        \/ /\ w.op = "trunc"
           /\ files' = [files EXCEPT ![OnDisk(w.file)] = "bad"]
        \/ /\ w.op = "fill"
           /\ files' = [files EXCEPT ![OnDisk(w.file)] = "good"]
        \/ /\ w.op = "part"
           /\ files' = [files EXCEPT ![OnDisk(w.file)] = "bad"]
        \/ /\ w.op = "unlink"
           /\ files' \in {files, [files EXCEPT ![OnDisk(w.file)] = "none"]}
        \/ /\ w.op = "rename" /\ files[OnDisk(w.file)] # "none"
           /\ files' = [files EXCEPT ![OnDisk(w.to)] = files[OnDisk(w.file)],
                                     ![OnDisk(w.file)] = "none"]
    /\ todo' = Rest
    /\ UNCHANGED <<disk, conf, plist, touched, mode, offers, answers, kills, cut, noDefault>>

(* PROFILE_LIST gets the new profile, if its file reads as one, or the     *)
(* new file name of a renamed one.                                         *)
ListStep ==
    /\ todo # <<>>
    /\ LET w == Following IN
        \/ w.op = "append" /\ Valid(w.file) /\ plist' = plist \cup {w.file}
        \/ w.op = "refile" /\ plist' = (plist \ {w.file}) \cup {w.to}
    /\ todo' = Rest
    /\ UNCHANGED <<files, disk, conf, touched, mode, offers, answers, kills, cut, noDefault>>

(* An answer raises, for a name that open or rename does not take, a value *)
(* that cannot be written, or a profile that is not there or lacks a key.  *)
(* The exception is logged; what the handler has still to do, the loading  *)
(* of the profiles included, is not done.                                  *)
Raise ==
    /\ mode = "ready" /\ todo # <<>>
    /\ \/ Following.op \in {"trunc", "fill", "rename"}
       \/ Following.op = "append" /\ ~Valid(Following.file)
    /\ todo' = <<>>
    /\ touched' = touched \cup {Lower[Following.file]}
    /\ UNCHANGED <<files, disk, conf, plist, mode, offers, answers, kills, cut, noDefault>>

(* A change of the parser in memory, with the truncation of its file.      *)
ConfigStep ==
    /\ todo # <<>>
    /\ LET w == Following IN
        \/ w.op = "list" /\ conf' = [conf EXCEPT !.listed = @ \cup {Lower[w.file]}]
        \/ w.op = "unlist" /\ conf' = [conf EXCEPT !.listed = @ \ {Lower[w.file]}]
        \/ w.op = "unselect" /\ conf' = [conf EXCEPT !.selected = {}]
        \/ w.op = "select" /\ conf' = [conf EXCEPT !.selected = {Lower[w.file]}]
    /\ disk' = [disk EXCEPT !.whole = FALSE]
    /\ cut' = CASE Following.op = "unselect" -> TRUE
                [] Following.op = "select" -> FALSE
                [] OTHER -> cut
    /\ todo' = Rest
    /\ UNCHANGED <<files, plist, touched, mode, offers, answers, kills, noDefault>>

SaveConfig ==
    /\ todo # <<>> /\ Following.op = "save"
    /\ disk' = [whole |-> TRUE, config |-> conf]
    /\ todo' = Rest
    /\ UNCHANGED <<files, conf, plist, touched, mode, offers, answers, kills, cut, noDefault>>

(* The program is killed; what it had in memory is gone, and the pages'    *)
(* connections with it.                                                    *)
Kill ==
    /\ mode # "down" /\ kills < MaxKills
    /\ kills' = kills + 1
    /\ mode' = "down"
    /\ conf' = [listed |-> {}, selected |-> {}]
    /\ plist' = {}
    /\ touched' = {}
    /\ todo' = <<>>
    /\ offers' = [p \in Page |-> {}]
    /\ noDefault' = FALSE
    /\ UNCHANGED <<files, disk, answers, cut>>

-----------------------------------------------------------------------------
Quiet == mode = "ready" /\ todo = <<>>

(* all_profiles: a selected profile that is not in the list gives way to   *)
(* the default one; without a selection, or a default, it raises.          *)
AllProfilesRaises ==
    conf.selected = {} \/ (~(conf.selected \subseteq plist) /\ Default \notin plist)

(* align_profiles up to its await: page p is asked about the profiles.     *)
(* With expect_reply, front_end_data_dispatcher registers the reply and    *)
(* does not send the question; that pages answer with a list they were     *)
(* given is an assumption about them.                                      *)
OfferProfiles(p) ==
    /\ Quiet /\ ~AllProfilesRaises
    /\ offers[p] = {}
    /\ offers' = [offers EXCEPT ![p] = {plist}]
    /\ UNCHANGED <<files, disk, conf, plist, touched, mode, todo, answers, kills, cut, noDefault>>

(* A file name that __uniquify makes has not been used before.             *)
Fresh == {f \in File \ {Default} : \A g \in File : Lower[g] = Lower[f] =>
            files[g] = "none" /\ g \notin plist \cup conf.listed}

(* configure_further_profile_data: the profiles gone are deleted, then the *)
(* others are taken one by one, and added, edited, or edited to another    *)
(* name.                                                                   *)
Configure(gone, added, moved, name, edited) ==
    ForAll(gone, DeleteProfile) \o ForAll(added, AddProfile)
    \o ForAll(moved, LAMBDA f : RenameProfile(f, name)) \o ForAll(edited, SaveProfile)

(* align_profiles after its await.  Profiles the answer leaves out are     *)
(* deleted; those the program does not have (a new one, and ones that are  *)
(* gone since the page got its list) are added under a new name, and the   *)
(* others edited, one of them perhaps to another name.  Then all profiles  *)
(* are loaded again; unless, with only some of them done, the next profile *)
(* raises before anything is written (an id that is no number, the key     *)
(* 'selected' that all_profiles adds), or is a new one that lacks a key.   *)
Answer(p) ==
    /\ Quiet /\ ~AllProfilesRaises
    /\ answers < MaxAnswers
    /\ answers' = answers + 1
    /\ offers' = [offers EXCEPT ![p] = {}]
    /\ \E offer \in offers[p] : \E kept \in SUBSET offer, new \in SUBSET Fresh :
       \E moved \in SUBSET (kept \cap plist), lacking \in SUBSET new :
       \E edited \in SUBSET ((kept \cap plist) \ moved) :
       \E name \in IF moved = {} THEN {Default} ELSE new \ lacking :
        LET gone == plist \ kept
            added == new \ (lacking \cup {name})
            calls == Configure(gone, added, moved, name, edited)
        IN
        /\ Cardinality(moved) <= 1 /\ Cardinality(lacking) <= 1
        /\ Cardinality(added) <= Cardinality(kept \ plist) + 1
        /\ \/ /\ lacking = {} /\ edited = (kept \cap plist) \ moved
              /\ Cardinality(added) >= Cardinality(kept \ plist)
              /\ todo' = calls \o <<LoadProfiles>>
           \/ todo' = calls \o ForAll(lacking, AddLacking)
        /\ touched' = touched \cup {Lower[f] : f \in gone \cup moved \cup new}
        /\ noDefault' = (noDefault \/ Default \in gone \cup moved)
    /\ UNCHANGED <<files, disk, conf, plist, mode, kills, cut>>

(* all_profiles is called again to see what was removed, and raises.       *)
AnswerRaises(p) ==
    /\ Quiet /\ AllProfilesRaises
    /\ offers[p] # {}
    /\ offers' = [offers EXCEPT ![p] = {}]
    /\ UNCHANGED <<files, disk, conf, plist, touched, mode, todo, answers, kills, cut, noDefault>>

(* set_selected_profile.  What matches no profile is written all the same, *)
(* until its file name is asked for: the old selection is gone by then.    *)
SetSelected ==
    /\ Quiet
    /\ answers < MaxAnswers
    /\ answers' = answers + 1
    /\ \/ \E f \in plist : todo' = <<SelectProfile(f)>>
       \/ todo' = << <<Do("unselect", Default), Do("save", Default)>> >>
    /\ UNCHANGED <<files, disk, conf, plist, touched, mode, offers, kills, cut, noDefault>>

ProfilesNext ==
    \/ Boot \/ Load \/ FileStep \/ ConfigStep \/ SaveConfig \/ ListStep \/ Raise \/ Kill
    \/ SetSelected
    \/ \E p \in Page : OfferProfiles(p) \/ Answer(p) \/ AnswerRaises(p)

(* The program is started again after it was killed, and runs what it has  *)
(* begun; nothing is assumed of the pages.                                 *)
ProfilesSpec == ProfilesInit /\ [][ProfilesNext]_profilesVars
        /\ WF_profilesVars(Boot)
        /\ WF_profilesVars(Load \/ FileStep \/ ConfigStep \/ SaveConfig \/ ListStep \/ Raise)

-----------------------------------------------------------------------------
(* profilemanager.all_profiles: between two handlers the main config in    *)
(* memory and on disk agree, and the program offers exactly the profiles   *)
(* listed there, each with its file, wherever it was killed before.  Only  *)
(* an answer that raised leaves more, until the profiles are loaded again: *)
(* the profiles it had itself removed, renamed, made or damaged.           *)
NoGhosts ==
    Quiet =>
        /\ disk = [whole |-> TRUE, config |-> conf]
        /\ \A f \in plist \cup conf.listed :
            Lower[f] \notin touched => f \in plist \cap conf.listed /\ Valid(f)

(* profilemanager.all_profiles raises only if a selection was cut short,   *)
(* or the default profile has gone since the program started.              *)
Offered == Quiet /\ AllProfilesRaises => cut \/ noDefault

(* bootup.initiate_bootup and load_profiles_to_program: the program comes  *)
(* up again, whatever it was killed in, unless that was a write of the     *)
(* main config.                                                            *)
Recovers ==
    mode = "down" /\ disk.whole ~> mode = "ready" \/ (mode = "down" /\ ~disk.whole)
=============================================================================
