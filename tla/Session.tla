------------------------------- MODULE Session -------------------------------
(***************************************************************************)
(* A run of the program from its command line to its exit: the interactive *)
(* wizard with its prompts and warnings, auto's detection of the file      *)
(* system, and the engines as far as they can refuse to start.  What an    *)
(* engine does once it runs is in Carver, CarveCommand and FsRecovery.     *)
(***************************************************************************)
EXTENDS Integers, Sequences, FiniteSets

Engines == {"ntfs", "ext4", "carve"}
Filters == {"", "pdf", "bogus"}         \* none, a supported one, an unsupported one
Warnings == {"elevation", "mounted", "device"}

VARIABLES
    host,                 \* what the program finds: privileges, disks, devices
    fs,                   \* signatures that stand at the partition's offset
    wizard,               \* the interactive wizard asks
    step,                 \* what the program does next, "exit" at the end
    asked,                \* what the user chose: method, types, verbose, offset
    args,                 \* the arguments handed to the command that runs
    runs,                 \* engines started, each with its arguments
    shown,                \* warnings shown
    accepted,             \* warnings the user has accepted
    cancelled,            \* prompts at which the user has pressed Ctrl+C
    code                  \* exit code

disk == <<host, fs>>
user == <<asked, shown, accepted, cancelled>>
vars == <<disk, user, wizard, step, args, runs, code>>

Args == [method : Engines \cup {"auto"}, types : Filters, verbose : BOOLEAN, offset : {0, 1}]

Nothing == [method |-> "auto", types |-> "", verbose |-> FALSE, offset |-> 0]

\* The output may lie on the source's device, itself or under another name, that of
\* a mapper or of another drive letter; df may know of the directory, of its parent
\* only or of none.  Source and output may both be given by drive letters.
Hosts ==
    {h \in [elevated : BOOLEAN, disks : BOOLEAN, mounted : BOOLEAN,
            source : {"dev", "physicaldrive", "letter"}, output : {"same", "mapped", "other"},
            lettered : BOOLEAN, df : {"dir", "parent", "none"}] :
        h.lettered => h.source = "letter"}

Init ==
    /\ host \in Hosts
    /\ fs \in SUBSET {"ntfs", "ext4"}
    /\ step = "main" /\ wizard = FALSE /\ asked = Nothing /\ args = Nothing
    /\ runs = <<>> /\ shown = {} /\ accepted = {} /\ cancelled = {}
    /\ code = 0

Exit(c) == step' = "exit" /\ code' = c

GoTo(s) == step' = s /\ UNCHANGED code

-----------------------------------------------------------------------------
(* main                                                                    *)

Interactive ==
    /\ step = "main"
    /\ wizard' = TRUE /\ GoTo("elevation")
    /\ UNCHANGED <<disk, user, args, runs>>

\* A recovery command with its flags.
Command ==
    /\ step = "main"
    /\ \E a \in Args :
           /\ asked' = a /\ args' = a
           /\ GoTo(a.method)
    /\ UNCHANGED <<disk, wizard, shown, accepted, cancelled, runs>>

\* version, help, or an error of usage.
Usage ==
    /\ step = "main"
    /\ Exit(0) \/ Exit(1)
    /\ UNCHANGED <<disk, wizard, user, args, runs>>

-----------------------------------------------------------------------------
(* runInteractive                                                          *)

\* Ctrl+C at a prompt that exits on it.
CancelAt(prompt) ==
    /\ cancelled' = cancelled \cup {prompt}
    /\ Exit(0)
    /\ UNCHANGED <<asked, shown, accepted>>

\* Mutant: the answer to the warning does not matter.
WarnOnly(warning, following) ==
    /\ shown' = shown \cup {warning}
    /\ \/ accepted' = accepted \cup {warning} /\ GoTo(following)
       \/ UNCHANGED accepted /\ GoTo(following)
    /\ UNCHANGED <<asked, cancelled>>

\* A warning and tui.Confirm, whose answer is yes, no or Ctrl+C.
Warn(warning, following) ==
    /\ shown' = shown \cup {warning}
    /\ \/ accepted' = accepted \cup {warning} /\ GoTo(following) /\ UNCHANGED cancelled
       \/ UNCHANGED <<accepted, cancelled>> /\ Exit(0)
       \/ cancelled' = cancelled \cup {warning} /\ Exit(0) /\ UNCHANGED accepted
    /\ UNCHANGED asked

Elevation ==
    /\ step = "elevation"
    /\ \/ host.elevated /\ GoTo("disks") /\ UNCHANGED user
       \/ ~host.elevated /\ Warn("elevation", "disks")
    /\ UNCHANGED <<disk, wizard, args, runs>>

ListDisks ==
    /\ step = "disks"
    /\ \/ host.disks /\ GoTo("source")
       \/ ~host.disks /\ Exit(1)
    /\ UNCHANGED <<disk, wizard, user, args, runs>>

SelectSource ==
    /\ step = "source"
    /\ \/ CancelAt("source")
       \/ GoTo(IF host.mounted THEN "mounted" ELSE "output") /\ UNCHANGED user
    /\ UNCHANGED <<disk, wizard, args, runs>>

Mounted ==
    /\ step = "mounted"
    /\ Warn("mounted", "output")
    /\ UNCHANGED <<disk, wizard, args, runs>>

SelectOutput ==
    /\ step = "output"
    /\ \/ CancelAt("output")
       \/ GoTo("device") /\ UNCHANGED user
    /\ UNCHANGED <<disk, wizard, args, runs>>

\* Mutant: only the directory itself is asked of.
DfOfDirectory == host.df = "dir"

DfAnswers == host.df \in {"dir", "parent"}

\* isOnSameDevice: the drive letters are the same, or the device df names begins
\* like the source.
IsOnSameDevice ==
    /\ host.source # "physicaldrive"
    /\ host.lettered \/ DfAnswers
    /\ host.output = "same"

CheckDevice ==
    /\ step = "device"
    /\ \/ IsOnSameDevice /\ Warn("device", "method")
       \/ ~IsOnSameDevice /\ GoTo("method") /\ UNCHANGED user
    /\ UNCHANGED <<disk, wizard, args, runs>>

SelectMethod ==
    /\ step = "method"
    /\ \/ CancelAt("method")
       \/ /\ \E m \in Engines \cup {"auto"} : asked' = [asked EXCEPT !.method = m]
          /\ GoTo("types")
          /\ UNCHANGED <<shown, accepted, cancelled>>
    /\ UNCHANGED <<disk, wizard, args, runs>>

SelectTypes ==
    /\ step = "types"
    /\ \/ CancelAt("types")
       \/ /\ \E t \in Filters \ {"bogus"} : asked' = [asked EXCEPT !.types = t]
          /\ GoTo("verbose")
          /\ UNCHANGED <<shown, accepted, cancelled>>
    /\ UNCHANGED <<disk, wizard, args, runs>>

\* Ctrl+C counts as No here.
ConfirmVerbose ==
    /\ step = "verbose"
    /\ \/ /\ \E v \in BOOLEAN : asked' = [asked EXCEPT !.verbose = v]
          /\ UNCHANGED cancelled
       \/ cancelled' = cancelled \cup {"verbose"} /\ UNCHANGED asked
    /\ GoTo("confirm")
    /\ UNCHANGED <<disk, wizard, shown, accepted, args, runs>>

\* Mutant: Ctrl+C at the last prompt counts as its default.
StartOrDefault ==
    \/ GoTo("dispatch") /\ UNCHANGED user
    \/ Exit(0) /\ UNCHANGED user
    \/ GoTo("dispatch") /\ cancelled' = cancelled \cup {"confirm"}
                        /\ UNCHANGED <<asked, shown, accepted>>

StartOrNot ==
    \/ GoTo("dispatch") /\ UNCHANGED user
    \/ Exit(0) /\ UNCHANGED user
    \/ CancelAt("confirm")

ConfirmStart ==
    /\ step = "confirm"
    /\ StartOrNot
    /\ UNCHANGED <<disk, wizard, args, runs>>

Dispatch ==
    /\ step = "dispatch"
    /\ args' = [asked EXCEPT !.offset = 0]
    /\ GoTo(asked.method)
    /\ UNCHANGED <<disk, wizard, user, runs>>

-----------------------------------------------------------------------------
(* runAuto                                                                 *)

\* The filter is checked and the disk opened before anything else.
AutoStart ==
    /\ step = "auto"
    /\ \/ args.types = "bogus" /\ Exit(1)
       \/ args.types # "bogus" /\ (Exit(1) \/ GoTo("probe ntfs"))
    /\ UNCHANGED <<disk, wizard, user, args, runs>>

\* Mutant: the fallback is handed the offset too.
HandOverAll(engine) == [args EXCEPT !.method = engine]

\* The arguments for the engine: carve knows no -offset.
HandOver(engine) ==
    [args EXCEPT !.method = engine, !.offset = IF engine = "carve" THEN 0 ELSE @]

\* A signature that cannot be read counts as none.
ProbeNtfs ==
    /\ step = "probe ntfs"
    /\ \/ "ntfs" \in fs /\ args' = HandOver("ntfs") /\ GoTo("ntfs")
       \/ GoTo("probe ext4") /\ UNCHANGED args
    /\ UNCHANGED <<disk, wizard, user, runs>>

ProbeExt4 ==
    /\ step = "probe ext4"
    /\ \/ "ext4" \in fs /\ args' = HandOver("ext4") /\ GoTo("ext4")
       \/ args' = HandOver("carve") /\ GoTo("carve")
    /\ UNCHANGED <<disk, wizard, user, runs>>

-----------------------------------------------------------------------------
(* runNTFS, runExt4 and runCarve up to the scan                            *)

\* Flags (carve knows no -offset), filter, device, signature or output directory
\* are refused.
Refuse ==
    /\ step \in Engines
    /\ \/ step = "carve" /\ args.offset # 0 /\ Exit(2)
       \/ Exit(1)
    /\ UNCHANGED <<disk, wizard, user, args, runs>>

\* Mutant: runAuto does not return when runNTFS does.
RecoverAndGoOn ==
    /\ step \in Engines
    /\ args.types # "bogus"
    /\ step # "carve" => step \in fs
    /\ step = "carve" => args.offset = 0
    /\ runs' = Append(runs, args)
    /\ IF asked.method = "auto" /\ step = "ntfs" THEN GoTo("probe ext4") ELSE Exit(0)
    /\ UNCHANGED <<disk, wizard, user, args>>

Recover ==
    /\ step \in Engines
    /\ args.types # "bogus"
    /\ step # "carve" => step \in fs
    /\ step = "carve" => args.offset = 0
    /\ runs' = Append(runs, args)
    /\ Exit(0) \/ (step = "carve" /\ Exit(1))
    /\ UNCHANGED <<disk, wizard, user, args>>

Exited == step = "exit" /\ UNCHANGED vars

Wizard ==
    \/ Elevation \/ ListDisks \/ SelectSource \/ Mounted \/ SelectOutput \/ CheckDevice
    \/ SelectMethod \/ SelectTypes \/ ConfirmVerbose \/ ConfirmStart \/ Dispatch

Next ==
    \/ Interactive \/ Command \/ Usage \/ Wizard
    \/ AutoStart \/ ProbeNtfs \/ ProbeExt4 \/ Refuse \/ Recover \/ Exited

Spec == Init /\ [][Next]_vars

-----------------------------------------------------------------------------
TypeOK ==
    /\ host \in Hosts /\ fs \subseteq {"ntfs", "ext4"}
    /\ asked \in Args /\ args \in Args
    /\ \A i \in DOMAIN runs : runs[i] \in Args
    /\ shown \subseteq Warnings /\ accepted \subseteq shown
    /\ code \in 0 .. 2
    /\ runs # <<>> => step = "exit"

\* No engine touches the disk unless the user has accepted every warning and
\* cancelled at no prompt, but for that of the verbose output.
NothingWithoutConsent ==
    runs # <<>> => shown \subseteq accepted /\ cancelled \subseteq {"verbose"}

\* Whichever way an engine is reached, by command, wizard or detection, it runs
\* with the filter, verbosity and, where it has one, the offset that were asked,
\* and auto hands none of them to a command that does not know it.
ChoicesReachEngine ==
    /\ \A i \in DOMAIN runs :
           /\ runs[i].types = asked.types
           /\ runs[i].verbose = asked.verbose
           /\ runs[i].method # "carve" => runs[i].offset = asked.offset
           /\ runs[i].method = asked.method \/ asked.method = "auto"
    /\ asked.method = "auto" => code # 2

\* The wizard lets nothing be written to an output on the source's device before
\* the user has accepted that, where df places it there, itself or by its parent,
\* or where both have the same drive letter.
SameDiskAccepted ==
    /\ wizard /\ runs # <<>> /\ host.output = "same"
    /\ \/ host.source = "dev" /\ host.df # "none"
       \/ host.source = "letter" /\ host.lettered
    => "device" \in accepted
=============================================================================
