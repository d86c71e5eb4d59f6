------------------------------ MODULE Commands ------------------------------
(***************************************************************************)
(* The commands of kernel/shell.c that change something: those on files,   *)
(* scripts, the events of the history and the name of the user, which is   *)
(* kept in CONFIG.CFG over a restart.                                      *)
(*                                                                         *)
(* A command line is a name of Line, which gives its verb and its          *)
(* arguments; a file is a sequence of lines.  The file system either does  *)
(* what a command asks or fails (module Fat says how), memory may run out. *)
(***************************************************************************)
EXTENDS Integers, Sequences

CONSTANTS
  Line,                           \* the command lines: verb, a, b
  Typed,                          \* the lines that are typed
  FileNames,
  FileLimit,                      \* lines of a file
  MAX_DEPTH,                      \* 4: script_depth
  CMD_HISTORY,                    \* HISTORY_MAX
  NAME_BUF,                       \* sizeof(username)
  MaxLines, MaxFailures           \* bounds: lines typed, failures

ABSENT == <<"absent">>
DEFAULT == <<"t">>                \* "tiger"

VARIABLES
  cmd_files,                      \* contents
  config_cfg,                     \* CONFIG.CFG
  username, saved,                \* saved: what was last stored in CONFIG.CFG
  events,                         \* history
  scripts,                        \* the calls of cmd_sh: the lines still to run
  script_depth, buffers,          \* buffers: areas allocated
  lines, failures

cmdVars == <<cmd_files, config_cfg, username, saved, events, scripts, script_depth, buffers, lines, failures>>
fileVars == <<cmd_files, config_cfg, username, saved>>

CommandsInit ==
  /\ cmd_files = [f \in FileNames |-> ABSENT] /\ config_cfg = DEFAULT /\ username = DEFAULT /\ saved = DEFAULT
  /\ events = <<>> /\ scripts = <<>> /\ script_depth = 0 /\ buffers = 0 /\ lines = 0 /\ failures = 0

UpTo(s, n) == SubSeq(s, 1, IF n < Len(s) THEN n ELSE Len(s))
GoesWell == UNCHANGED failures
GoesWrong == failures < MaxFailures /\ failures' = failures + 1

-----------------------------------------------------------------------------
(***************************************************************************)
(* Commands on files.  The write that fails leaves the file as it was, cut *)
(* or gone.                                                                *)
(***************************************************************************)
Stored(f, text) ==
  /\ \/ GoesWell /\ Len(text) <= FileLimit /\ cmd_files' = [cmd_files EXCEPT ![f] = text]
     \/ GoesWell /\ Len(text) > FileLimit /\ UNCHANGED cmd_files
     \/ GoesWrong /\ \E left \in {cmd_files[f], ABSENT, <<>>} : cmd_files' = [cmd_files EXCEPT ![f] = left]
  /\ UNCHANGED <<config_cfg, username, saved>>
Nothing == GoesWell /\ UNCHANGED fileVars
Exists(f) == cmd_files[f] # ABSENT

cmd_write(l) == l.verb = "write" /\ Stored(l.a, <<l.b>>)
cmd_append(l) == l.verb = "append" /\ Stored(l.a, IF Exists(l.a) THEN Append(cmd_files[l.a], l.b) ELSE <<l.b>>)
cmd_touch(l) == l.verb = "touch" /\ IF Exists(l.a) THEN Nothing ELSE Stored(l.a, <<>>)
cmd_cp(l) == l.verb = "cp" /\ IF l.a = l.b \/ ~Exists(l.a) THEN Nothing ELSE Stored(l.b, cmd_files[l.a])
cmd_rm(l) ==
  /\ l.verb = "rm"
  /\ cmd_files' = [cmd_files EXCEPT ![l.a] = ABSENT] /\ GoesWell /\ UNCHANGED <<config_cfg, username, saved>>
cmd_mv(l) ==
  /\ l.verb = "mv"
  /\ cmd_files' = IF l.a = l.b \/ ~Exists(l.a) \/ Exists(l.b) THEN cmd_files
                  ELSE [cmd_files EXCEPT ![l.a] = ABSENT, ![l.b] = cmd_files[l.a]]
  /\ GoesWell /\ UNCHANGED <<config_cfg, username, saved>>

cmd_user(l) ==
  /\ l.verb = "user" /\ username' = UpTo(l.a, NAME_BUF - 1)
  /\ \/ GoesWell /\ config_cfg' = username' /\ saved' = username'
     \/ GoesWrong /\ config_cfg' \in {config_cfg, ABSENT, <<>>} /\ saved' = ABSENT
  /\ UNCHANGED cmd_files

-----------------------------------------------------------------------------
(***************************************************************************)
(* Scripts.  The line that calls is gone from the caller's before.         *)
(***************************************************************************)
Taken == IF scripts = <<>> THEN <<>> ELSE [scripts EXCEPT ![Len(scripts)] = Tail(@)]
NoCall == scripts' = Taken /\ UNCHANGED <<script_depth, buffers>>

MutDepthKept(l) ==
  /\ l.verb = "sh" /\ UNCHANGED fileVars
  /\ \/ GoesWell /\ (script_depth >= MAX_DEPTH \/ cmd_files[l.a] \in {ABSENT, <<>>}) /\ NoCall
     \/ /\ script_depth < MAX_DEPTH /\ cmd_files[l.a] \notin {ABSENT, <<>>}
        /\ \/ GoesWrong /\ scripts' = Taken /\ script_depth' = script_depth + 1 /\ UNCHANGED buffers
           \/ /\ GoesWell /\ scripts' = Append(Taken, cmd_files[l.a])
              /\ script_depth' = script_depth + 1 /\ buffers' = buffers + 1
cmd_sh(l) ==
  /\ l.verb = "sh" /\ UNCHANGED fileVars
  /\ \/ GoesWell /\ (script_depth >= MAX_DEPTH \/ cmd_files[l.a] \in {ABSENT, <<>>}) /\ NoCall
     \/ /\ script_depth < MAX_DEPTH /\ cmd_files[l.a] \notin {ABSENT, <<>>}
        /\ \/ GoesWrong /\ NoCall
           \/ /\ GoesWell /\ scripts' = Append(Taken, cmd_files[l.a])
              /\ script_depth' = script_depth + 1 /\ buffers' = buffers + 1

\* What a line stands for: an event is looked up in the history once.
Meant(n, history) ==
  LET l == Line[n]
  IN IF l.verb # "!" THEN l ELSE IF l.a <= Len(history) THEN Line[history[l.a]] ELSE [verb |-> "#"]

FileCommand(l) == cmd_write(l) \/ cmd_append(l) \/ cmd_touch(l) \/ cmd_cp(l) \/ cmd_rm(l) \/ cmd_mv(l) \/ cmd_user(l)
\* A comment, an event that is not found, or an event that is itself "!n".
NoCommand(l) == l.verb \in {"#", "!"} /\ Nothing

shell_execute_line(l) == cmd_sh(l) \/ (FileCommand(l) /\ NoCall) \/ (NoCommand(l) /\ NoCall)

push_event(n) ==
  IF events # <<>> /\ events[Len(events)] = n THEN events
  ELSE IF Len(events) < CMD_HISTORY THEN Append(events, n) ELSE Append(Tail(events), n)

\* shell_handle_event for Enter.
enter_line ==
  /\ scripts = <<>> /\ lines < MaxLines /\ lines' = lines + 1
  /\ \E n \in Typed : events' = push_event(n) /\ shell_execute_line(Meant(n, events'))

script_line ==
  /\ scripts # <<>> /\ scripts[Len(scripts)] # <<>>
  /\ shell_execute_line(Meant(Head(scripts[Len(scripts)]), events))
  /\ UNCHANGED <<events, lines>>

\* cmd_sh returns.
script_end ==
  /\ scripts # <<>> /\ scripts[Len(scripts)] = <<>>
  /\ scripts' = SubSeq(scripts, 1, Len(scripts) - 1)
  /\ script_depth' = script_depth - 1 /\ buffers' = buffers - 1
  /\ UNCHANGED <<fileVars, events, lines, failures>>

\* The machine is restarted, also in the middle of a script (bound: after the last line
\* typed); shell_init reads the name.
shell_init ==
  /\ \/ GoesWell /\ username' = IF config_cfg \in {ABSENT, <<>>} THEN DEFAULT ELSE UpTo(config_cfg, NAME_BUF - 2)
     \/ GoesWrong /\ username' = DEFAULT
  /\ events' = <<>> /\ scripts' = <<>> /\ script_depth' = 0 /\ buffers' = 0
  /\ UNCHANGED <<cmd_files, config_cfg, saved, lines>>

CommandsNext == enter_line \/ script_line \/ script_end \/ (lines = MaxLines /\ shell_init)

-----------------------------------------------------------------------------
\* Whatever failed on the way, the nesting depth and the buffers are those of the
\* scripts that are running: no failure uses up the depth that scripts may have.
ScriptsBalanced == script_depth = Len(scripts) /\ buffers = Len(scripts)

\* What scripts may still do: a line of one is worth more than all of the next deeper.
Remaining(calls) ==
  LET f[i \in 0..Len(calls)] == IF i = 0 THEN 0 ELSE f[i - 1] + (Len(calls[i]) + 1) * (FileLimit + 2)^(MAX_DEPTH - i)
  IN f[Len(calls)]

\* Scripts that call each other or themselves, rewrite each other or run an event of
\* the history end: each step leaves less to do.
ScriptsEnd == scripts # <<>> => Remaining(scripts') < Remaining(scripts)

\* A name that was stored comes back after a restart (at most NAME_BUF - 2 characters).
UserKept == shell_init /\ GoesWell /\ saved # ABSENT => username' = UpTo(saved, NAME_BUF - 2)

\* The shell can run commands and scripts for ever, over failures and restarts.
CommandsSound == [][ScriptsBalanced' /\ ScriptsEnd /\ UserKept]_cmdVars
=============================================================================
