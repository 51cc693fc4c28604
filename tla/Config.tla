------------------------------- MODULE Config --------------------------------
(***************************************************************************)
(* config_manager.cpp: what the programs make of .env and config.json.     *)
(* A text is the sequence of its character codes, a file the sequence of   *)
(* its lines; env is the process's environment, a function on names.       *)
(* The values of config.json are a function from the entries it has with   *)
(* the type that is asked for: none when it is not JSON.                   *)
(***************************************************************************)
EXTENDS Naturals, Sequences, SequencesExt, FiniteSetsExt, TLC

Blank == {32, 9}
Equals == 61
Hash == 35
At == 64

\* Names are cut to their initials, the optional TRACKID to K.
Required == [username |-> <<85>>, password |-> <<80>>, host |-> <<72>>,
             rtsp_port |-> <<82>>, rtsp_path |-> <<84>>, db_file |-> <<68>>]
Trackid == <<75>>

\* The entries in the order in which they are read.
Entries ==
  <<"dist_threshold", "parallelism_threshold", "frame_cache_size", "history_size",
    "scale_x", "scale_y", "base_x", "base_y", "retry_count", "timeout_ms",
    "port1", "port2", "port3", "port4">>

Ports == {"port1", "port2", "port3", "port4"}
-----------------------------------------------------------------------------

\* Mutant: only the blanks in front are removed.
TrimmedFront(text) ==
  LET kept == {i \in 1..Len(text) : text[i] \notin Blank}
  IN  IF kept = {} THEN <<>> ELSE SubSeq(text, Min(kept), Len(text))

\* erase up to find_first_not_of and from find_last_not_of.
Trimmed(text) ==
  LET kept == {i \in 1..Len(text) : text[i] \notin Blank}
  IN  IF kept = {} THEN <<>> ELSE SubSeq(text, Min(kept), Max(kept))

\* setenv refuses the empty name, and nobody looks at what it returns.
setenv(env, key, value) == IF key = <<>> THEN env ELSE (key :> value) @@ env

EnvLine(env, line) ==
  LET found == {i \in 1..Len(line) : line[i] = Equals}
      pos == Min(found)
  IN  IF line = <<>> \/ line[1] = Hash \/ found = {} THEN env
      ELSE setenv(env, Trimmed(SubSeq(line, 1, pos - 1)),
                       Trimmed(SubSeq(line, pos + 1, Len(line))))

getenv(env, name) == env[name]

\* Without the file, or without one of the variables, config is not touched; the
\* environment keeps what the lines set, and what it had before.
load_env_variables(s, file) ==
  IF ~file.is_open THEN [s EXCEPT !.ok = FALSE]
  ELSE
    LET env == FoldLeft(EnvLine, s.env, file.lines)
        complete == \A f \in DOMAIN Required : Required[f] \in DOMAIN env
        read == [f \in DOMAIN Required |-> getenv(env, Required[f])]
        trackid == IF Trackid \in DOMAIN env THEN getenv(env, Trackid) ELSE <<>>
    IN  IF complete
          THEN [env |-> env, ok |-> TRUE,
                config |-> read @@ ("trackid" :> trackid) @@ s.config]
          ELSE [s EXCEPT !.env = env, !.ok = FALSE]

\* The entries are assigned one by one until one of them throws; the ports are
\* cleared before the first of them.
load_json_config(s, config_file) ==
  IF ~config_file.is_open THEN [s EXCEPT !.ok = FALSE]
  ELSE
    LET bad == {i \in 1..Len(Entries) : Entries[i] \notin DOMAIN config_file.values}
        n == Min(bad \cup {Len(Entries) + 1})
        read == {Entries[i] : i \in 1..(n - 1)}
        gone == IF n > 10 THEN Ports ELSE {}
        kept == DOMAIN s.config \ gone
    IN  [s EXCEPT !.ok = bad = {},
                  !.config = [e \in read |-> config_file.values[e]] @@ [e \in kept |-> s.config[e]]]

\* Both are loaded, also when the first has failed.
load_all_config(s, file, config_file) ==
  LET env == load_env_variables(s, file)
      json == load_json_config(env, config_file)
  IN  [json EXCEPT !.ok = env.ok /\ json.ok]

\* The first '@' of the password becomes "%40".
Encoded(password) ==
  LET found == {i \in 1..Len(password) : password[i] = At}
      at_pos == Min(found)
  IN  IF found = {} THEN password
      ELSE SubSeq(password, 1, at_pos - 1) \o <<37, 52, 48>>
             \o SubSeq(password, at_pos + 1, Len(password))

\* After "rtsp://".
get_rtsp_url(config) ==
  config.username \o <<58>> \o Encoded(config.password) \o <<At>> \o config.host
    \o <<58>> \o config.rtsp_port \o config.rtsp_path

=============================================================================
