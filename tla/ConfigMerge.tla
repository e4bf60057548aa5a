------------------------------ MODULE ConfigMerge ------------------------------
(***************************************************************************)
(* The scopes of a configuration and how they are merged (config.c).       *)
(*                                                                         *)
(* A directive writes into the configuration of the scope it stands in:    *)
(* main server, virtual host, a Location and one inside it.  Apache merges *)
(* the directory configuration of the virtual host over that of the main   *)
(* server at startup, the Locations a request is in over each other, and   *)
(* the result over the virtual host; the server configuration it merges    *)
(* once.  Where no scope named a secret, startup fills in the one the      *)
(* module manages itself.                                                  *)
(***************************************************************************)
EXTENDS Integers, SequencesExt

CONSTANTS
    Scopes,    \* the scopes in use, of Chain
    Directives,     \* directives: [kind, value]
    MaxDirectives,  \* bound on the directives of a configuration
    Unset

LineKinds == {"knob", "secret", "rule", "row", "none", "captcha", "serverknob"}

\* What a line says is never the mark of what was not said.
ASSUME ConfigAssumption ==
    /\ Scopes \subseteq {"main", "vhost", "outer", "inner"}
    /\ Directives \subseteq [kind : LineKinds, value : STRING]
    /\ Unset \notin STRING /\ Unset # "auto"

VARIABLES
    dir,       \* directory configuration of every scope
    server,    \* server configuration of the main server and the virtual host
    started,   \* startup is over
    generated, \* the module's own secret could be read or made
    written    \* the configuration as written: <<scope, line>>, outermost first

configVars == <<dir, server, started, generated, written>>

\* From the outermost to the innermost.
Chain == <<"main", "vhost", "outer", "inner">>
Servers == {"main", "vhost"}
DepthOf(scope) == CHOOSE i \in DOMAIN Chain : Chain[i] = scope

\* bs_derive_purpose_keys: the cookie, pending and bootstrap keys of a secret.
DerivedKeys(secret) == [of |-> secret]

\* bs_create_dir_cfg, bs_create_server_cfg.
NewDir == [knob |-> Unset, secret |-> Unset, keys |-> Unset, rules |-> <<>>,
           rows |-> {}, reset |-> FALSE, captchas |-> {}]
NewServer == [rules |-> <<>>, knob |-> Unset]

ConfigInit ==
    /\ dir = [s \in ToSet(Chain) |-> NewDir]
    /\ server = [s \in Servers |-> NewServer]
    /\ started = FALSE /\ generated = FALSE
    /\ written = <<>>
-----------------------------------------------------------------------------
(* Merging. *)

OwnOr(mine, inherited) == IF mine = Unset THEN inherited ELSE mine

\* bs_merge_rule_array: a rule of the virtual host shadows those of its name.
RulesMerged(base, add) ==
    LET name(r) == r[2]
        merged[n \in 0 .. Len(base)] ==
            IF n = 0 THEN add
            ELSE IF \E i \in DOMAIN merged[n - 1] : name(merged[n - 1][i]) = name(base[n])
                 THEN merged[n - 1]
            ELSE Append(merged[n - 1], base[n])
    IN  IF add = <<>> THEN base ELSE merged[Len(base)]

ServerMerge(base, add) ==
    [rules |-> RulesMerged(base.rules, add.rules), knob |-> OwnOr(add.knob, base.knob)]

\* The rows of the scores: silence is inherited until a scope declares rows of
\* its own, with which the rows it silenced do not come back.
RowsMerged(base, add) ==
    CASE add.reset -> [reset |-> TRUE, rows |-> add.rows]
      [] ~add.reset /\ add.rows # {} ->
           [reset |-> FALSE, rows |-> IF base.reset THEN add.rows ELSE base.rows \cup add.rows]
      [] ~add.reset /\ add.rows = {} -> [reset |-> base.reset, rows |-> base.rows]

\* Mutant: the secret is taken where it was set, the keys are inherited.
DirMergeStaleKeys(base, add) ==
    LET ladder == RowsMerged(base, add) IN
    [knob     |-> OwnOr(add.knob, base.knob),
     secret   |-> OwnOr(add.secret, base.secret),
     keys     |-> OwnOr(base.keys, add.keys),
     rules    |-> add.rules \o base.rules,
     rows     |-> ladder.rows,
     reset    |-> ladder.reset,
     captchas |-> IF add.captchas # {} THEN add.captchas ELSE base.captchas]

\* bs_merge_dir_cfg.  The rules of the inner scope are walked first.
DirMerge(base, add) ==
    LET secretOf == IF add.secret # Unset THEN add ELSE base
        ladder == RowsMerged(base, add)
    IN  [knob     |-> OwnOr(add.knob, base.knob),
         secret   |-> secretOf.secret,
         keys     |-> secretOf.keys,
         rules    |-> add.rules \o base.rules,
         rows     |-> ladder.rows,
         reset    |-> ladder.reset,
         captchas |-> IF add.captchas # {} THEN add.captchas ELSE base.captchas]
-----------------------------------------------------------------------------
(* Directives. *)

\* A directory configuration after one more line.  `none' is a property of
\* the scope and leaves the rows before and after it in the list.
WithLine(d, line) ==
    CASE line.kind = "knob"    -> [d EXCEPT !.knob = line.value]
      [] line.kind = "secret"  -> [d EXCEPT !.secret = line.value, !.keys = DerivedKeys(line.value)]
      [] line.kind = "rule"    -> [d EXCEPT !.rules = Append(@, line.value)]
      [] line.kind = "row"     -> [d EXCEPT !.rows = @ \cup {line.value}]
      [] line.kind = "none"    -> [d EXCEPT !.reset = TRUE]
      [] line.kind = "captcha" -> [d EXCEPT !.captchas = @ \cup {line.value}]

\* A rule outside every Location goes to the server's ladder.
ForServer(scope, line) == scope \in Servers /\ line.kind \in {"rule", "serverknob"}

ServerWithLine(c, scope, line) ==
    IF line.kind = "rule" THEN [c EXCEPT !.rules = Append(@, <<scope, line.value>>)]
    ELSE [c EXCEPT !.knob = line.value]

\* A knob of the server has RSRC_CONF: Apache refuses it in a Location.
InContext(scope, line) == line.kind = "serverknob" => scope \in Servers

\* A provider may stand in a scope once.
Undeclared(scope, line) == line.kind = "captcha" => line.value \notin dir[scope].captchas

\* The file is read with the scopes from the outermost to the innermost.
Read(scope, line) ==
    /\ ~started /\ Len(written) < MaxDirectives
    /\ written # <<>> => DepthOf(written[Len(written)][1]) <= DepthOf(scope)
    /\ InContext(scope, line) /\ Undeclared(scope, line)
    /\ IF ForServer(scope, line)
       THEN /\ server' = [server EXCEPT ![scope] = ServerWithLine(@, scope, line)]
            /\ UNCHANGED dir
       ELSE /\ dir' = [dir EXCEPT ![scope] = WithLine(@, line)]
            /\ UNCHANGED server
    /\ written' = Append(written, <<scope, line>>)
    /\ UNCHANGED <<started, generated>>

\* Apache merges the virtual host over the main server; then post_config fills
\* the module's secret into every one that has none (bs_populate_auto_secret).
Startup ==
    LET vhost == DirMerge(dir["main"], dir["vhost"])
        filled(d, ok) == IF d.secret # Unset \/ ~ok THEN d
                         ELSE [d EXCEPT !.secret = "auto", !.keys = DerivedKeys("auto")]
    IN
    /\ ~started
    /\ \E ok \in BOOLEAN :
         /\ dir' = [dir EXCEPT !["main"] = filled(@, ok), !["vhost"] = filled(vhost, ok)]
         /\ generated' = ok
    /\ server' = [server EXCEPT !["vhost"] = ServerMerge(server["main"], @)]
    /\ started' = TRUE
    /\ UNCHANGED written

ConfigNext == (\E scope \in Scopes, line \in Directives : Read(scope, line)) \/ Startup

ConfigSpec == ConfigInit /\ [][ConfigNext]_configVars

\* The directory configuration of a request in both Locations.
Effective == DirMerge(dir["vhost"], DirMerge(dir["outer"], dir["inner"]))
-----------------------------------------------------------------------------
(* Properties. *)

\* The values written with one kind of line, outermost first, and in a scope.
ValuesOf(lines, scopes, kind) ==
    LET said[n \in 0 .. Len(lines)] ==
            IF n = 0 THEN <<>>
            ELSE IF lines[n][1] \in scopes /\ lines[n][2].kind = kind
                 THEN Append(said[n - 1], lines[n][2].value)
            ELSE said[n - 1]
    IN  said[Len(lines)]
Values(kind) == ValuesOf(written, ToSet(Chain), kind)
ValuesIn(scope, kind) == ValuesOf(written, {scope}, kind)
Says(scope, kind) == ValuesIn(scope, kind) # <<>>
InnermostOf(kinds) ==
    {s \in ToSet(Chain) :
        /\ \E k \in kinds : Says(s, k)
        /\ \A t \in ToSet(Chain) : DepthOf(t) > DepthOf(s) => ~\E k \in kinds : Says(t, k)}

LastWritten(kind) == IF Values(kind) = <<>> THEN Unset ELSE Values(kind)[Len(Values(kind))]

\* The innermost statement about the rows wins: `none' silences, and a scope
\* that declares rows adds them to those declared since the last silence.
RowsWritten ==
    LET silent == {DepthOf(s) : s \in {t \in ToSet(Chain) : Says(t, "none")}}
        since == IF silent = {} THEN 0 ELSE CHOOSE d \in silent : \A e \in silent : e <= d
    IN  UNION {ToSet(ValuesIn(Chain[i], "row")) : i \in since + 1 .. Len(Chain)}

\* Only one of the two Locations speaks about the rows.  With both, Apache
\* merges them with each other first, and rows that one of them silenced can
\* come back: AsWritten leaves that case out, and it violates
\* SilencedRowsStaySilent.
OneLocationOnRows ==
    \E s \in {"outer", "inner"} : ~Says(s, "none") /\ ~Says(s, "row")

\* The names of a ladder that another one does not shadow.
Unshadowed(names, own) ==
    LET kept[n \in 0 .. Len(names)] ==
            IF n = 0 THEN <<>>
            ELSE IF names[n] \in ToSet(own) THEN kept[n - 1]
            ELSE Append(kept[n - 1], names[n])
    IN  kept[Len(names)]
Tagged(scope, names) == [i \in DOMAIN names |-> <<scope, names[i]>>]

RowsInForce == IF Effective.reset THEN {} ELSE Effective.rows

\* The rows a scope silenced stay silent in it and in every scope inside it,
\* whichever scopes declare rows of their own: inherited rows do not return
\* with them (bs_merge_dir_cfg).
SilencedRowsStaySilent == started => RowsInForce = RowsWritten

\* What a request is served with is what its scopes say, whatever the order
\* of the merges (the comments of bs_merge_dir_cfg and bs_merge_server_cfg):
\* the innermost value of a knob and of the secret, with the keys of that very
\* secret; the rules of the inner Location before those of the outer one, each
\* in the order written; the providers of the innermost scope that names any;
\* the rows declared since the last silence, if only one Location speaks of
\* rows; and in the server's ladder, if the main server's names differ, the
\* virtual host's rules before those of the main server they do not shadow.
AsWritten ==
    started =>
      LET secret == IF Values("secret") # <<>> THEN LastWritten("secret")
                    ELSE IF generated THEN "auto" ELSE Unset
          main == ValuesIn("main", "rule")
          own == ValuesIn("vhost", "rule")
      IN
      /\ Effective.knob = LastWritten("knob")
      /\ Effective.secret = secret
      /\ Effective.keys = IF secret = Unset THEN Unset ELSE DerivedKeys(secret)
      /\ Effective.rules = ValuesIn("inner", "rule") \o ValuesIn("outer", "rule")
      /\ \A s \in InnermostOf({"captcha"}) : Effective.captchas = ToSet(ValuesIn(s, "captcha"))
      /\ OneLocationOnRows => RowsInForce = RowsWritten
      /\ server["vhost"].knob = LastWritten("serverknob")
      /\ IsInjective(main) =>
           server["vhost"].rules =
             Tagged("vhost", own) \o Tagged("main", Unshadowed(main, own))
=============================================================================
