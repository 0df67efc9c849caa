------------------------------ MODULE ChannelTree ------------------------------
(***************************************************************************)
(* The tree of channels of the ChannelManager of jobrunner/channels.py: how *)
(* a configuration string makes it and how the channel of a job is found in *)
(* it.  A name is the sequence of its dotted parts; a tree is a function    *)
(* from the paths of its channels below root, root being <<>>, to what is   *)
(* configured for them.  Module Channels takes such a tree as constants.    *)
(***************************************************************************)
EXTENDS Naturals, SequencesExt

CONSTANTS
    None,     \* a capacity that is not given, or not limited
    Garbled   \* a capacity that is not an integer

DefaultSetting == [capacity |-> None, sequential |-> FALSE, throttle |-> 0]

\* ChannelManager.__init__: the root channel runs one job at a time.
RootOnly == [p \in {<< >>} |-> [DefaultSetting EXCEPT !.capacity = 1]]

-----------------------------------------------------------------------------
(* Reading the configuration.  An entry is split at its colons: a name, then *)
(* a capacity, then options <<key>> or <<key, value>>.                       *)

\* parse_simple_config refuses an entry: no name, a capacity that is not an
\* integer, an option with two equal signs, a key given twice.
Refused(entry) ==
    LET key(i) == entry.options[i][1]
    IN \/ entry.name = << >>
       \/ entry.capacity = Garbled
       \/ entry.capacity = None /\ entry.options # << >>
       \/ \E i \in DOMAIN entry.options :
            \/ Len(entry.options[i]) > 2
            \/ key(i) \in {"name", "capacity"}
            \/ \E k \in 1..(i - 1) : key(i) = key(k)

\* The options of an entry by key; one without value gets True, of which the
\* int() is 1.
Options(entry, key) ==
    {IF Len(entry.options[i]) = 1 THEN 1 ELSE entry.options[i][2] :
        i \in {k \in DOMAIN entry.options : entry.options[k][1] = key}}

\* The setting of an entry, of capacity 1 when it gives none.
Parsed(entry) ==
    [capacity |-> IF entry.capacity = None THEN 1 ELSE entry.capacity,
     sequential |-> Options(entry, "sequential") # {},
     throttle |-> IF Options(entry, "throttle") = {} THEN 0
                  ELSE CHOOSE t \in Options(entry, "throttle") : TRUE]

\* Channel.configure refuses a sequential channel of another capacity than 1.
Configurable(setting) == setting.sequential => setting.capacity = 1

-----------------------------------------------------------------------------
(* Finding a channel. *)

\* The root may be left out of a name; the name of a job may be empty.
Path(name) == IF name # << >> /\ Head(name) = "root" THEN Tail(name) ELSE name

\* The longest proper prefix of a path that is a channel.
Closest(tree, path) ==
    CHOOSE p \in Prefixes(path) \cap DOMAIN tree :
        /\ p # path
        /\ \A q \in Prefixes(path) \cap DOMAIN tree : q # path => Len(q) <= Len(p)

\* Mutant: a channel that is not configured is a child of the root.
ServesByName(tree, name, fallback) ==
    LET path == Path(name)
    IN IF path \in DOMAIN tree THEN path ELSE IF fallback THEN <<Last(path)>> ELSE path

\* get_channel_by_name: the path of the channel that serves a name.  A name
\* that is no channel gets one that repeats all its parts below the closest
\* channel, so that with root.sub, root.sub.x is served by root.sub.sub.x.
Serves(tree, name, fallback) ==
    LET path == Path(name)
    IN IF path \in DOMAIN tree THEN path
       ELSE IF fallback THEN Closest(tree, path) \o path ELSE path

\* The tree once the channel exists, with any channel missing on its way.
Grown(tree, path) ==
    [p \in DOMAIN tree \cup Prefixes(path) |-> IF p \in DOMAIN tree THEN tree[p] ELSE DefaultSetting]

\* get_channel_from_config: creates the channel if need be and configures it.
Configure(tree, entry) ==
    LET path == Serves(tree, entry.name, FALSE)
    IN [Grown(tree, path) EXCEPT ![path] = Parsed(entry)]

\* simple_configure: the entries in their order, the last one for a channel
\* deciding; the runner does not start with a configuration that is refused.
Accepted(config) ==
    \A i \in DOMAIN config : ~Refused(config[i]) /\ Configurable(Parsed(config[i]))

SimpleConfigure(config) == FoldLeft(Configure, RootOnly, config)
=============================================================================
