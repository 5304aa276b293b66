------------------------------ MODULE Catalog ------------------------------
(***************************************************************************)
(* Looking up a bundle in a rendered catalog: src/internal/catalog and the *)
(* lookups of src/internal/workflow and src/internal/analysis.             *)
(*                                                                         *)
(* A catalog has sequences of packages, channels and bundles.  A version   *)
(* is the sequence of its parts, split at dots and dashes, without its     *)
(* leading "v".  What is found is a set of at most one bundle.             *)
(***************************************************************************)
EXTENDS Integers, Sequences, SequencesExt

\* A text that is not given.
NoText == ""

\* The first of them that fits, if any does.
First(s, Fits(_)) ==
    {s[i] : i \in {i \in DOMAIN s : Fits(s[i]) /\ \A j \in 1..(i - 1) : ~Fits(s[j])}}

\* Those that fit, in their order.
Select(s, Fits(_)) == FlattenSeq([i \in DOMAIN s |-> IF Fits(s[i]) THEN <<s[i]>> ELSE <<>>])

\* A bundle without an image counts as not found, even if a later one has it.
findBundleRecord(cat, package, name) ==
    {b \in First(cat.bundles, LAMBDA x : x.package = package /\ x.name = name) : b.image}

channelOf(cat, package, name) ==
    First(cat.channels, LAMBDA c : c.package = package /\ c.name = name)

\* The query is the version, or its beginning up to a dot or a dash.
versionMatches(query, version) == query # <<>> /\ IsPrefix(query, version)

\* The bundle of the last entry; the order of the entries decides, not versions.
ResolveChannelHead(cat, package, channel) ==
    UNION {findBundleRecord(cat, package, Last(c.entries)) :
             c \in {c \in channelOf(cat, package, channel) : c.entries # <<>>}}

\* The last entry whose bundle has the version asked for.
ResolveChannelVersion(cat, package, channel, query) ==
    UNION {LET Fits(e) == \E b \in findBundleRecord(cat, package, e) : versionMatches(query, b.version)
               found   == {i \in DOMAIN c.entries : Fits(c.entries[i])}
           IN  IF found = {} THEN {} ELSE findBundleRecord(cat, package, c.entries[Max(found)]) :
             c \in channelOf(cat, package, channel)}

\* The workflow takes the version asked for, or the head of the channel.
Resolve(cat, package, channel, query) ==
    IF query = <<>> THEN ResolveChannelHead(cat, package, channel)
                    ELSE ResolveChannelVersion(cat, package, channel, query)

\* The default channel of the package, if it has one.
ResolveDefaultChannel(cat, package) ==
    {p.default : p \in First(cat.packages, LAMBDA x : x.name = package /\ x.default # NoText)}

\* The command line tells a wrong name from a failure by the text of the error.
\* That a channel has no entries is worded "not found" for its head only.
isUsageError(cat, package, channel, query) ==
    /\ Resolve(cat, package, channel, query) = {}
    /\ query # <<>> => \A c \in channelOf(cat, package, channel) : c.entries # <<>>

\* The image of the installed version, found by package and name; here a first
\* bundle without an image means that there is nothing to inspect.
findBundleImageForCSV(cat, package, csv) ==
    {b \in First(cat.bundles, LAMBDA x : x.package = package /\ x.name = csv) : b.image}
=============================================================================
