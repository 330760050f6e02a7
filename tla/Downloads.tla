------------------------------ MODULE Downloads ------------------------------
(***************************************************************************)
(* Downloads: voya-net download.rs, subscription.rs and ruleset.rs, and the *)
(* update commands that call them.                                         *)
(*                                                                         *)
(* The first half is what a download answers.  The second half is the       *)
(* update of the geo and rule set files: each call downloads every file     *)
(* into a staging directory of its own and then copies them, one by one,    *)
(* over the files the core reads.  Nothing orders two calls.               *)
(***************************************************************************)
EXTENDS Naturals, Sequences, FiniteSets, SequencesExt

CONSTANTS
    AssetFiles,     \* the files of one update, in the order of its manifest
    Acquirers,      \* calls of update_geo_assets or update_srs_assets
    MaxServed       \* bound: versions the source serves

\* An update names each file once, and names one (geo_assets and the sets of
\* collect_singbox_ruleset_assets).
ASSUME DownloadsBounds ==
    /\ AssetFiles \in Seq(ToSet(AssetFiles)) /\ AssetFiles # <<>>
    /\ IsInjective(AssetFiles)
    /\ MaxServed \in Nat \ {0}

-----------------------------------------------------------------------------
(* What a download answers.                                                 *)

\* "client" stands for a client that could not be built.
Outcomes == {"body", "empty", "error", "large", "client"}

\* read_response_bytes_limited: the length a response declares is checked
\* first, then what has arrived after every chunk.
\* length 0: the response declares none.
ReadLimited(length, chunks, limit) ==
    LET read(response, chunk) ==
            IF response.outcome = "large" THEN response
            ELSE LET more == response.received + chunk
                 IN  [outcome |-> IF more > limit THEN "large" ELSE
                                  IF more = 0 THEN "empty" ELSE "body",
                      received |-> more]
    IN  IF length > limit THEN [outcome |-> "large", received |-> 0]
        ELSE FoldLeft(read, [outcome |-> "empty", received |-> 0], chunks)

\* request: the proxy first, when there is one; whatever it answers but a body
\* makes the direct client try.  proxy "none": not preferred, or no address.
\* The attempts are lost when the direct response is too large.
Download(proxy, direct) ==
    LET earlier == IF proxy = "none" THEN <<>> ELSE <<proxy>>
    IN  IF proxy = "body"
        THEN [answer |-> "proxy", attempts |-> <<proxy>>]
        ELSE [answer |-> CASE direct = "body"  -> "direct"
                           [] direct = "large" -> "large"
                           [] OTHER            -> "failed",
              attempts |-> IF direct = "large" THEN <<>>
                           ELSE Append(earlier, direct)]

Answered(download) == download.answer \in {"proxy", "direct"}

RedirectLimit == 5

\* validate_redirect_attempt: previous are the urls so far, the first one
\* included; a url is [tls, local].
Mut_FollowsRedirect(previous, next) ==
    /\ Len(previous) <= RedirectLimit
    /\ ~(previous[1].tls /\ ~next.tls)
    /\ next.local => previous[Len(previous)].local

FollowsRedirect(previous, next) ==
    LET last == previous[Len(previous)]
    IN  /\ Len(previous) <= RedirectLimit
        /\ ~(last.tls /\ ~next.tls)
        /\ next.local => last.local

\* The urls a chain of redirects was asked for; empty when it was refused.
Follow(first, chain) ==
    LET follow(urls, next) ==
            IF urls # <<>> /\ FollowsRedirect(urls, next) THEN Append(urls, next)
            ELSE <<>>
    IN  FoldLeft(follow, <<first>>, chain)

\* validate_subscription_url: url is [scheme, local, host].
UrlAllowed(url, denyLocal) ==
    /\ url.scheme \in {"http", "https"}
    /\ url.host
    /\ denyLocal => ~url.local

\* build_subscription_url: without a target the url itself; a template takes
\* the url in its place, or as a parameter unless it has one.
ConverterUrl(url, target, template) ==
    IF target = "none" THEN [base |-> url, query |-> {}]
    ELSE [base |-> template.url,
          query |-> template.query \cup {"target", "config"} \cup
                    (IF template.placeholder \/ "url" \in template.query
                     THEN {} ELSE {"url"})]

\* fetch_with_url_policy: the main url, then each further url, in order; one
\* failure fails them all, and a converted subscription takes no further urls.
\* A source is [url, target, template, denyLocal]; a part is [url, body] with
\* body "none" for a download that failed.
FetchPart(part, denyLocal) ==
    /\ UrlAllowed(part.url, denyLocal)
    /\ part.body # "none"

Fetch(source, main, more) ==
    LET converter == ConverterUrl(source.url, source.target, source.template)
        mainOk == /\ UrlAllowed(source.url, source.denyLocal)
                  /\ UrlAllowed(converter.base, source.denyLocal)
                  /\ main # "none"
        failed == {i \in 1 .. Len(more) : ~FetchPart(more[i], source.denyLocal)}
    IN  IF ~mainOk THEN [ok |-> FALSE, content |-> <<>>]
        ELSE IF source.target # "none" THEN [ok |-> TRUE, content |-> <<main>>]
        ELSE IF failed # {} THEN [ok |-> FALSE, content |-> <<>>]
        ELSE [ok |-> TRUE,
              content |-> <<main>> \o [i \in 1 .. Len(more) |-> more[i].body]]

-----------------------------------------------------------------------------
(* What is asked for.                                                       *)

\* RulesetGeoManifest: an entry without a name, or a rule set without a kind,
\* is left out; what an entry does not say follows from its name.
GeoAssets(entries) ==
    {[file |-> IF e.file = "" THEN <<e.name, "dat">> ELSE <<e.file>>,
      source |-> IF e.url = "" THEN "default" ELSE e.url] :
        e \in {x \in entries : x.name # ""}}

SrsAssets(entries) ==
    {[file |-> IF e.file = "" THEN <<e.kind, e.name, "srs">> ELSE <<e.file>>,
      tag |-> IF e.tag = "" THEN <<e.kind, e.name>> ELSE <<e.tag>>] :
        e \in {x \in entries : x.kind # "" /\ x.name # ""}}

\* geo_assets: the default source has files of its own besides the two.
DefaultGeoFiles(source, others) ==
    {"geosite.dat", "geoip.dat"} \cup (IF source = "default" THEN others ELSE {})

\* collect_singbox_ruleset_assets: what the rules of any routing name, and the
\* geosites every configuration needs.
CollectedSrs(rules, needed) ==
    {<<"geoip", name>> : name \in UNION {r.geoip : r \in rules}} \cup
    {<<"geosite", name>> : name \in UNION {r.geosite : r \in rules} \cup needed}

-----------------------------------------------------------------------------
(* Updating the files.                                                      *)

Missing == 0
Half == MaxServed + 1    \* truncated, or written by two copies at once
Positions == DOMAIN AssetFiles
FileNames == {AssetFiles[i] : i \in Positions}

VARIABLES
    served,     \* the version the source serves
    file,       \* [FileNames -> what the core finds there]
    copier,     \* [FileNames -> the calls that are copying to it]
    acquirer,   \* [Acquirers -> [pc, next, staged]]
    leftover,   \* staging directories nobody removes
    alone,      \* history: [Acquirers -> nobody copied while it did]
    disturbed   \* history: a copy failed, overlapped, or was cut by a crash

downloadsVars == <<served, file, copier, acquirer, leftover, alone, disturbed>>

Idle == [pc |-> "idle", next |-> 1, staged |-> <<>>]
Copying(a) == acquirer[a].pc \in {"commit", "copying"}

DownloadsInit ==
    /\ served = 1
    /\ file = [f \in FileNames |-> Missing]
    /\ copier = [f \in FileNames |-> {}]
    /\ acquirer = [a \in Acquirers |-> Idle]
    /\ leftover = 0
    /\ alone = [a \in Acquirers |-> TRUE]
    /\ disturbed = FALSE

SourceChanges ==
    /\ served < MaxServed
    /\ served' = served + 1
    /\ UNCHANGED <<file, copier, acquirer, leftover, alone, disturbed>>

AcquirerGoes(a, pc, next, staged) ==
    acquirer' = [acquirer EXCEPT ![a] =
                    [pc |-> pc, next |-> next, staged |-> staged]]

\* StagingDir::create: a directory with a number of its own; it may fail.
BeginAcquisition(a) ==
    /\ acquirer[a].pc = "idle"
    /\ \E pc \in {"stage", "failed"} : AcquirerGoes(a, pc, 1, <<>>)
    /\ alone' = [alone EXCEPT ![a] = TRUE]
    /\ UNCHANGED <<served, file, copier, leftover, disturbed>>

\* stage_asset: the download, validate_asset (a plain file name, an extension
\* that fits, a body) and the write into the staging directory.  The first
\* failure drops the directory.
Mut_StageAsset(a) ==
    LET i == acquirer[a].next
    IN  /\ acquirer[a].pc = "stage"
        /\ \E ok \in BOOLEAN :
              IF ok
              THEN /\ AcquirerGoes(a, IF i = Len(AssetFiles) THEN "ok" ELSE "stage",
                                   i + 1, Append(acquirer[a].staged, served))
                   /\ file' = [file EXCEPT ![AssetFiles[i]] = served]
              ELSE /\ AcquirerGoes(a, "failed", i, acquirer[a].staged)
                   /\ UNCHANGED file
        /\ UNCHANGED <<served, copier, leftover, alone, disturbed>>

StageAsset(a) ==
    LET i == acquirer[a].next
        all == i = Len(AssetFiles)
    IN  /\ acquirer[a].pc = "stage"
        /\ \E proxy \in Outcomes \cup {"none"}, direct \in Outcomes, valid \in BOOLEAN :
              IF Answered(Download(proxy, direct)) /\ valid
              THEN AcquirerGoes(a, IF all THEN "commit" ELSE "stage",
                                IF all THEN 1 ELSE i + 1,
                                Append(acquirer[a].staged, served))
              ELSE AcquirerGoes(a, "failed", i, acquirer[a].staged)
        /\ UNCHANGED <<served, file, copier, leftover, alone, disturbed>>

\* commit: fs::copy opens the file and truncates it ...
CopyBegins(a) ==
    LET f == AssetFiles[acquirer[a].next]
    IN  /\ acquirer[a].pc = "commit"
        /\ AcquirerGoes(a, "copying", acquirer[a].next, acquirer[a].staged)
        /\ file' = [file EXCEPT ![f] = Half]
        /\ copier' = [copier EXCEPT ![f] = @ \cup {a}]
        /\ LET others == {b \in Acquirers \ {a} : Copying(b)}
           IN  /\ alone' = [b \in Acquirers |->
                               alone[b] /\ (b \in others \cup {a} => others = {})]
               /\ disturbed' = (disturbed \/ others # {})
        /\ UNCHANGED <<served, leftover>>

\* ... and writes what was staged; the next file follows.
CopyEnds(a) ==
    LET i == acquirer[a].next
        f == AssetFiles[i]
        last == i = Len(AssetFiles)
    IN  /\ acquirer[a].pc = "copying"
        /\ \E content \in {acquirer[a].staged[i]} \cup
                          (IF alone[a] THEN {} ELSE {Half}) :
              file' = [file EXCEPT ![f] = content]
        /\ copier' = [copier EXCEPT ![f] = @ \ {a}]
        /\ AcquirerGoes(a, IF last THEN "ok" ELSE "commit",
                        IF last THEN i ELSE i + 1, acquirer[a].staged)
        /\ UNCHANGED <<served, leftover, alone, disturbed>>

\* A copy that fails leaves the files before it new, its own cut and the
\* ones after it old.
CopyFails(a) ==
    /\ acquirer[a].pc = "copying"
    /\ AcquirerGoes(a, "failed", acquirer[a].next, acquirer[a].staged)
    /\ copier' = [f \in FileNames |-> copier[f] \ {a}]
    /\ disturbed' = TRUE
    /\ UNCHANGED <<served, file, leftover, alone>>

\* The call is answered; it may be made again.
AcquisitionAnswered(a) ==
    /\ acquirer[a].pc \in {"ok", "failed"}
    /\ AcquirerGoes(a, "idle", 1, <<>>)
    /\ UNCHANGED <<served, file, copier, leftover, alone, disturbed>>

\* The application ends, at any moment, and is started again: no Drop runs.
ApplicationCrashes ==
    LET running == {a \in Acquirers : acquirer[a].pc \in {"stage", "commit", "copying"}}
    IN  /\ running # {} /\ leftover = 0
        /\ acquirer' = [a \in Acquirers |-> Idle]
        /\ copier' = [f \in FileNames |-> {}]
        /\ leftover' = leftover + Cardinality(running)
        /\ disturbed' = (disturbed \/ \E a \in Acquirers : Copying(a))
        /\ UNCHANGED <<served, file, alone>>

DownloadsNext ==
    \/ SourceChanges
    \/ ApplicationCrashes
    \/ \E a \in Acquirers :
          \/ BeginAcquisition(a)
          \/ StageAsset(a)
          \/ CopyBegins(a)
          \/ CopyEnds(a)
          \/ CopyFails(a)
          \/ AcquisitionAnswered(a)

DownloadsSpec == DownloadsInit /\ [][DownloadsNext]_downloadsVars

-----------------------------------------------------------------------------
(* Properties.                                                              *)

\* While nobody copies and no copy went wrong, every file is whole, and no file
\* is missing when another is there: a set is installed as one or not at all.
FilesAreWhole ==
    (~disturbed /\ \A a \in Acquirers : ~Copying(a)) =>
        /\ Half \notin {file[f] : f \in FileNames}
        /\ Missing \in {file[f] : f \in FileNames} =>
              {file[f] : f \in FileNames} = {Missing}

\* A call that has not downloaded and validated every file changes none.
NothingBeforeEverything ==
    \A f \in FileNames : file'[f] # file[f] =>
        \E a \in Acquirers :
            Copying(a) /\ Len(acquirer[a].staged) = Len(AssetFiles)

\* A call that answers Ok and copied alone has installed what it downloaded.
OkMeansInstalled ==
    \A a \in Acquirers :
        (acquirer'[a].pc = "ok" /\ acquirer[a].pc # "ok" /\ alone[a]) =>
            \A i \in Positions : file'[AssetFiles[i]] = acquirer'[a].staged[i]

\* A chain of redirects is never followed from a public to a local address, nor
\* from https back to http, nor for more than five of them.
Urls == [tls : BOOLEAN, local : BOOLEAN]
RedirectsAreSafe ==
    \A first \in Urls, n \in 0 .. 6 : \A chain \in [1 .. n -> Urls] :
        LET urls == Follow(first, chain)
        IN  /\ Len(urls) <= RedirectLimit + 1
            /\ \A i, j \in DOMAIN urls : i < j =>
                  /\ urls[i].tls => urls[j].tls
                  /\ urls[j].local => urls[i].local

\* A body is read as a whole or refused, whatever length was declared; and it
\* is the direct client's exactly when the proxy's was none.
ReadsAreWhole ==
    /\ \A length \in 0 .. 3, n \in 0 .. 3 : \A chunks \in [1 .. n -> 0 .. 2] :
          LET read == ReadLimited(length, chunks, 2)
              sum == FoldLeft(+, 0, chunks)
          IN  /\ read.outcome = "large" <=> (length > 2 \/ sum > 2)
              /\ read.outcome # "large" => read.received = sum
    /\ \A proxy \in Outcomes \cup {"none"}, direct \in Outcomes :
          LET download == Download(proxy, direct)
          IN  /\ Answered(download) <=> "body" \in {proxy, direct}
              /\ Answered(download) => Last(download.attempts) = "body"

\* A fetch answers all parts or none, and none from a local address a
\* subscription may not name, directly or as its converter.
SourceUrls == [scheme : {"http", "file"}, local : BOOLEAN, host : {TRUE}]
FetchesAreAllOrNothing ==
    \A url, converter, further \in SourceUrls, target \in {"none", "clash"},
       denyLocal \in BOOLEAN, main, body \in {"none", "text"} :
        LET template == [url |-> converter, query |-> {}, placeholder |-> FALSE]
            source == [url |-> url, target |-> target, template |-> template,
                       denyLocal |-> denyLocal]
            fetched == Fetch(source, main, <<[url |-> further, body |-> body]>>)
            used == {url} \cup (IF target = "none" THEN {further} ELSE {converter})
        IN  /\ fetched.ok => "none" \notin ToSet(fetched.content)
            /\ fetched.ok => Len(fetched.content) = IF target = "none" THEN 2 ELSE 1
            /\ (fetched.ok /\ denyLocal) => \A u \in used : ~u.local
            /\ ~fetched.ok => fetched.content = <<>>

\* Two entries of a manifest with names of their own have files of their own,
\* and every rule set a configuration needs is asked for.
ManifestsAreWhole ==
    LET entry(n, f, k) == [name |-> n, file |-> f, url |-> "", kind |-> k, tag |-> ""]
        entries == {entry("", "", "geosite"), entry("x", "", ""), entry("x", "f", "geoip"),
                    entry("y", "", "geosite"), entry("x", "", "geosite")}
        rules == {[geoip |-> {"a"}, geosite |-> {}], [geoip |-> {"a"}, geosite |-> {"b"}]}
    IN  /\ \A a, b \in SrsAssets(entries) : a.file = b.file => a = b
        /\ {<<"geosite", "y", "srs">>, <<"geosite", "x", "srs">>, <<"f">>}
              = {a.file : a \in SrsAssets(entries)}
        /\ {<<"x", "dat">>, <<"y", "dat">>, <<"f">>} = {a.file : a \in GeoAssets(entries)}
        /\ CollectedSrs(rules, {"need"}) =
              {<<"geoip", "a">>, <<"geosite", "b">>, <<"geosite", "need">>}
        /\ DefaultGeoFiles("other", {"z"}) \subseteq DefaultGeoFiles("default", {"z"})

\* An update of the rule set or geo files that fails before its commit leaves
\* the installed files as they were, one that succeeds undisturbed installs
\* exactly what it validated, and only a failed, overlapping or killed copy
\* leaves a cut or mixed set (StagingDir in ruleset.rs).
UpdatesAreAllOrNothing ==
    [][FilesAreWhole' /\ NothingBeforeEverything /\ OkMeansInstalled]_downloadsVars

\* One download takes what its source sends as a whole, and only from where it
\* may (download.rs, subscription.rs, ruleset.rs).
TransfersAreWhole ==
    RedirectsAreSafe /\ ReadsAreWhole /\ FetchesAreAllOrNothing /\ ManifestsAreWhole
=============================================================================
