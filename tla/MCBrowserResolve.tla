-------------------------- MODULE MCBrowserResolve --------------------------
(* Instances of BrowserResolve for TLC. *)
EXTENDS BrowserResolve, TLC

CONSTANTS entry, player, other, outside, video, parse, local

MCUrls == {entry, player, other, outside, video, parse, local}

\* The rules take the video's address out of the address that parses it.
MCCaptured == [u \in {video, parse, local} |-> IF u = parse THEN video ELSE u]

Report(kind, url, document, topLevel, redirect, ok) ==
    [kind |-> kind, url |-> url, document |-> document, topLevel |-> topLevel,
     redirect |-> redirect, ok |-> ok]

\* Iframes, pages, redirects, a player on a foreign host, media that answers, is
\* refused, or lies on a private host.
MCEvents == {
    Report("request", entry, FALSE, FALSE, FALSE, FALSE),
    Report("request", player, FALSE, FALSE, FALSE, FALSE),
    Report("request", other, FALSE, FALSE, FALSE, FALSE),
    Report("request", other, TRUE, TRUE, TRUE, FALSE),
    Report("request", outside, FALSE, FALSE, FALSE, FALSE),
    Report("response", parse, FALSE, FALSE, FALSE, TRUE),
    Report("response", local, FALSE, FALSE, FALSE, TRUE),
    Report("failed", video, FALSE, FALSE, FALSE, FALSE)}
=============================================================================
