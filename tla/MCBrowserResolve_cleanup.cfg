SPECIFICATION Spec
CONSTANTS
    entry = entry
    player = player
    other = other
    outside = outside
    video = video
    parse = parse
    local = local
    Urls <- MCUrls
    Entry = entry
    Players = {entry, player, other, outside}
    Media = {video, parse, local}
    Captured <- MCCaptured
    Playable = {video, local}
    Inside = {entry, player, other}
    Public = {entry, player, other, outside, video}
    Events <- MCEvents
    Limit = 3
    MaxRedirects = 1
    Capacity = 1
    MaxEvents = 1
INVARIANTS MediaAfterCleanup
CHECK_DEADLOCK FALSE
