---------------------------- MODULE HttpDownload ----------------------------
(***************************************************************************)
(* A file fetched over HTTP on UEFI: http_download_uefi (uefi/src/http.rs) *)
(* and the branch of fetch_file that calls it (uefi/src/fetch.rs).  The    *)
(* firmware may refuse any call.  What the firmware hands out is counted   *)
(* over the downloads of one boot: the list of handles, the child handle   *)
(* of a connection, and the pool buffer a file is kept in.                 *)
(*                                                                         *)
(* A response has at most one message's body.  The status of the answer is *)
(* not looked at, so that an error page is a file like any other: a body   *)
(* is only its length here.                                                *)
(***************************************************************************)
EXTENDS Integers, FiniteSets

CONSTANTS
    MAX_FETCH_FILES,    \* slots (4)
    PER_FILE_CAP,       \* bytes a file may have
    MaxDownloads        \* bound: downloads of one boot

VARIABLES
    pc,         \* the call that is next; "idle" between downloads
    lists,      \* lists of handles from LocateHandleBuffer that are not freed
    children,   \* child handles that are not destroyed
    pool,       \* pool buffers: number of the download -> bytes in it
    body,       \* body_length of the response
    sizes,      \* FETCH_FILES: number of the download -> the size told the script
    downloads

vars == <<pc, lists, children, pool, body, sizes, downloads>>

Init ==
    /\ pc = "idle" /\ lists = 0 /\ children = 0 /\ body = 0 /\ downloads = 0
    /\ pool = [d \in {} |-> 0] /\ sizes = [d \in {} |-> 0]

Extend(f, d, n) == [x \in DOMAIN f \cup {d} |-> IF x = d THEN n ELSE f[x]]

\* fetch_file: a free slot, then a buffer for it.
Begin ==
    /\ pc = "idle" /\ downloads < MaxDownloads /\ Cardinality(DOMAIN sizes) < MAX_FETCH_FILES
    /\ downloads' = downloads + 1
    /\ \/ pc' = "locate" /\ pool' = Extend(pool, downloads + 1, 0)
       \/ pc' = "idle" /\ UNCHANGED pool            \* AllocatePool fails
    /\ UNCHANGED <<lists, children, body, sizes>>

\* LocateHandleBuffer; a list without a handle in it is none.
Locate ==
    /\ pc = "locate"
    /\ \/ pc' = "open_binding" /\ lists' = lists + 1
       \/ pc' = "idle" /\ UNCHANGED lists
    /\ UNCHANGED <<children, pool, body, sizes, downloads>>

\* A call that gives nothing to keep: it works, or what is held is given back.
Call(from, to, failed) ==
    /\ pc = from /\ pc' \in {to, failed}
    /\ UNCHANGED <<lists, children, pool, body, sizes, downloads>>

OpenBinding == Call("open_binding", "create_child", "free")
OpenHttp == Call("open_http", "configure", "destroy")

\* Mutant: a failed configure() only frees the list.
Configure_KeepsChild == Call("configure", "url", "free")

Configure == Call("configure", "url", "destroy")
CheckUrl == Call("url", "request", "destroy")       \* 511 characters are too many
Request == Call("request", "response", "destroy")

CreateChild ==
    /\ pc = "create_child"
    /\ \/ pc' = "open_http" /\ children' = children + 1
       \/ pc' = "free" /\ UNCHANGED children
    /\ UNCHANGED <<lists, pool, body, sizes, downloads>>

\* Mutant: the length of the body is not checked.
Total_Any(n) == n

\* The length counts when it is that of a body in the buffer.
Total(n) == IF n \in 1 .. PER_FILE_CAP THEN n ELSE 0

(***************************************************************************)
(* Response(): the firmware fills the buffer and says how long the body    *)
(* is, which may be more than there was room for.                          *)
(***************************************************************************)
Response ==
    /\ pc = "response" /\ pc' = "destroy"
    /\ \/ UNCHANGED <<pool, body>>
       \/ \E n \in 0 .. PER_FILE_CAP + 1 :
            /\ body' = n
            /\ pool' = [pool EXCEPT ![downloads] = IF n > PER_FILE_CAP THEN PER_FILE_CAP ELSE n]
    /\ UNCHANGED <<lists, children, sizes, downloads>>

DestroyChild ==
    /\ pc = "destroy" /\ pc' = "free" /\ children' = children - 1
    /\ UNCHANGED <<lists, pool, body, sizes, downloads>>

\* FreePool of the list; fetch_file takes the slot when there is a size.  The
\* pool buffer of a download that failed is never freed.
Free ==
    /\ pc = "free" /\ pc' = "idle" /\ lists' = lists - 1 /\ body' = 0
    /\ sizes' = IF Total(body) > 0 THEN Extend(sizes, downloads, Total(body)) ELSE sizes
    /\ UNCHANGED <<children, pool, downloads>>

\* os.remove: the slot is free, the buffer stays allocated.
Remove ==
    /\ pc = "idle"
    /\ \E d \in DOMAIN sizes : sizes' = [x \in DOMAIN sizes \ {d} |-> sizes[x]]
    /\ UNCHANGED <<pc, lists, children, pool, body, downloads>>

Next ==
    \/ Begin \/ Locate \/ OpenBinding \/ CreateChild \/ OpenHttp \/ Configure
    \/ CheckUrl \/ Request \/ Response \/ DestroyChild \/ Free \/ Remove

Spec == Init /\ [][Next]_vars

-----------------------------------------------------------------------------
(***************************************************************************)
(* Whichever call of a download the firmware refused, its child handle and *)
(* its list of handles are given back when it returns, so that the next    *)
(* download finds the card free; and the size a script is told is that of  *)
(* bytes which are in the file's buffer.  (http_download_uefi, fetch_file  *)
(* of uefi/src/fetch.rs 181-216.)                                          *)
(***************************************************************************)
LeavesNothing ==
    pc = "idle" =>
        /\ children = 0 /\ lists = 0
        /\ \A d \in DOMAIN sizes : d \in DOMAIN pool /\ sizes[d] <= pool[d]
=============================================================================
