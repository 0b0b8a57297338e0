----------------------------- MODULE BootOptions -----------------------------
(***************************************************************************)
(* Booting an option of the firmware's boot menu (uefi/src/boot.rs,        *)
(* boot_loop of uefi/src/main.rs, boot_from_device_path of                 *)
(* uefi/src/loader.rs).  The options are read from NVRAM when the menu is  *)
(* shown; what cannot be read has no number in the list.  A path that      *)
(* LoadImage does not find is tried again with the default file behind it, *)
(* and when that fails too the firmware is asked to boot the option after  *)
(* a reset.                                                                *)
(*                                                                         *)
(* A device path is a sequence of nodes: of a device, of a file, an end,   *)
(* or a node whose length cannot be.                                       *)
(***************************************************************************)
EXTENDS Integers, Sequences, SequencesExt

CONSTANTS
    Number,             \* numbers of options: Boot0000, ...
    Paths,              \* paths that an option may have
    MAX_BOOT_OPTIONS,   \* options listed (32)
    Keys,               \* choices there are keys for (1 .. 9)
    None,
    MaxBoots            \* bound: times an option is picked

VARIABLES
    nvram,      \* BootOrder and the Boot#### variables
    options,    \* what is listed on the screen
    pc,         \* "menu", "choose", "load", "again", "start", "next", "reset"
    picked,     \* the key pressed
    path,       \* what LoadImage was given last
    boot_next,  \* the variable BootNext
    boots

vars == <<nvram, options, pc, picked, path, boot_next, boots>>

\* An option: its attribute "active" and its path; or its variable cannot be
\* read, or parsed.
Option == [active : BOOLEAN, path : Paths]
Orders == UNION {[1 .. n -> Number] : n \in 0 .. 2}
Nvram == [order : {o \in Orders : \A i, j \in DOMAIN o : o[i] = o[j] => i = j},
          vars : [Number -> Option \cup {None}]]

Init ==
    /\ nvram \in Nvram /\ options = <<>> /\ pc = "menu" /\ picked = None
    /\ path = <<>> /\ boot_next = None /\ boots = 0

-----------------------------------------------------------------------------
Readable(n) == nvram.vars[n] # None

\* enumerate_boot_options: what is listed of the first n options of the order.
ListedOf[n \in 0 .. Len(nvram.order)] ==
    IF n = 0 THEN <<>>
    ELSE LET number == nvram.order[n]
             before == ListedOf[n - 1]
         IN  IF Readable(number) /\ Len(before) < MAX_BOOT_OPTIONS
             THEN Append(before, [number |-> number, opt |-> nvram.vars[number]]) ELSE before
Listed == ListedOf[Len(nvram.order)]

ShowOptions ==
    /\ pc = "menu" /\ boots < MaxBoots
    /\ options' = Listed /\ options' # <<>> /\ pc' = "choose"
    /\ picked' = None /\ path' = <<>>
    /\ UNCHANGED <<nvram, boot_next, boots>>

\* Any other key, and one of an option that is not listed, not active or
\* without a path, leads back to the menu.
Cancel ==
    /\ pc = "choose" /\ pc' = "menu"
    /\ UNCHANGED <<nvram, options, picked, path, boot_next, boots>>

Choose ==
    /\ pc = "choose" /\ pc' = "load"
    /\ \E k \in Keys \cap DOMAIN options :
        /\ options[k].opt.active /\ options[k].opt.path # <<>>
        /\ picked' = k /\ path' = options[k].opt.path
    /\ boots' = boots + 1
    /\ UNCHANGED <<nvram, options, boot_next>>

-----------------------------------------------------------------------------
\* Nodes of a path: "default" is the one of the default file.
PathNode == {"dev", "file", "default", "end", "bad"}

\* The nodes that a walk over the path meets, up to its end or a bad node.
Walk(p) == LET stops == {i \in DOMAIN p : p[i] \in {"end", "bad"}} IN
           IF stops = {} THEN p
           ELSE SubSeq(p, 1, (CHOOSE i \in stops : \A j \in stops : i <= j) - 1)
Ended(p) == Len(Walk(p)) < Len(p) /\ p[Len(Walk(p)) + 1] = "end"
HasFile(p) == Contains(Walk(p), "file")

\* Mutant: the default file follows the end of the path.
Trimmed_Not(p) == p

\* build_default_file_path: the path up to its end; all of it when it has none.
Trimmed(p) == IF Ended(p) THEN Walk(p) ELSE p
DefaultFile(p) == Trimmed(p) \o <<"default", "end">>

\* LoadImage of the option's path.
Load ==
    /\ pc = "load"
    /\ \/ pc' = "start" /\ UNCHANGED path
       \/ pc' = "next" /\ UNCHANGED path                    \* any other error
       \/ IF HasFile(path) THEN pc' = "next" /\ UNCHANGED path     \* NOT_FOUND
          ELSE \/ pc' = "again" /\ path' = DefaultFile(path)
               \/ pc' = "next" /\ UNCHANGED path            \* AllocatePool fails
    /\ UNCHANGED <<nvram, options, picked, boot_next, boots>>

\* LoadImage of the path with the default file.
Again ==
    /\ pc = "again" /\ pc' \in {"start", "next"}
    /\ UNCHANGED <<nvram, options, picked, path, boot_next, boots>>

\* StartImage: an image that returns may have changed the options (a setup
\* program does).
Start ==
    /\ pc = "start" /\ pc' = "menu"
    /\ \/ UNCHANGED nvram
       \/ \E n \in Number : nvram' = [nvram EXCEPT !.vars[n] = None]
       \/ nvram' = [nvram EXCEPT !.order = Reverse(@)]
    /\ UNCHANGED <<options, picked, path, boot_next, boots>>

\* Mutant: the place in the list is taken for the option's number.
OptionNumber_Order == nvram.order[picked]

OptionNumber == options[picked].number

\* BootNext, then a reset; or the menu when the variable cannot be set.
SetNext ==
    /\ pc = "next"
    /\ \/ pc' = "reset" /\ boot_next' = OptionNumber
       \/ pc' = "menu" /\ UNCHANGED boot_next
    /\ UNCHANGED <<nvram, options, picked, path, boots>>

Next == ShowOptions \/ Cancel \/ Choose \/ Load \/ Again \/ Start \/ SetNext

Spec == Init /\ [][Next]_vars

-----------------------------------------------------------------------------
(***************************************************************************)
(* What is booted is the option that was listed under the key: an image is *)
(* loaded from its device, by its own file or by the default one in the    *)
(* place of the path's end; and after the reset the firmware finds this    *)
(* option, as it was listed, under the number in BootNext -- whatever      *)
(* options before it could not be read, and whatever an image that ran     *)
(* before changed.  A path with a node of impossible length is left to the *)
(* firmware.  (enumerate_boot_options, boot_loop 208-292,                  *)
(* boot_from_device_path.)                                                 *)
(***************************************************************************)
Boots(p, opt) ==
    \/ p = opt.path
    \/ /\ ~HasFile(opt.path)
       /\ \A i \in DOMAIN Walk(p) : Walk(p)[i] = (Walk(opt.path) \o <<"default">>)[i]
       /\ Contains(Walk(p), "default") /\ Ended(p)

BootsThePicked ==
    /\ pc \in {"load", "again", "start"} /\ ~Contains(options[picked].opt.path, "bad") =>
            Boots(path, options[picked].opt)
    /\ pc = "reset" => nvram.vars[boot_next] = options[picked].opt
=============================================================================
