------------------------------- MODULE Ueventd -------------------------------
(***************************************************************************)
(* The ueventd configuration reader (src/ueventd/ueventd_read_cfg.c).      *)
(* ParseUeventdConfigFile is called once per configuration file, in order; *)
(* each line is either skipped, a section header "[device]", "[sysfs]" or  *)
(* "[firmware]", or an item handed to the parser of the current section,   *)
(* which is kept in the global `callback` from one line and one file to    *)
(* the next.  The parsed entries are then looked up by                     *)
(* GetDeviceNodePermissions and ChangeSysAttributePermissions.             *)
(*                                                                         *)
(* A line is abstracted to a record: [kind |-> "skip"] for an empty or     *)
(* comment line, [kind |-> "header", name, closed] for a line starting     *)
(* with '[' (closed = FALSE when it has no ']'), and [kind |-> "item",     *)
(* toks] for any other line, toks being its space-separated tokens.        *)
(***************************************************************************)
EXTENDS Integers, Sequences, SequencesExt

CONSTANTS
    Configs,      \* the possible contents of the configuration files, in parse order
    FwDirs,       \* paths that stat() reports as directories
    LongPaths,    \* sysfs paths for which "/sys%s/%s" does not fit SYSPATH_SIZE
    BadModes,     \* mode tokens with no octal digits: strtoul converts nothing
    BigModes,     \* mode tokens out of range: strtoul sets ERANGE
    ReadFailures, \* realpath/open/fstat/malloc/read of a file may fail
    FsFailures,   \* chown and chmod may fail
    AllocFailures,\* calloc and strdup may fail while an item is parsed
    DEVMODE,      \* the default mode of a device node
    NULL,
    DevNodes,     \* device nodes ueventd is asked about
    SysPaths      \* sysfs paths ueventd is asked about


Sections == {"device", "sysfs", "firmware"}

IsHeader(l) == l.kind = "header"

(* GetSection: the three known names, anything else is SECTION_INVALID. *)
GetSection(name) == IF name \in Sections THEN name ELSE "invalid"

(* strtoul(items[MODE], NULL, 8) with errno cleared first: an out-of-range  *)
(* value sets ERANGE and the default mode is used; a token with no digits   *)
(* converts nothing, returns 0 and leaves errno at 0.                       *)
StrtoulMode(t) == CASE t \in BigModes -> DEVMODE
                    [] t \in BadModes -> 0
                    [] OTHER          -> t

(* The parsed lists g_devices, g_sysDevices and g_firmwares, and callback,  *)
(* are kept together in a record st while a file is folded line by line,   *)
(* with enomem, the items whose calloc failed and set errno to ENOMEM.     *)
(* Every entry remembers the <<file, line>> it was parsed from.  Since an  *)
(* allocation may fail, a parser yields the set of its possible outcomes.  *)

(* strdup(s): the copy, or NULL when it fails (the result is not checked). *)
Strdup(s) == IF AllocFailures THEN {s, NULL} ELSE {s}

(* calloc of the entry fails: errno = ENOMEM, the item is dropped and -1   *)
(* returned, which DoUeventConfigParse only logs.                          *)
CallocFails(origin, st) ==
    IF AllocFailures THEN {[st EXCEPT !.enomem = @ \cup {origin}]} ELSE {}

ParseDeviceConfig(toks, origin, st) ==
    IF Len(toks) # 4 THEN {st}
    ELSE CallocFails(origin, st) \cup
         {[st EXCEPT !.devices = Append(@,
             [name |-> nm, mode |-> StrtoulMode(toks[2]),
              uid |-> toks[3], gid |-> toks[4], origin |-> origin])] : nm \in Strdup(toks[1])}

(* Mutant: the sysfs parser checks the device format's field count. *)
ParseSysfsConfig_FourFields(toks, origin, st) ==
    IF Len(toks) # 4 THEN {st}
    ELSE CallocFails(origin, st) \cup
         {[st EXCEPT !.sysDevices = Append(@,
             [sysPath |-> sp, attr |-> at, mode |-> StrtoulMode(toks[3]),
              uid |-> toks[4], gid |-> toks[4], origin |-> origin])] :
            sp \in Strdup(toks[1]), at \in Strdup(toks[2])}

ParseSysfsConfig(toks, origin, st) ==
    IF Len(toks) # 5 THEN {st}
    ELSE CallocFails(origin, st) \cup
         {[st EXCEPT !.sysDevices = Append(@,
             [sysPath |-> sp, attr |-> at, mode |-> StrtoulMode(toks[3]),
              uid |-> toks[4], gid |-> toks[5], origin |-> origin])] :
            sp \in Strdup(toks[1]), at \in Strdup(toks[2])}

(* stat() is applied to the whole rest of the line, so only a line that is *)
(* a single existing directory is kept.                                     *)
ParseFirmwareConfig(toks, origin, st) ==
    IF Len(toks) = 1 /\ toks[1] \in FwDirs
    THEN CallocFails(origin, st) \cup
         {[st EXCEPT !.firmwares = Append(@, [fmPath |-> fp, origin |-> origin])] :
            fp \in Strdup(toks[1])}
    ELSE {st}

(* Mutant: the SECTION_INVALID check is dropped and callback is set from *)
(* the section name whatever it is.                                       *)
ParseUeventConfig_NoInvalidCheck(l, origin, st) ==
    CASE l.kind = "header" /\ ~l.closed -> {st}
      [] l.kind = "header" -> {[st EXCEPT !.callback = l.name]}
      [] st.callback = "device"   -> ParseDeviceConfig(l.toks, origin, st)
      [] st.callback = "sysfs"    -> ParseSysfsConfig(l.toks, origin, st)
      [] st.callback = "firmware" -> ParseFirmwareConfig(l.toks, origin, st)
      [] OTHER -> {st}

(* ParseUeventConfig on one non-empty, non-comment line.  A '[' line       *)
(* without ']' returns before touching callback; an unknown section resets *)
(* it; a known one selects funcMapper[type]; any other line goes to the    *)
(* current callback, or is rejected when there is none.                    *)
ParseUeventConfig(l, origin, st) ==
    CASE l.kind = "header" /\ ~l.closed -> {st}
      [] l.kind = "header" -> {[st EXCEPT !.callback =
                                  IF GetSection(l.name) = "invalid" THEN NULL
                                  ELSE GetSection(l.name)]}
      [] st.callback = "device"   -> ParseDeviceConfig(l.toks, origin, st)
      [] st.callback = "sysfs"    -> ParseSysfsConfig(l.toks, origin, st)
      [] st.callback = "firmware" -> ParseFirmwareConfig(l.toks, origin, st)
      [] OTHER -> {st}

(* DoUeventConfigParse: the lines of file f from line i on, in order,      *)
(* skipping empty and comment lines; the set of the states it can end in. *)
RECURSIVE DoUeventConfigParse(_, _, _, _)
DoUeventConfigParse(f, lines, i, st) ==
    IF i > Len(lines) THEN {st}
    ELSE UNION {DoUeventConfigParse(f, lines, i + 1, s) :
                  s \in IF lines[i].kind = "skip" THEN {st}
                        ELSE ParseUeventConfig(lines[i], <<f, i>>, st)}

VARIABLES
    files,       \* the configuration files, in the order they are parsed
    next,        \* the next configuration file to parse
    callback,    \* the global ParseConfigFunc callback
    devices,     \* g_devices
    sysDevices,  \* g_sysDevices
    firmwares,   \* g_firmwares
    parsed,      \* the files whose contents reached DoUeventConfigParse
    devPerms,    \* what GetDeviceNodePermissions last returned per node
    sysAttrs,    \* owner and mode of each "/sys<path>/<attr>" file
    enomem,      \* the item lines whose calloc failed
    running      \* FALSE once ueventd has dereferenced a NULL entry field

vars == <<files, next, callback, devices, sysDevices, firmwares, parsed, devPerms, sysAttrs,
          enomem, running>>

Parser == [callback |-> callback, devices |-> devices,
           sysDevices |-> sysDevices, firmwares |-> firmwares, enomem |-> enomem]

Init ==
    /\ files \in Configs
    /\ next = 1
    /\ callback = NULL
    /\ devices = <<>> /\ sysDevices = <<>> /\ firmwares = <<>>
    /\ parsed = {}
    /\ devPerms = [n \in DevNodes |-> NULL]
    /\ sysAttrs = [p \in SysPaths |-> [owner |-> NULL, mode |-> NULL]]
    /\ enomem = {}
    /\ running = TRUE

(* ParseUeventdConfigFile(files[next]): either one of realpath, open,      *)
(* fstat, malloc or read fails and the file is dropped, or the whole file  *)
(* is parsed, with any of the outcomes of its allocations.                 *)
ParseUeventdConfigFile ==
    /\ next <= Len(files)
    /\ next' = next + 1
    /\ \/ /\ ReadFailures
          /\ UNCHANGED <<callback, devices, sysDevices, firmwares, parsed, enomem>>
       \/ \E st \in DoUeventConfigParse(next, files[next], 1, Parser) :
             /\ callback' = st.callback
             /\ devices' = st.devices
             /\ sysDevices' = st.sysDevices
             /\ firmwares' = st.firmwares
             /\ enomem' = st.enomem
             /\ parsed' = parsed \cup {next}
    /\ UNCHANGED <<files, devPerms, sysAttrs, running>>

(* The lookups walk a list with STRINGEQUAL(field, key), a strcmp that     *)
(* faults on the NULL left by a failed strdup: the walk stops at the first *)
(* entry whose field is the key or NULL, and ueventd dies at a NULL one.   *)
FirstMatch(list, field, key) ==
    SelectInSeq(list, LAMBDA c : c[field] \in {key, NULL})

(* Mutant: the walk does not break at the first match, so the last entry  *)
(* for the node wins.                                                       *)
GetDeviceNodePermissions_LastMatch(n) ==
    LET k == SelectLastInSeq(devices, LAMBDA c : c.name \in {n, NULL})
    IN /\ next > Len(files) /\ running
       /\ IF k # 0 /\ devices[k].name = NULL
            THEN running' = FALSE /\ UNCHANGED devPerms
            ELSE /\ devPerms' = [devPerms EXCEPT ![n] =
                        IF k = 0 THEN NULL
                        ELSE [uid |-> devices[k].uid, gid |-> devices[k].gid,
                              mode |-> devices[k].mode, origin |-> devices[k].origin]]
                 /\ UNCHANGED running
       /\ UNCHANGED <<files, next, callback, devices, sysDevices, firmwares, parsed, sysAttrs,
                      enomem>>

(* GetDeviceNodePermissions: the first g_devices entry for the node sets   *)
(* uid, gid and mode; with none, the caller's defaults stay.               *)
GetDeviceNodePermissions(n) ==
    LET k == FirstMatch(devices, "name", n)
    IN /\ next > Len(files) /\ running
       /\ IF k # 0 /\ devices[k].name = NULL
            THEN running' = FALSE /\ UNCHANGED devPerms
            ELSE /\ devPerms' = [devPerms EXCEPT ![n] =
                        IF k = 0 THEN NULL
                        ELSE [uid |-> devices[k].uid, gid |-> devices[k].gid,
                              mode |-> devices[k].mode, origin |-> devices[k].origin]]
                 /\ UNCHANGED running
       /\ UNCHANGED <<files, next, callback, devices, sysDevices, firmwares, parsed, sysAttrs,
                      enomem>>

(* ChangeSysAttributePermissions: the first g_sysDevices entry for the     *)
(* path names the attribute; if the path fits SYSPATH_SIZE, chown and then *)
(* chmod are applied, each of which may fail on its own.  A NULL attr is   *)
(* printed by snprintf_s as "(null)", a file that does not exist, so both  *)
(* fail then.                                                              *)
ChangeSysAttributePermissions(p) ==
    LET k == FirstMatch(sysDevices, "sysPath", p)
        c == sysDevices[k]
    IN /\ next > Len(files) /\ running
       /\ k # 0
       /\ \/ /\ c.sysPath = NULL
             /\ running' = FALSE /\ UNCHANGED sysAttrs
          \/ /\ c.sysPath # NULL /\ p \notin LongPaths
             /\ \E chownOk, chmodOk \in IF FsFailures /\ c.attr # NULL THEN BOOLEAN
                                        ELSE {c.attr # NULL} :
                   sysAttrs' = [sysAttrs EXCEPT
                      ![p].owner = IF chownOk THEN [uid |-> c.uid, gid |-> c.gid, attr |-> c.attr,
                                                    origin |-> c.origin] ELSE @,
                      ![p].mode  = IF chmodOk THEN [mode |-> c.mode, attr |-> c.attr,
                                                    origin |-> c.origin] ELSE @]
             /\ UNCHANGED running
       /\ UNCHANGED <<files, next, callback, devices, sysDevices, firmwares, parsed, devPerms,
                      enomem>>

Next ==
    \/ ParseUeventdConfigFile
    \/ \E n \in DevNodes : GetDeviceNodePermissions(n)
    \/ \E p \in SysPaths : ChangeSysAttributePermissions(p)

Spec == Init /\ [][Next]_vars

-----------------------------------------------------------------------------
(* Properties *)

TypeOK ==
    /\ next \in 1..Len(files) + 1
    /\ callback \in Sections \cup {NULL}
    /\ parsed \subseteq 1..next - 1
    /\ \A o \in enomem : o[1] \in parsed /\ o[2] \in DOMAIN files[o[1]]
    /\ running \in BOOLEAN
    /\ \A e \in Range(devices) \cup Range(sysDevices) \cup Range(firmwares) :
          e.origin[1] \in parsed /\ e.origin[2] \in DOMAIN files[e.origin[1]]
    /\ \A n \in DevNodes : devPerms[n] = NULL \/ devPerms[n].origin \in
          {e.origin : e \in Range(devices)}

ListOf(s) == CASE s = "device" -> devices
               [] s = "sysfs"  -> sysDevices
               [] OTHER        -> firmwares

(* The section a line of a file belongs to, read off the file itself: the   *)
(* nearest header line above it, when that header is closed and names a    *)
(* known section; "none" otherwise (no header above it in this file, an    *)
(* unclosed header, or an unknown one).                                    *)
LineSection(f, i) ==
    LET h == SelectLastInSubSeq(files[f], 1, i - 1, IsHeader)
    IN IF h = 0 \/ ~files[f][h].closed \/ files[f][h].name \notin Sections
       THEN "none" ELSE files[f][h].name

(* An item line that has the shape its section's parser accepts. *)
WellFormed(s, l) ==
    /\ l.kind = "item"
    /\ CASE s = "device" -> Len(l.toks) = 4
         [] s = "sysfs"  -> Len(l.toks) = 5
         [] s = "firmware" -> Len(l.toks) = 1 /\ l.toks[1] \in FwDirs
         [] OTHER -> FALSE

(* Every well-formed item line of a file that was read, standing under a   *)
(* valid header of its own file, is parsed into exactly one entry of that  *)
(* section's list, or into none when its calloc failed with ENOMEM         *)
(* (DoUeventConfigParse, ParseUeventConfig and the three Parse*Config      *)
(* functions together lose and duplicate nothing else).                   *)
ItemsComplete ==
    \A f \in parsed : \A i \in DOMAIN files[f] :
        LET s == LineSection(f, i)
        IN WellFormed(s, files[f][i]) =>
              Cardinality({k \in DOMAIN ListOf(s) : ListOf(s)[k].origin = <<f, i>>}) =
                 IF <<f, i>> \in enomem THEN 0 ELSE 1

(* Parse order: file by file, line by line. *)
Before(o1, o2) == o1[1] < o2[1] \/ (o1[1] = o2[1] /\ o1[2] < o2[2])

(* GetDeviceNodePermissions answers a node with the uid, gid and mode      *)
(* written on the first line, in the order ParseUeventdConfigFile read     *)
(* the files and DoUeventConfigParse their lines, that became a g_devices  *)
(* entry for it: ListAddTail keeps parse order and the walk breaks at the  *)
(* first match, so a later line for the same node never overrides it.     *)
DevicePermsFromFirstLine ==
    \A n \in DevNodes : devPerms[n] # NULL =>
        LET cand == {e.origin : e \in {d \in Range(devices) : d.name = n}}
            l == files[devPerms[n].origin[1]][devPerms[n].origin[2]]
        IN /\ devPerms[n].origin \in cand
           /\ \A o \in cand : ~Before(o, devPerms[n].origin)
           /\ l.toks[1] = n
           /\ devPerms[n].uid = l.toks[3] /\ devPerms[n].gid = l.toks[4]
           /\ devPerms[n].mode = StrtoulMode(l.toks[2])

(* Every parsed entry comes from a line that stands under a valid header   *)
(* of its section in the same file: the `callback` kept by                 *)
(* ParseUeventConfig never hands a line to the parser of a section the     *)
(* line is not in.                                                         *)
SectionAttribution ==
    \A s \in Sections : \A e \in Range(ListOf(s)) : LineSection(e.origin[1], e.origin[2]) = s

====
