----------------------------- MODULE UserStore ------------------------------
(***************************************************************************)
(* oxish/src/unix/mod.rs, SystemStore: the account behind a name, from the *)
(* system's database, and the keys in the authorized_keys file of its home *)
(* directory.  Authentication calls them; what a line of the file grants   *)
(* is in KeyOptions.                                                       *)
(*                                                                         *)
(* The database answers a name or an id with an entry, with none, or with  *)
(* an error; an entry has a length, which has to fit the caller's buffer.  *)
(* The system is the database's answer, the limit sysconf suggests and the *)
(* file system: what is found under a home directory.                      *)
(***************************************************************************)
EXTENDS KeyOptions

CONSTANTS
  MIN_BUF_LEN,   \* 1024
  MAX_BUF_LEN,   \* 1 MiB
  U32_MAX        \* the id of nobody

ASSUME UserStoreAssumption ==
  /\ MIN_BUF_LEN \in Nat \ {0}
  /\ MAX_BUF_LEN \in Nat /\ MAX_BUF_LEN >= MIN_BUF_LEN
  /\ U32_MAX \in Nat \ {0}

NoEntry == [failed |-> FALSE, found |-> FALSE, length |-> 0]
Failure == [failed |-> TRUE, found |-> FALSE, length |-> 0]
FAKE_HOME == "/var/empty"
DEFAULT_SHELL == "/bin/sh"
Null == "null"

-----------------------------------------------------------------------------
(* UserLookup::resolve. *)

\* getpwnam_r and getpwuid_r.
getpw_r(answer, len) ==
  IF answer.failed THEN "EIO"
  ELSE IF answer.length > len THEN "ERANGE"
  ELSE "0"

\* A limit that is not known is -1.
buf_len(limit) ==
  IF limit = -1 \/ limit < MIN_BUF_LEN THEN MIN_BUF_LEN
  ELSE IF limit > MAX_BUF_LEN THEN MAX_BUF_LEN
  ELSE limit

\* The loop doubles the buffer until the entry fits or it has its full size.
retried(answer, limit) ==
  LET loop[len \in MIN_BUF_LEN..MAX_BUF_LEN] ==
        LET ret == getpw_r(answer, len)
        IN IF ret # "ERANGE" \/ len >= MAX_BUF_LEN THEN ret
           ELSE loop[IF len * 2 < MAX_BUF_LEN THEN len * 2 ELSE MAX_BUF_LEN]
  IN loop[buf_len(limit)]

\* A name that has no entry is a user all the same, with an id nobody has and a
\* home directory that is empty.
resolve(name, answer, limit) ==
  IF retried(answer, limit) = "0" /\ answer.found
    THEN [name |-> name, id |-> answer.uid,
          home_dir |-> IF answer.dir = Null THEN FAKE_HOME ELSE answer.dir,
          shell |-> IF answer.shell \in {Null, ""} THEN DEFAULT_SHELL ELSE answer.shell]
    ELSE [name |-> name, id |-> U32_MAX, home_dir |-> FAKE_HOME, shell |-> DEFAULT_SHELL]

\* SystemStore::lookup: whether there is a user at all.
Admits(user, root_policy) == user.id = 0 => root_policy = "Allow"

-----------------------------------------------------------------------------
(* SystemStore::keys. *)

\* Not writable for group and others, and owned by root or by the user.
check_permissions(file, uid) ==
  file.statable /\ ~file.writable /\ file.owner \in {0, uid}

\* open_dir, openat: an object that is not there, or cannot be opened.
Opens(file) == file.there

\* A line that grants nothing is passed over.
Entry(line) == IF from_str(line).granted THEN <<from_str(line)>> ELSE <<>>

\* The file of a home directory, if its levels pass in their order.
keys(home, user) ==
  IF \A level \in {"home", "ssh", "file"} :
       Opens(home[level]) /\ check_permissions(home[level], user.id)
    THEN IF home.readable
           THEN FlattenSeq([i \in DOMAIN home.lines |-> Entry(home.lines[i])])
           ELSE <<>>
    ELSE <<>>

-----------------------------------------------------------------------------
(* Properties. *)

\* What the database can answer, and what can be under a home directory: nothing
\* there is owned by the id of nobody.
IsAnswer(answer) ==
  /\ answer.failed \in BOOLEAN /\ answer.found \in BOOLEAN /\ answer.length \in Nat
  /\ answer.found => ~answer.failed /\ answer.uid \in 0..(U32_MAX - 1)
IsHome(home) ==
  /\ \A level \in {"home", "ssh", "file"} :
       /\ home[level].there \in BOOLEAN /\ home[level].statable \in BOOLEAN
       /\ home[level].writable \in BOOLEAN /\ home[level].owner \in 0..(U32_MAX - 1)
  /\ home.readable \in BOOLEAN
  /\ home.lines \in Seq(Seq(Symbol))

\* What a name is granted when the database and the directory are as they are:
\* an account that fits the largest buffer is found whatever the first buffer
\* is, a key is granted only by a file that nobody but its user and root could
\* write, at every level, one bad line does not touch the others, and a name
\* without an account gets an id that is no account's and the empty directory.
StoreRight(name, answer, limit, home, root_policy) ==
  LET user == resolve(name, answer, limit)
      exists == answer.found /\ answer.length <= MAX_BUF_LEN
      granted == IF Admits(user, root_policy) THEN keys(home, user) ELSE <<>>
      safe == \A level \in {"home", "ssh", "file"} :
                 /\ home[level].there /\ home[level].statable
                 /\ ~home[level].writable
                 /\ home[level].owner = 0 \/ (exists /\ home[level].owner = answer.uid)
  IN /\ IF exists THEN user.id = answer.uid /\ user.home_dir \in {answer.dir, FAKE_HOME}
        ELSE user.id = U32_MAX /\ user.home_dir = FAKE_HOME
     /\ user.shell \notin {Null, ""}
     /\ granted # <<>> => safe /\ (user.id = 0 => root_policy = "Allow")
     /\ safe /\ home.readable /\ Admits(user, root_policy) =>
          {granted[i] : i \in DOMAIN granted}
            = {from_str(home.lines[i]) : i \in DOMAIN home.lines} \ {Ignored}
=============================================================================
