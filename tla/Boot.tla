-------------------------------- MODULE Boot --------------------------------
(* The boot loader of Project 1: measure the NORMAL kernel's image, load it if the measurement is   *)
(* the expected one, load the RECOVERY kernel otherwise (start.c, elf.c, load.c). Addresses of the  *)
(* loaded kernel are relative to its load address.                                                  *)
EXTENDS Integers

CONSTANTS image,         \* the two images, byte by byte from their first
          shoff, shentsize, shnum,   \* fields of their ELF headers
          Hash(_),       \* SHA-256
          trusted_kernel_hash,
          BSIZE, FSSIZE,
          HeaderSize,    \* bytes before the segment: 4096
          Untouched

Kernel == {"NORMAL", "RECOVERY"}

\* Blocks before the segment.
skip_memory == HeaderSize \div BSIZE

Addr == -HeaderSize..FSSIZE * BSIZE

\* The end of the section headers, which come last in the file.
find_kernel_size(k) == shoff[k] + shentsize[k] * shnum[k]

total_size(k) == find_kernel_size(k) \div BSIZE
balance(k) == find_kernel_size(k) % BSIZE

\* What sha256_update() reads.
Measured == [i \in 0..find_kernel_size("NORMAL") - 1 |-> image["NORMAL"][i]]

VARIABLES stage,
          kernel,        \* the one that is loaded
          block,         \* p of the loop
          mem,
          mepc           \* the kernel whose entry address mret jumps to

bootVars == <<stage, kernel, block, mem, mepc>>

BootInit ==
  /\ stage = "verify" /\ kernel = "NORMAL" /\ block = 0
  /\ mem = [a \in Addr |-> Untouched] /\ mepc = Untouched

\* is_secure_boot()
IsSecureBoot ==
  /\ stage = "verify"
  /\ kernel' = IF Hash(Measured) = trusted_kernel_hash THEN "NORMAL" ELSE "RECOVERY"
  /\ block' = skip_memory
  /\ stage' = "load"
  /\ UNCHANGED <<mem, mepc>>

\* kernel_copy() of block b, and memmove() of its first n bytes to their place.
Moved(b, n) ==
  LET c == (b - skip_memory) * BSIZE IN
  mem' = [a \in Addr |-> IF c <= a /\ a < c + n THEN image[kernel][b * BSIZE + (a - c)] ELSE mem[a]]

\* A turn of the loop.
LoadBlock ==
  /\ stage = "load" /\ block < total_size(kernel) /\ block < FSSIZE
  /\ Moved(block, BSIZE)
  /\ block' = block + 1
  /\ UNCHANGED <<stage, kernel, mepc>>

\* Only the NORMAL kernel has its last, incomplete block loaded.
HasTail == kernel = "NORMAL" /\ balance(kernel) # 0

LoadTail ==
  /\ stage = "load" /\ block >= total_size(kernel)
  /\ HasTail => total_size(kernel) < FSSIZE
  /\ IF HasTail THEN Moved(total_size(kernel), balance(kernel)) ELSE UNCHANGED mem
  /\ mepc' = kernel
  /\ stage' = "mret"
  /\ UNCHANGED <<kernel, block>>

\* panic() of kernel_copy().
TooBig ==
  /\ stage = "load"
  /\ \/ block < total_size(kernel) /\ block >= FSSIZE
     \/ block >= total_size(kernel) /\ HasTail /\ total_size(kernel) >= FSSIZE
  /\ stage' = "panic"
  /\ UNCHANGED <<kernel, block, mem, mepc>>

BootNext == IsSecureBoot \/ LoadBlock \/ LoadTail \/ TooBig

BootSpec == BootInit /\ [][BootNext]_bootVars

----------------------------------------------------------------------------
(* Properties *)

\* The first n bytes of an image, header left out, at their place, and nothing else.
Loaded(k, n) ==
  [a \in Addr |-> IF 0 <= a /\ a + HeaderSize < n THEN image[k][a + HeaderSize] ELSE Untouched]

\* The NORMAL kernel runs only if its measurement is the trusted one; what is in memory then is every
\* byte that was measured after the header, the last partial block included, and no other byte
\* (start.c:74, 184-207).
VerifiedIsLoaded ==
  stage = "mret" /\ mepc = "NORMAL" =>
    /\ Hash(Measured) = trusted_kernel_hash
    /\ mem = Loaded("NORMAL", find_kernel_size("NORMAL"))

\* The RECOVERY kernel runs only if the measurement is not the trusted one, and with its whole blocks
\* only: the last find_kernel_size(RECOVERY) % BSIZE bytes are not loaded (start.c:48-62).
RecoveryInBlocks ==
  stage = "mret" /\ mepc = "RECOVERY" =>
    /\ Hash(Measured) # trusted_kernel_hash
    /\ mem = Loaded("RECOVERY", total_size("RECOVERY") * BSIZE)
=============================================================================
