SPECIFICATION Spec
CONSTANTS
    Half = 4
    MaxErrno = 2
    EBADF = 1
    EINVAL = 2
    EACCES = 2
    ENOENT = 2
    ENOMEM = 2
    ENOTTY = 2
    File = {f, p}
    Pipe = p
    Directory = {d, e}
    Names = 2
    MaxFd = 4
    Fake = {5}
    Position = {0, 1, 5, 6}
INVARIANTS DirHasItsDescriptor CarryMeansFailure ErrorIsItsOwn
PROPERTIES ImplementsDescriptorTable
CHECK_DEADLOCK FALSE
