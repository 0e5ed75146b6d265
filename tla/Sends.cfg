CONSTANTS
  MaxBody = 2
  MaxUpload = 2
  MaxSends = 2
  Backends = {"curl", "libuv", "libevent", "raw", "winhttp", "wininet", "libsoup3",
              "fetch", "wasm", "msh3", "apple", "picoquic", "xquic"}
SPECIFICATION Spec
INVARIANT ResponseComplete
INVARIANT NothingLeftBehind
 
PROPERTY SendReturns
